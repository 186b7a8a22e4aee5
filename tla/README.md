# Golim in TLA+

Golim is an assistant for the terminal: a language model works on a request by
calling tools, and tools run in a server process of the user that can run
commands as root when the user agrees. The interesting code is not in any single
function. It lies in what threads and processes do to each other: the event loop
of the tool server, one worker per tool call with the processes of its command,
the client thread that waits for the call, the agent's request threads, and the
terminal application in front of the user; the root daemon `golim-authd`, which
keeps session tokens; and other sessions on the same files. This directory holds
TLA+ models of those parts, the TLC configurations that check them and proofs
that the TLA+ proof system checks.

All paths below are relative to `src/`.

## 1. Inventory

| Part | State | Operations | Hard because |
|---|---|---|---|
| **Tool server**, `golim/toolset/server.py`, `utils/bash_utils.py`, `auth_session.py`, `config.py`, with its client `golim/core/mcp_client.py` | `_pending_approvals`, `_pending_auths`, `_approval_seq`, an event queue and lists of questions per call, `_cached_token`, the whitelist file | `tools/call`, `approval/respond`, `auth/respond`, `auth/sudo_password`, `auth/status`, disconnect | a worker blocks on an answer that arrives on another connection; the client may hang up at any moment; token and whitelist are shared by all calls |
| **golim-authd**, `packaging/golim-authd.py` | `_tokens`, `_register_failures` under two locks | `register`, `verify`, `revoke`, cleanup, restart | a thread per connection; the clock is read before the locks are taken; `register` verifies a password (up to a minute) in its middle |
| **Privileged wrapper**, inside `packaging/postinstall.sh` | none | check token, check whitelist, exec | the last check before root, against state others change |
| **Agent loop**, `golim/core/agent.py` | `messages`, `tool_history`, the calls of the reply | ask the model, run its tool calls one by one, summarise | two flags set from outside at any time; tool threads that cannot be killed; errors at every step must leave a usable conversation |
| **Runtime**, `golim/core/runtime.py` | `messages`, `execution_history`, two events | `run`, `run_followup`, `interrupt`, `hard_cancel`, `reset_conversation`, `ensure_mcp_server` | owns what survives a run |
| **Permissions**, `golim/core/permissions.py` | mode, approval callbacks | allow or ask | the answer may come from a cancelled interface |
| **Terminal application**, `golim/ui/tui/app/app_tui.py`, `agent_events_handler.py` | `_busy`, `_active_run_id`, `_pending_followup`, `_approval_request`, `_auth_request`, the cancel event | submit, clarify, Escape, `/new`, `run_chat` | event loop and worker thread both write the same fields |
| **Server life cycle**, `run_server`, `Runtime.ensure_mcp_server` | socket file, `last_activity` | start, stop on inactivity, restart | two processes, one path |
| **Commands**, `_stream_subprocess` and the framing in `bash_utils.py`, `exec_python` in `tools.py` | open streams, pending text, a process group | read, frame, shorten, end a group | CR/LF at the edge of a read; processes that fork, outlive their leader or belong to root; poll against read |
| **Configuration store**, `golim/config/config.py` | two JSON files with one temporary name each, a session model | load, reload, set, choose and remember a model | several sessions, kills between two steps of a save |
| **Configuration screens**, `golim/ui/tui/config`, the menu in `app_tui.py` | state, history of states, one pending page, `_cancelled` | answer, back, cancel, menu | a worker that blocks on a page of the event loop; settings saved page by page |
| **Transcript and its handler**, `widgets/transcript.py`, `agent_events_handler.py` | rows, log with row counts, entries, held line, live id, `_thinking_buffer` | stream, hold, commit, expand, resize | the same text kept three times; threads of cancelled runs |
| **Providers**, `golim/api` | none | one chat request with retries, messages rewritten per provider | retry of what was already streamed |
| Other tools, `golim/toolset/tools.py`, `utils/web_utils.py` | none | find, read, write, web | sequential |
| Skills, `golim/core/skill_loader.py` | none | scan and parse | read only |
| Line interface, `golim/ui/basic` | terminal mode | print, ask, watch for Escape | the terminal is shared by two threads |
| Entry points, logging, launcher, build and release scripts | none | | not part of the running behaviour |

How they interact. The application starts a worker thread per prompt
(`run_chat`). The worker calls `Runtime.run` or `run_followup`, which builds a
`ToolAgent`. The agent asks a provider, and starts one daemon thread per tool
call, which connects to the tool server. The server starts a worker for the
call; when a command needs the user, the worker registers a question and blocks,
the event loop sends a frame, the client thread calls back into the interface,
the interface posts a prompt to its own event loop and blocks until a key is
pressed, and the answer goes back on a new connection. A privileged command
carries a token of `golim-authd`, which the wrapper has verified. What a command
prints travels the same way back: the worker reads it, frames it and queues it,
the client thread hands it to the handler of the run, and the handler has the
event loop write it into the transcript.

What makes each part correct is stated with the properties in section 3.
`PROJECT.json` lists the components with their status, and the hazards of this
code, each with the line where it bites and the properties that guard it.

## 2. Modules

| Module | Models | Constants |
|---|---|---|
| `PrivilegeGate` | abstract: a call runs a binary as root only on consent | calls, binaries, what is listed from the beginning |
| `ToolServer` | the held `bash` call: worker, event loop, client thread, user, whitelist, token | calls, binaries, the requests they may make, bounds |
| `AuthD` | the daemon: connections, tokens, failures and bans, cleanup, restart | users, connections, the four times and limits of the code, bounds |
| `AgentRun` | Runtime and ToolAgent: runs, replies, tool calls and their threads, interrupts | `MAX_AGENT_ITERATIONS`, bounds |
| `ChatSession` | the application: prompts, workers, questions, Escape | bounds |
| `ServerLifecycle` | the processes of the tool server, their socket file, and the clients that start them | clients, bounds |
| `OutputFraming` | decoding, framing and shortening of output, as operators | |
| `CommandOutput` | one command: its processes, their outputs, the worker that reads and ends it; extends `OutputFraming` | `OUTPUT_LINE_LIMIT`, a bound |
| `ConfigStore` | the two files and the sessions that share them | sessions, keys, values, models, a bound |
| `ConfigWizard` | the wizard, its two hosts and the menu | bounds |
| `Transcript` | the widget, as operators on one record | widths, the height of a text at a width |
| `ChatDisplay` | a run as it is shown: worker, request threads, tool threads, handler; extends `Transcript` | `MAX_TOOL_OUTPUT_LINES`, the stream of a line (`Fd`), bounds |
| `MC...` | instances for TLC: model values, symmetry, the requests of `ToolServer` | |
| `..._proofs` | theorems with their proofs; `Processes_proofs` extends `ServerLifecycle` and `CommandOutput` together, hence `CommandSpec`, `CommandNext`, `CommandTypeOK` in the second | |

### ToolServer

`worker[c].pc` names the place in `_exec_shell` and the functions it calls
where the thread of call `c` is: `prepare` before `_prepare_shell_command`,
`register`, `list`, `put`, `wait` inside `request_approval` and
`request_sudo_password`, `token`, `fetch`, `clear`, `enroll`, `store` inside
`obtain_session_token`, `run` in the shell. One step of a worker is what it does
between two accesses to state that another thread can see: registering a
question (under the lock), noting it in `local_approvals` and putting it on the
queue are three steps, since the event loop may run between them. One step of
the loop is what it does between two awaits. `serve[c]` is the coroutine
`_run_tool_call`, `client[c]` the client thread, and `replies` are the answers
under way, each on a connection of its own.

`HandleReplyFails` is `add_privileged_binary` failing on disk
(`WhitelistFaults`): the binaries are added one by one, so some of them may be on the
list by then, and the question, already out of its table, is never answered.
`CheckToken` may find a live token invalid, since `verify` says no also when it cannot
reach `golim-authd`. `TokenDies` and `Unlist` are the world outside: a token
expires or is lost in a restart of the daemon, and the user edits the whitelist.
`Authenticate` is `auth/sudo_password`.

A command is the sequence of the binaries it runs under `sudo`; how they are
found in its text is not modelled, and its output is `CommandOutput`. The
wrapper is the guard of `RunBinary`.

### AuthD

A connection thread is a record with the request it handles, the time it read
(`at`) and where it is. `Receive` reads the clock, and each following step holds
one of the two locks. Digests of tokens are numbers; `minted`, `revoked` and
`imposed` are history variables, used by properties only. `Tick` moves the
clock, which never steps back. A restart loses the tables and the connections.

### AgentRun

`agent.pc` is where the worker thread is: `ask` and `think` around
`_chat_with_hard_cancel`, `call` at the permission check, `tool` in the poll loop
of `_call_tool_with_long_running_policy`, `decide` while the model is asked
about a long tool, `summary` in `_summarize_after_iteration_limit`. `saved` is
what `Runtime` keeps. `thread[k]` is the daemon thread of a tool call, which goes
on when it is given up. `Record` stands for the end of a call: the history is
extended, the flag is looked at, and, after the last call of the reply, the
assistant message and its results are appended. `Raise` is the exception handler
of `_run_action_agent`. A message is its role and the calls it asks for or
answers. `Normalized` is `normalize_messages_for_openai`, a recursive function over the
messages with a queue of calls for each name (`Queued`): for every naming of the calls, and whichever of them have an identifier,
it must pair each result with its call (`ResultsMeetTheirCalls`).

Two runs may overlap on one `Runtime`: the last `set_busy(False)` of an ended run comes
when the next is under way, and the user may start another or empty the conversation
(`Stale`). Both runs work on copies, and the last to return puts its own in place.
`agent` is followed step by step; `other` is the run beside it, reduced to what it takes
from `Runtime` when it starts, clears then, and leaves there when it returns
(`OtherStarts`, `OtherEnds`). `beside` is history: two runs have had the conversation
between them since the last new chat.

### ChatSession

Handlers of the application are steps of its event loop. `worker[r]` is the
thread in `run_chat` for run `r`, `ask[a]` a question and the thread that waits
for it, `slot` the two fields that hold the question on the screen. A question
may come from the worker itself, from the thread of its tool call, or from the
thread of a call that a hard cancel gave up (`"orphan"`).

### ServerLifecycle

`proc[s]` names the place in `run_server` where process `s` is: `look` and
`unlink` remove an old file, `bind`, `bound`, `serve`, then `doomed` once the
timer thread has looked, `drain` in `wait_closed` (on the Python that
`pyproject.toml` pins it returns when the last connection is over), `leave` and
`remove` in the finally block. `path` is the process whose socket the file names.
`Chmod` raises when the file is gone, which takes the process to its finally block.
A client goes through `ensure_mcp_server` and then makes calls; it fails when its
last probe fails. A call connects (`Connect`), and only when its request is read does
the server note its activity (`Call`); the timer may look between the two. A process may
be killed with the service manager replacing it (`Crash`), or by SIGTERM, which is no
failure for `Restart=on-failure` (`Terminate`). `LongTime` is twenty minutes passing, longer than any client
needs. `Settled` is the timing the code relies on: a process that starts or
leaves does so within the ten seconds a client waits. `systemd` is chosen at the
start, so that one run covers machines with a user bus and without.

### CommandOutput

`pc` is where the worker is in `_stream_subprocess`: `check` at the head of its
loop, `select`, `poll`, `read`, `flush`, the finally block, `wait`, and `term` and
`kill` in `_terminate_process_group`; a Python program (`tool = "exec"`) goes
through the loop around `communicate` instead, which may raise at any moment
(`tools.py:457`) and end the call with the program alive. The command is a leader and at most
one child of the same group, each of which holds some of the outputs; `Fork`,
`Write`, `CloseOutput` and `ProcessExits` are its own, and which processes run as root is
chosen when the first signal is sent. A byte is half a character, a carriage return
or a line feed, so that every read may tear a character or a CRLF.

In `OutputFraming`, `Decoded` keeps a character as its two halves and makes a half without
the other a "bad" character, as the decoding of every read on its own does. `Split` is one
round of the loop of `_append_stream_text` and `Scan` all of them. What they are compared
with is the text as a whole: its lines end at every line feed and at every carriage return
that no line feed follows.

### ConfigStore

A save is three steps on a shared temporary file: cut it, write it, rename it
(`Open`, `WritePart`/`Write`, `Replace`), and `at` remembers what an open handle
refers to after somebody else has renamed it. `Start` is `Config.__init__`, `Reload`
the application's, `Set` and `Choose` begin a save. `Crash` ends a session at any
step.

### ConfigWizard

`state` is the state of `run_config`, `page` the prompt of `ConfigPromptHandle` it
has come to. `CheckAlive`, `Show` and the reply are separate steps, since
`_check_alive`, `call_from_thread` and `event.wait` are what the event loop runs
between. `host = "app"` is `golim -init`, `"panel"` the application. A model is kept
as the provider it belongs to, and `using` is the one the application requests.
`checked` is history: providers that answered since their settings changed. For Ollama
the connect check runs `ollama list`, which asks the server of its own environment;
`ollama` says whether the URL in the settings is that one (`"local"`) or another, and only
the first is checked. The check of the installation sets the URL from the environment,
which it reads in its own way, so that either may result.

### Transcript and ChatDisplay

An operator of `Transcript` is a method of the widget, on a record with the rows on
screen (`lines`), the log with what each row count was made of, the entries that a
click expands, the held line and the live entry. `ChatDisplay` adds who calls them.
`Emit` is the check of the run by a thread and `Show` the change made later by the
event loop, for which the thread waits; `Cancel` may come between. `req[r]` is the
thread of a request, through all its retries, `tool[k]` that of a tool call, and both
go on when the run is given up. `worker.stream` is `_last_stream`, the last line of either
stream, which the result of a call that is not a command makes final (`CommitStream`,
`Transcript!Commit`), also when it was streamed by a tool thread left behind.

As in `AgentRun`, `SetBusy` may free the screen under a run (`freed` counts the calls on
their way), and `Submit` start another. The worker that has not left is then an *elder*:
what it waits for is still shown, and what it shows without looking at its run
(`ElderShows`), it may run the followup it had popped, clearing the flags of the latest
run (`ElderRuns`), and it leaves. Everything else it would show is checked, and silent.

## 3. What is checked

| Run | Question | Properties |
|---|---|---|
| `toolserver_safety` | two calls at once, a strict and a relaxed one, with a whitelist write that may fail | `AnswersAreOwn`, `RunsAreAuthorized`, `PendingIsAwaited`, `GateHolds` |
| `toolserver_single` | one call through every path, a failing whitelist write among them, under fairness | `QuestionReachesUser`, `ReplyEndsWait`, `NobodyToAskEnds` |
| `toolserver_orphan` | violated: no question is left behind by a disconnect | `NoOrphanQuestion` |
| `authd` | two connections, expiry, revocation, restart and ban; cleanup under fairness | `BanHolds`, `VerdictsAreTrue`, `ExpiredForgotten` |
| `agentrun` | three runs on a runtime, of which two may overlap, and what a provider is sent | `ProviderAccepts`, `ResultsMeetTheirCalls`, `ResultsAreKept`, `OneCallAfterInterrupt`, `ConversationGrows`, `HardCancelEnds` |
| `chat_safety` | two workers, four prompts, two questions | `PromptRunsOnce`, `ShownIsAwaited`, `WaitingIsShown`, `BusyHasWorker` |
| `server_lifecycle` | two clients, four processes, one path | `EnsureSucceeds`, `ServingIsReachable`, `InactivitySparesCalls`, `OnlyKilledLeavesFile`, `ServersEnd` |
| `command_output` | a command of two processes, read in any pieces and cancelled at any time | `OutputIsTold`, `OutputIsDrained`, `GroupIsTold`, `CancelEndsCall` |
| `config_store` | two sessions on one directory, killed anywhere | `FilesAreWhole`, `NothingForgotten`, `SessionModelIsOwn`, `OthersAreKept` |
| `wizard` | every way through the wizard, from any settings, in both hosts | `FinishMeansUsable`, `StaysComplete`, `EscapeLeaves` |
| `wizard_stale` | violated: the application requests a model of the provider it asks | `ModelIsOfProvider` |
| `display` | prompts whose threads outlive a cancel or a run beside theirs, clicks, a new width | `ScreenIsFaithful`, `TracesAreOwn`, `CancelSilences`, `WrittenStays` |

Each module with variables has a type invariant, `TypeOK`. It is a theorem for every
module (section 5). In seven the other proofs rest on it; those of `ConfigStore` and
`ChatDisplay` need less. Each property of a passing run has a
mutant, a variant of one definition with a plausible mistake that the run must
catch; the mutants stand in the modules next to the definition.

History variables bound what the code promises. `ConfigStore` claims
nothing of a file of which two saves overlapped (`overlap`), and of settings a session has not read
again (`stale`); `ResultsAreKept` and `ConversationGrows` claim nothing of a conversation
that two runs have shared (`beside`): these are really lost, see section 4. `ReplyEndsWait`
excepts an approval whose write has failed, `GroupIsTold` a Python program whose
`communicate` has raised, `InactivitySparesCalls` a call whose request was read after the
timer had looked, and `FinishMeansUsable` an Ollama at a URL of its own. `CommandOutput`
counts the bytes that were there when `select` last timed out (`seen`).

**Bounds.** Two calls are what it takes for one call to disturb another's
question, token or consent, and the two requests of `MixedRequests` cover the
mode that trusts the whitelist and the one that does not; the single-call run
has commands of two binaries, listed and unlisted, and notifications. Two
connections are enough for the races of the daemon, since every handler touches
the tables at most twice; one token is minted, checked, revoked and forgotten, and
the theorems cover any number; the limit of two failures gives a count below and at
the limit; `MaxTime` covers a lifetime and the ban. `AgentRun` has replies
of up to two calls, so that a run can be interrupted between them, two
iterations, so that the limit is reached with tools and without, and three runs,
so that a follow-up follows an interrupted follow-up. `ChatSession` has two
workers, since its races are between the end of one and the start of the next.
`ServerLifecycle` has two clients,
one of which restarts the service around the other's call, and four processes,
enough for a stale file, a first server, its successor and a restart. `CommandOutput` has three bytes in all,
enough for a CRLF or a character torn by a read beside one more unit, and a result
that keeps two lines of three. `ConfigStore` has four saves: two of either session,
in either file, so that a save can fall between any two steps of another and a
third can meet what they left. `ConfigWizard` answers six pages, which reaches the
last page of every branch and leaves room to go back, and opens the menu once after
the wizard of the start; the variable `history` is bounded by the answers. `ChatDisplay`
has two requests and one tool: a request that goes on after its run was given up
beside one of the follow-up, and a tool beside the question about it; texts of one
row and of two, at two widths. These are not reached all at once: the constraint of the run, `Scenes`, leaves
out the thinking and the gestures when there is a second tool, and all but the first thought when a click or a new width
comes with a tool; it has more than two prompts, the four it takes to start a run beside another
that has popped a prompt, with one tool that prints a line and one request only. All these counters only grow, so that
nothing inside a scene is cut off. That a provider accepts what two overlapping runs have left is
checked to the end of the third run, and proved for any number (`RequestsAccepted`).
`MaxTokens`, `MaxTime`, `MaxCalls`, `MaxRuns`, `MaxPrompts`,
`MaxAsks`, `MaxServers`, `MaxBytes`, `MaxSaves`, `MaxAnswers`, `MaxOpens`, `MaxRequests`, `MaxTools`,
`MaxThoughts`, `MaxGestures` and `MaxOutput` only stop counters that have no bound in
the code.

**Deadlock** is not checked: every model may rightly stop, when the calls are
over, the clock has reached its bound, or the user has nothing more to say. That
nobody waits for ever is stated by the liveness properties.

**Fairness.** In `ToolServer` the event loop and each worker go on while they
can, and a reply that was sent is read: all three run on schedulers that serve
every runnable thread. The user owes no answer, the client may hang up or not,
and a command may run for ever. In `AuthD` the cleanup thread goes on; clients
owe nothing. In `AgentRun` the chat worker goes on, the permission gate is
answered (Escape answers an open prompt and a cancelled interface denies the
next), and the summary request has a time limit. Tool calls and polled requests
may last for ever, which is what `HardCancelEnds` is about. In `ServerLifecycle`
processes and clients go on and time passes; a call need not end. In `CommandOutput`
only the worker goes on, whose every wait has a time limit: the command may write
and live for ever. In `ConfigWizard` the worker goes on, as each request to a
provider has a time limit, and a user who wants to leave presses Escape as often as
it is offered; nobody need answer a page.

**Refinement.** `GateHolds` states that `ToolServer` implements `PrivilegeGate`
under the mapping in `Gate`: the mode of a call is read off its request, consent
and refusal off the answers that reached it, and what was done off `ran`.

## 4. Where the code and its documents disagree

Two runs check a claim of a comment or a test and are violated; `PROJECT.json` quotes the
lines. Each stops with a shortest counterexample that reads as a scenario.

* `NoOrphanQuestion`: a worker that has not yet registered its question when the
  client disconnects registers it afterwards and waits for ever
  (`golim/toolset/server.py:162`).
* `ModelIsOfProvider`: a wizard that is left after its model page has changed the
  provider and not the application's model (`golim/ui/tui/app/app_tui.py:644`).

The models reach more of what a reader of the documents would not expect. The
properties are stated so that they allow it:

* *Questions.* An approval whose binaries cannot be written to the whitelist raises
  after the question was taken out of its table and before its event is set: the worker
  waits for ever, although the user has answered (`golim/toolset/server.py:79-88`).
  The approval of several binaries may have written some of them by then.
* *Runs.* A hard cancel that comes before the tool thread has connected closes
  nothing, and the tool runs on the server (`golim/core/agent.py:375`). Of two
  clarifications queued in a row the first is dropped, though the README calls them
  queued (`golim/ui/tui/app/app_tui.py:823`). After a clarification the first Escape
  cancels hard, against the comment at `app_tui.py:1009` (line 1013). The last
  `set_busy(False)` of an ended run clears the busy mark of the run after it, and the
  next prompt starts a run beside that one (line 1125). The later start clears an interrupt or a
  hard cancel meant for the earlier run, and the last of the two to return puts its messages
  and its history in place of the other's (`golim/core/runtime.py:351-352`, `400-401`).
* *Commands.* A process is polled after `select` timed out, and what it wrote between
  the two and its end is never read, though the comment says drained
  (`bash_utils.py:402`). A process of root, and a child forked after the group was
  told, survive a cancelled call; so does the whole group when its leader had ended. A Python program goes on when
  `communicate` raises, as it does for input that cannot be encoded (`tools.py:457`).
  A character torn by a read is replaced. The lines of both streams are counted
  together for the limit, and each is shortened by itself.
* *Settings.* A session saves all settings it has read, over those another has
  changed since. Two overlapping saves may leave a torn file, at which the next start
  fails, or make one session fail at its rename.
* *Wizard.* A URL typed for Ollama leads on, and the wizard ends well, without a server at
  that URL having been asked, against the comment at `config_tui.py:314`: the check runs
  `ollama list`, which does not look at the setting (`config_tui.py:298`). A list of recent models that begins with an unknown provider makes the
  wizard end at its first state (`config_tui.py:195`). A key or URL is saved before it is
  tried. The check of the installation resets a custom Ollama URL. The Ollama branch asks the common
  settings also when only a provider is set up (`_provider_complete_state` spares the
  others). In `golim -init`, Ctrl+C between the look at `_cancelled` and the page
  leaves the worker waiting for a page nobody shows; the process ends all the same.
* *Display.* A retry streams again what the failed attempt had streamed. A follow-up
  clears the flags by which the threads of the cancelled run before it were silenced,
  and these then write into the same `_thinking_buffer`; the worker of an older run does the same
  to the flags of a newer one, with a follow-up it had popped. A line that a tool left behind streams is made
  final, as if it were its own, by the result of the next call that is not a command
  (`agent_events_handler.py:300`). A cancelled run leaves its live
  thinking entry, which the next run's thinking rewrites, above the new query. A
  stream that ends without its last chunk passes for complete.

## 5. What is proved

For every value of the constants that satisfies the named assumption of the
module, the following are proved as theorems `Spec => []...`. `ModelIsOwn`, `OthersKept`,
`OnlyGrows`, `KeepsComplete` and `Stays` are about every step, and `GateImplemented` is a
refinement: `Spec` implies the specification of `PrivilegeGate` under the mapping of
section 3. The theorems of `ChatDisplay` have `HeightIsCount` as a hypothesis (below).

| Theorem | Statement |
|---|---|
| `ToolServer_proofs!TypeCorrect` | the type invariant |
| `ToolServer_proofs!QuestionsRegistered` | whatever carries a question carries a registered one, and no two share an id |
| `ToolServer_proofs!AnswersOwn` | a worker acts on the answer the user gave to its own question |
| `ToolServer_proofs!RunsAuthorized` | what ran as root was consented to, or listed where the mode trusts the list |
| `ToolServer_proofs!PendingAwaited` | every entry of the tables has a worker that waits or is about to |
| `ToolServer_proofs!GateImplemented` | every step is one of `PrivilegeGate` or leaves it alone |
| `AuthD_proofs!TypeCorrect` | the type invariant |
| `AuthD_proofs!VerdictsTrue` | `verify` says valid for exactly the tokens that are |
| `AuthD_proofs!BansHold` | no password is tried for a request that came in during a ban |
| `AgentRun_proofs!TypeCorrect` | the type invariant |
| `AgentRun_proofs!RequestsAccepted` | what is sent begins with the system message, and each call in it has its result |
| `AgentRun_proofs!ResultsMatched` | each result is sent as that of its own call |
| `AgentRun_proofs!TakenKept` | a result the agent has taken is in the history, however its run ended, unless two runs shared the conversation |
| `AgentRun_proofs!OneMoreCall` | after an interrupt one more call at most is dispatched |
| `AgentRun_proofs!OnlyGrows` | a run extends the conversation, and only a new chat empties it, unless two runs share it |
| `Processes_proofs!TypeCorrect` | the type invariant |
| `Processes_proofs!ClientsSucceed` | with a service manager a client gets a server, whenever it comes |
| `Processes_proofs!Reachable` | with a service manager a server that serves has the path |
| `Processes_proofs!CallsSpared` | no server stops for inactivity under a call whose request it had read before the timer looked |
| `Processes_proofs!FileRemoved` | only a process that was killed leaves its file |
| `Processes_proofs!GroupEnds` | when a call is over its leader is, unless it belongs to root or `communicate` has raised, and whoever of the group may be signalled was told |
| `Processes_proofs!ReadToTheLastWait` | a finished command was read up to where it was when `select` last timed out |
| `Processes_proofs!OutputTold` | frames and what is pending are the lines of what was read, in whatever pieces; the result keeps the first lines and the last |
| `Processes_proofs!CommandTypeCorrect` | the type invariant of `CommandOutput` |
| `ChatSession_proofs!TypeCorrect` | the type invariant |
| `ChatSession_proofs!PromptsRunOnce` | no prompt is given to the runtime twice |
| `ChatSession_proofs!AnswersAreAwaited` | a question on the screen is of the latest run, and its thread waits |
| `ChatSession_proofs!QuestionsAreShown` | a thread that waits is on the screen, unless a given-up tool call was involved |
| `ChatSession_proofs!BusyIsFreed` | the busy mark belongs to a run whose worker has not left |
| `ConfigStore_proofs!TypeCorrect` | the type invariant: each file holds what is its own, and no list is longer than saves were begun |
| `ConfigStore_proofs!FilesWhole` | a file is absent or one complete save, wherever sessions are killed, unless saves overlapped |
| `ConfigStore_proofs!AllRemembered` | the list holds every model chosen, once, the newest first, unless two choices overlapped |
| `ConfigStore_proofs!ModelIsOwn` | the model of a session changes at its own choice alone |
| `ConfigStore_proofs!OthersKept` | a save changes one setting and keeps what others have set, if it has loaded that and saves did not overlap |
| `ConfigWizard_proofs!TypeCorrect` | the type invariant: what can be gone back to are states that ask |
| `ConfigWizard_proofs!FinishUsable` | a wizard that ends well leaves a session whose provider has answered with its settings, or is an Ollama at a URL of its own |
| `ConfigWizard_proofs!KeepsComplete` | no step makes a usable session unusable |
| `ChatDisplay_proofs!TypeCorrect` | the type invariant: what is counted stays within its bounds |
| `ChatDisplay_proofs!FaithfulScreen` | rows, row counts and entries are those of what was written |
| `ChatDisplay_proofs!OwnTraces` | a closed trace is all the thinking of the one request that ended with it |
| `ChatDisplay_proofs!Silenced` | a thread that a cancelled run has left, or one beside which another was started, writes once more at most |
| `ChatDisplay_proofs!Stays` | what is written is neither moved nor rewritten, live thinking apart |

*ToolServer.* The properties are not inductive: that a worker takes only its own
answer depends on what is in the tables, the queues and on the wire. The
invariant `IInv` adds that ids of questions are unique and below `_approval_seq`
(`IdsUnique`), that whatever circulates in a queue, an inbox or a reply was
registered (`Circulating`), that a pending question has a worker at it and no
answer yet (`PendingIsAwaited`), that answers given are the user's
(`AnswersAreOwn`), what each worker knows at each place (`CallsInv`), and that
the whitelist holds nothing but what was listed or consented to
(`WhitelistConsented`). Each action has a lemma for the conjuncts it disturbs;
frame lemmas cover the ones it does not. The assumption is
`ToolServerAssumption`: requests are well formed, and the bounds are numbers.

*The refinement.* A step of `PrivilegeGate` that asks, answers or runs must be one the gate
allows, so `GateInv` says where a question is. It is in one place (`InOnePlace`: with its
worker, in the event queue, in the client's inbox or before the user), and as long as it is
on its way it has no answer and its call has run nothing (`Unsettled`). A question has one
answer (`AnsweredOnce`). A refused call stays at its question or ends (`RefusedStops`), and
nothing runs before its worker is in the shell (`NotYetRun`). `GateInv` is inductive together
with `IInv`; each action then either maps to one of the gate or leaves its four variables
alone. The variables of the gate are functions of what history keeps (`asked`, `replied`,
`ran`, `shown`), so that most actions change none of them.

*AuthD.* `IInv` is `TableInv` (what is in the tables was minted, is not revoked
and was dropped only after its end) and `ConnInv` for each connection (what a
thread that has read the clock may rely on at each place). The clock only moves
forward, which is in the model by construction and in the program an assumption
about `time.time()`. `AuthDAssumption` says that the times and limits are numbers, that
a token lives for some time and that a failure is needed before a ban.

*AgentRun.* `ProviderAccepts` is about the moment a request goes out, and rests on what is
kept between requests: `Conversations` says that the messages of `Runtime` and of the agent
are well paired at every moment, not only when sent, and that the agent's extend the
runtime's. That a reply appends its calls and all their results in one step (`Record`) is
what keeps it. `Calling` bounds the calls of the reply by those that were issued, so that a
new call is no old one. `Asked` says that what a tool thread has delivered was issued, and
that an empty conversation begins where numbering stands, which `ResultsAreKept` needs when
a new chat forgets. `Beside` is about the other run: it is on only where `beside` says so, and what it took
is well paired, so that it leaves a sound conversation. Everything that relates the agent's
conversation to the runtime's, or a result to the history, has the condition that no
second run had a part in it, and the pairing has not: each run keeps its own copy paired. `LateCall` places the one late call: it is counted while the agent is
at the call it was about to make, and from there it can only stop. The
lemmas about messages (`WellPaired` of an extended conversation) say which positions an
appended reply and its results take. `ResultsMeetTheirCalls` follows from the pairing alone
(`NormalizedMatches`), by induction over the messages: while the results of a reply come, what
waits under a name are the calls of that reply with the name which have no result yet, in
their order (`Matched`). So the next result finds its call first in its queue, and it makes no
difference whether the identifier is known.

*ServerLifecycle.* That `_cleanup_socket` may remove whatever file it finds rests
on there being one process only. `IInv` says so for a user with a service manager
(`Single`: a process that is alive is the service's), from which it follows that
a process finds the path as it left it (`Owns`), that a client which has restarted
the service has a process on its way that cannot have become idle (`Coming`,
`Restarting`), and that a call whose request was read keeps its server's `last_activity` recent, unless
the timer had come before (`Calling`; `Fresh` starts it). Without a service manager `Single` fails: two
clients may start two servers, and the second takes the path of the first.
`CallsSpared` and `FileRemoved` hold there too. `ServerLifecycleAssumption` says
that the bounds are numbers and the clients finitely many.

*CommandOutput.* The proofs stand in `Processes_proofs`. `Watched`
says that a stream taken off the watch is over (read to its end and held by no process, which
a fork cannot change), unless the thread is about to leave its loop; so what `select` gave up
waiting for had been read from every stream (`ReadThrough`). `Abandoned` is the way out of a Python program whose call has raised. `Telling` follows the group: the state of
its leader is noted when the signal is sent, and a process that may be signalled and was not
told is a child started since. Of the types these need `Reading` and `Grouped`; `Limited` is
the rest of them.

`OutputIsTold` needs an invariant of the text, `TextInv`, for each stream: the frames given out and
what is pending are the pieces (`Piece`) of one text, cut at some of its ends of line
(`Cuts`, `Framed`); this text differs from what was read only where a read tore
a character (`Torn`), so that its ends of line are the same; and no frame can be taken from what is
pending (`Quiet`). That every end of line outside what is pending has been
cut at follows. A read extends the torn text (`TornMore`) and what is framed (`FramedGrows`), and the loop frames the
whole text and leaves it quiet (`ScanFrames`, by induction over its rounds: each takes
something out or finds nothing to take); then the frames are the lines of the text
(`FramedTells`). A carriage return at the end of a read is why `Quiet` has an exception
and a cut at it must be firm: a line feed may follow. The result is a matter of lengths
(`TruncatedKeeps`, `ResultKeeps`), for which `CommandOutputAssumption` says that the limit is even
and at least two, as 200 is (`golim/toolset/vars.py:4`).

*ChatSession.* The four properties are conjuncts of `IInv`, which adds that workers and
questions are numbered as they come (`Numbered`), that a prompt which waits is in one
place, the slot or one worker, and has not been handed over (`Handing`, without which
`Pop` might hand over what a worker holds), and that a worker waits for one question at
a time, its own or that of its tool call (`Asking`). `Asking` is what makes the
exception in `WaitingIsShown` exact: when `Show` covers a question, both are of the
latest run (`ShownIsAwaited`), and two questions of one run are open only when a
given-up thread asked one of them. `MoveKeeps` proves once that a worker without an open
question may move on; the actions that do only that cite it.

*ConfigStore.* `Alone` says, of a file no two of whose saves overlapped, that one session
at most is saving it and that the temporary file is that session's, empty or whole
according to its step; `Replace` then puts a whole save in place and finds the file it
renames. `Current` relates the memory of a session that is up to date with the disk:
equal, or different in the one setting that is being saved. It is what `OthersKept` needs
and no property says. `Remembering` says that a session which saves the list has its choice
in front of the list on disk without it: a choice that does not overlap with another works on
the list it read. `ListingMore` then shows that such a list is that of the choices with the new one,
from what `Without` leaves (`Filtered`, by induction over the list). `Without` is a recursive function
and not `Remove` of the community modules, whose `SelectSeq` has no definition the proof system
knows. For the types, `Counted` counts: a choice that was listed and one that is being saved are two of the saves begun,
so that no list outgrows them (`Listed`). The assumption that `Default` is a value is used for what a session
loads when there is no file.

*ConfigWizard.* That a finished session is usable is decided many pages before, and going
back may undo it. `Tried` says that a model is only asked for, or can be gone back to, when its
provider has answered with the settings it has now. `Ordered` says that the history never
leads forward: pages of settings, models and common settings come in this order, so that going
back to a page of settings takes the models after it out of the history. `Usable` is
`FinishMeansUsable` before the end, `HasSettings` relates it to what is stored, and
`Prompted` ties an answer to the page that asked for it, without which an answer to one
page could be taken for another's. `Resting` is what holds between two wizards, where the menu
makes its own changes.

*ChatDisplay.* Every operation of `Transcript` on the record of the widget preserves
`Sound` (rows on screen are those of the log and the held line, at most one line is held, the log
names only entries there are) and `Lively` (the entry that `live` names is the only live one),
and `Moves`: the log is extended at its end, no earlier item changes, and a closed
thinking entry is either old or what was just written. The threads are then a matter of
`Waiting` (what the worker waits for exists), `Silent` (a
thread of a given-up run has passed its check once at most), `Unstarted` and `Owned` (a trace,
written or posted, is all the thinking of a request that is over). The four
properties need no more of the types than `Typed`; `Bounded` adds the bounds, of which only that of
the thinking is not plain: a request may go on thinking if all of them together have not reached
the limit, so the sum over a finite set must be shown to be no less than its terms (`Sums`).
`HeightIsCount` says that a renderable takes some number of rows at each width. It is a
hypothesis of the theorems and no `ASSUME`, since the views are infinitely many and TLC could
not evaluate it; the layout is the terminal library's, and any function to the numbers will do.
Rows are concatenated by `FlattenSeq`, which is a recursive function: its value on an
extended log is established by induction over its domain, with the well-founded order of the
naturals and a set in place of a predicate. For the worker of an older run `Typed` says what it still has to
show; being counted with nobody's late changes, it disturbs none of the four properties that
the operations of `Transcript` do not.

The theorems rest on what the modules assume of their surroundings as well as on
the constants. For `ServerLifecycle` these are `Settled` (a start or a stop is over
before `RETRY_ATTEMPTS` probes are) and the absence of `LongTime` while a client
is in `ensure_mcp_server`, and that nobody ends a server by SIGTERM meanwhile.

Only checked by TLC are the liveness properties, since fairness is stated with `ENABLED`. Every
other property of a passing run is stated by one of the theorems.

An induction over data can be proved where the definition is a recursive function (`FlattenSeq`,
`Normalized`, `Queued`, `Without`, the rounds of `Scan` and the sum over the requests above), not
where it is a `RECURSIVE` operator or needs a theorem of the library that takes an operator.

## 6. What is not modelled

* The text of commands, requests, results and messages: the tokeniser of `bash_utils.py`,
  the check for commands that are not allowed, JSON framing on the sockets (a request
  is taken to arrive whole, where the code reads once, `server.py:569`).
* The event loop of the server being busy for up to a minute in
  `auth/sudo_password`: it delays steps and does not change them.
* Exceptions of the interface between the outcome of a tool call and its record
  (`golim/core/agent.py:478-491`): `AgentRun` assumes that showing does not raise.
* In `AgentRun`, of two runs that overlap the tool calls and requests of one: it is there for
  what it does to the other. A third run beside them is left out.
* In `ServerLifecycle`, a call that finds no server: it is a result with an error
  and changes nothing. A call that connected before the timer looked and was read after is
  served while the process drains, or is cut off with it.
* In `ChatDisplay`: a model that does not stream its thinking, the status line, the
  prompts for approvals (they are in `ChatSession`) with the code blocks shown above them,
  several lines after one look at the run (`agent_events_handler.py:475-484`), so that
  `CancelSilences` is about streaming and tools; the sticky query above the transcript and
  scrolling; what the worker of an older run does in silence. That `normalize_messages_for_openai` writes identifiers and JSON text into
  the history it was given.
* In `ConfigWizard`: what the settings pages switch, searches and lists of models.
  In `ConfigStore`: several threads of one process on one `Config`.
* Sequential tools, skills, the line interface, the other widgets, entry points and
  build scripts: they keep no state that two parties share, except the terminal
  mode of `escape_monitor.py`.

## 7. Order of work and what is left

Modelled first were the parts where a mistake costs most: `PrivilegeGate`,
`ToolServer` and `AuthD`, then `AgentRun`, `ChatSession` and `ServerLifecycle`, then
`CommandOutput`, `ConfigStore`, `ConfigWizard` and `ChatDisplay` with the operators they use.

Proved in the order of what a mistake costs: consent and tokens (`ToolServer`, `AuthD`, the
refinement), processes and questions, then what the user is left with (conversation, settings,
screen).

Left, in this order: compositions, the tokens of `AuthD` in `ToolServer` and
questions of `ToolServer` through `ChatSession`; the line interface with its escape
monitor.
