# relaypi in TLA+

relaypi connects Telegram to PI, a coding agent. It takes messages from the
WebSocket of *telegramy*, decides whom it trusts, keeps one PI subprocess per
chat, prompts it over JSON lines on its pipes, and sends the answer back through
telegramy's MCP server. It is one asyncio process; nothing is persisted by the
relay itself (PI owns the session files).

The modules here model that program as its source does it, TLC checks them on
small instances, and TLAPS proves the central facts for every instance.

## Inventory

| Component | Source | State | Operations | Talks to |
|---|---|---|---|---|
| Stream transport | `subprocess_stream_transport.py` | the child process and its pipes | start, write, read, close (EOF, bounded wait, kill) | PI process |
| RPC protocol | `pi_rpc_protocol.py` | `_alive`, reader task, `_next_id`, `_pending`, `_event_queue` | reader loop, dispatch, send_command, begin_turn/end_turn, stop | transport, client |
| RPC client | `pi_rpc_client.py` | where the current call is suspended | prompt_and_collect, abort, stop | protocol, relay, router |
| AgentClient port | `agent_client.py` | – | what a client promises | – |
| Session router | `session_router_impl.py`, `startup/factory.py` | `_clients` | get_or_create, stop_all | clients, relay |
| Relay | `relay.py`, `main.py` | `_chat_locks`, `_tasks` | run, one `_handle` task per message, stop | everything |
| MCP sender | `telegramy_mcp_sender.py` | `_session_id` | send_message with a handshake on demand | MCP server |
| Admission | `parse.py`, `allowlist_config.py` | the loaded allowlist | parse_inbound, allows, load_allowlist | relay |
| WebSocket source | `websocket_message_source.py` | the connection, the frames on their way | connect, subscribe, iterate, the ends of the iteration | telegramy, relay |
| Formatting | `format_prompt.py`, `presenter.py` | – | pure text | relay |
| Telegramy extension | `hal/.pi/extensions/telegramy.ts` | pending map, timers, session id | start, request, callTool | MCP server, PI |
| Process life | `start.bat`, `preflight.py`, `config.py`, `create_relay()`, `main.py` | the loaded allowlist, the exit code | preflight, create the relay, run, stop, exit | telegramy, supervisor, relay |

What is hard here, and what makes each part correct:

* **RPC protocol and client.** A reader task and a caller share `_pending`, the
  event queue and the `_alive` flag across awaits; responses and events are
  separate streams; timeouts race late answers; PI crashes, hangs, opens dialogs
  and prints lines that are not of the protocol; the queue has a limit. Correct
  means: a reply belongs to its prompt, no caller waits for an answer nobody will
  read, no turn's end is lost, what one turn leaves behind never reaches the next,
  and a torn-down client has no process.
* **Router and relay.** One task per message, a lock per chat, clients that die at
  any time, a shutdown that may start at any time. Correct means: one turn per
  chat, replies in order, one owner per session file, no chat blocked by
  another, and a shutdown that leaves nothing behind. (A reader that crashes leaves an
  orphan; the properties say how far its harm goes.)
* **MCP sender.** Several tasks handshake at once, an exchange can fail before or
  after the server acted, the server can restart. Correct means: the committed
  session is one the server serves, what a send reports fits what became of its
  message, and later messages get through.
* **Admission.** A pure decision over configuration and input shapes. Correct
  means: exactly the trusted messages become tasks.
* **Process life.** telegramy and the allowlist file may change between preflight,
  the start and the end of the connection; a connection ends in several ways, each
  with its own exit code, on which a supervisor acts; a turn may still be under way.
  Correct means: what preflight found holds for the start, the end of a connection
  loses no message that had arrived, and the relay serves again.

`PROJECT.json` lists the hazards of the code line by line, with the properties
that would catch each going wrong.

## Modules

| Module | Models | Kind |
|---|---|---|
| `PiProcess` | transport, and PI as far as the adapters rely on it | component (PI is external) |
| `PiRpcProtocol` | the reader task and what the client calls | component, on `PiProcess` |
| `PiRpcClient` | a client with its turns | composition, the specification of the client |
| `AgentClient` | the port | abstract specification of `PiRpcClient` |
| `PiRpcClientProofs`, `PiRpcClientTurnProofs` | | proofs |
| `PerChatSessionRouter` | router and factory | component |
| `Relay` | run, handlers, stop, `main()` | composition over the router |
| `PerChatService` | what the relay promises per chat | abstract specification of `Relay` |
| `RelayProofs`, `RelayOrderProofs` | | proofs |
| `MCRelay` | symmetry of chats | for TLC |
| `TelegramyMcpSender` | the sender and the MCP server (external) | component |
| `TelegramyMcpSenderProofs` | | proofs |
| `WebSocketSource` | the connection, its frames and its ends (telegramy is external) | component |
| `Deployment` | preflight, start, run, stop, exit code, restart | composition over `WebSocketSource` |
| `DeploymentProofs` | | proofs |
| `McpExtension` | PI's own MCP client and its `session_start` handler | component |
| `McpExtensionProofs` | | proofs |
| `Admission`, `MCAdmission` | parsing and allowlist; ids for TLC | component |
| `AdmissionProofs` | | proofs |

The composition is made in layers, joined at the port and at `stop()`. `PiRpcClient`
implements `AgentClient`; `Relay` uses a client only as the port describes it (a
turn returns a text or fails, `is_alive()`, `stop()`), plus the two facts of a
client that the port does not describe and the router depends on: whether its
process runs and whether its reader is alive. The two may part at any time
(`ReaderCrashes`), as `PiRpcProtocol` shows (`ReadNonObject`, `ReadEvent` on a full
queue, `ReadDialog` whose write fails). `Deployment` in turn sees a turn
as one unit of work that `stop()` waits for and that may hang (`PiRpcClient` shows
how it can), and an event as what `Admission` makes of it.

### How steps correspond to the code

asyncio switches tasks only at an await that suspends. A step of a model is the
code from one such await to the next, with every call in between: `Prompt` arms
the queue, checks `_alive`, takes an id, registers the future and writes.

* `PiProcess`: `stdin` and `stdout` are sequences of lines. `StdoutCap` is the
  capacity of the pipe, and PI blocks on it. The text of turn *t* is the number
  *t*; 0 is the empty text. PI answers commands in order, rejects a prompt while it
  streams, emits one `agent_end` per turn, and waits for the answer of a dialog.
  It may exit at any point; what it printed can still be read.
* `PiRpcProtocol`: one step of the reader is one line. `pending` is the set of
  keys of `_pending`; only the newest future is kept (`fut`), because the client
  awaits one at a time and abandons the others. `ReaderEnds` is the `finally` of
  `_read_loop`, reached from end of file, cancellation and each exception.
* `PiRpcClient`: `pc` is the await at which the call is suspended; the *i*-th call
  is turn *i* and leaves `outcome[i]`.
* `PerChatSessionRouter`: `clients[c]` is the index in `spawned` of the client the
  table holds for chat *c*; a client that was replaced stays in `spawned`, and its
  process may go on running: an orphan, if its reader has crashed.
* `Relay`: `tasks` are the handler tasks in the order of their creation, `locks[c]`
  the tasks at the lock of *c*, the holder first. `main` follows `main()` through
  run, gather, stop_all and close; `cut` says what cut `stop()` short, if anything did:
  `Impatient` is an interrupt during `stop()`, `StopRaises` a `client.stop()` that
  raises (`kill()` on a process that has just exited), after which the other clients
  are not stopped and the sender stays open. `sent[c]` is what chat *c* has got; a send
  that returns and one that fails may each have delivered or not.
* `TelegramyMcpSender`: an exchange is posted, handled by the server and answered;
  `ExchangeFails` may strike before or after the handling. The server is external; an
  initialize that it accepts names a session. `_call()` takes every 2xx without an
  `error` member for a success: the answer is *ok* if it is the result of the tool, and
  *hollow* if it is a result with `isError`, a body without a data line (`_parse()` gives
  `{}`) or another event in the first data line. A send that returns on a hollow answer
  may have delivered its message or not; `last` remembers which answer it was.
* `McpExtension`: JavaScript, one callback per step. An entry of `pending`, its timer and
  its abort listener are made together, and `cleanup()` removes them together: `kept`. A
  failed request is rejected by the raw `reject` of its promise, without `cleanup()`, so
  its entry outlives it until the timer fires (`GivesUp`). PI awaits a handler of
  `session_start` before it starts the next session. `start()` does not look at the
  status of the notification: `Notified` connects on a refusal too. `sendHttp()` makes
  the result `{}` of a 2xx without a data line (`telegramy.ts:275-279`), whatever the
  server did: such an answer is *hollow* here as well, and its promise resolves all the same.
* `WebSocketSource`: a frame is what becomes of it: a message that the allowlist file
  trusts, another event, one on which the admission raises, or no JSON. The iteration
  reads what has arrived before it ends (`Exhausted`).
* `Deployment`: `launcher` is what the supervisor or the user starts: `start.bat`, which
  runs preflight first and stays in a `pause` when preflight or the relay has failed
  (`paused`, until `KeyPressed`), or the relay itself (`docs/usage.md:6`), which does
  neither. `main` is where the process is, `why` what ended `run()` or the process
  the last time, from which `ExitCode` follows. `ready` remembers that preflight
  passed and that nothing it looked at has changed since, `lost` that a trusted message
  was left unread or its turn cut off. A readable file is needed to trust anything: with
  an unreadable one the relay serves nobody, and drops every message as not trusted. An interrupt is modelled
  while `run()` and `stop()` are under way, SIGTERM at any time. The supervisor,
  which restarts the process after the codes of `RestartOn`, is not in the repository;
  `websocket_message_source.py:11-14` relies on one.
* `Admission`: one step per round of the loader's loop (`LoadsEntry`, `RefusesEntry`),
  then one judgement per event. An event is the record of what the code distinguishes
  about a frame. `malformed` stands for every way but an unknown mode for the loader to
  raise on an entry or around it.
* `PerChatService`: the backlog of a chat is the set of its accepted messages that are
  not finished, and only the oldest of them is worked on; in `Relay` these are the
  unfinished tasks of the chat, and the holder of its lock works.

Definitions marked *Mutant* are plausible bugs, defined beside the definition they
would replace. They are not part of any specification: each property of a passing
run fails when one of them is put in, which shows that the property depends on
that code.

## Runs

| Run | Bounds | Question | Result |
|---|---|---|---|
| `client` | 3 turns, 1 stray line, pipe 3, queue 2 | do turns stay apart, does nobody wait on a dead stream, is every awaited response on its way, does every call come back, is the port implemented? | holds |
| `silent_pi` | 1 turn | … if PI runs but does not answer? | **violated** |
| `full_queue` | 1 turn, queue 2 | does a full queue make the reader wait? | **violated** |
| `relay` | 2 chats, 3 messages, one chat may hang, 1 orphan at a time | one turn per chat, order, ownership, no client or lock left behind, clean exit; is everything else finished, and does the shutdown end? | holds |
| `relay_reader_crash` | 2 messages | one owner per session, if a reader ends by itself? | **violated** |
| `mcp_sender` | 2 callers, 2 faults, 1 restart | concurrent handshakes, broken exchanges, hollow answers: does a send report what became of its message, does the sender recover? | holds |
| `mcp_sender_restart` | 1 caller, 1 restart | does the sender recover from a server restart? | **violated** |
| `admission` | 2 users, 2 group ids, 2 entries | is a task created exactly for trusted messages? | holds |
| `admission_fail_closed` | 1 entry | is everything else dropped? | **violated** |
| `deployment` | 3 frames on the wire, 2 turns, restart on exit code 1 | is preflight right, does exit code 0 mean that no message was lost, does the relay serve again? | holds |
| `deployment_stop_signal` | 2 frames, 2 turns | does the stop signal wait for turns? | **violated** |
| `mcp_extension` | 2 requests at once, 2 faults, 1 restart | is every caller told, once and, as far as answers are not hollow, rightly, and do sessions get their tools? | holds |

Why the bounds are enough. Client: a hazard between turns needs a turn that leaves
something behind (a timeout, an abort, an abandoned future), the turn it could
disturb, and one more to see that the state is clean again: three. The number of
events of a turn is not bounded: PI streams as long as it likes, and the pipe of 3 and
the queue of 2 bound what is on its way, so the queue is overrun and the pipe fills
until PI blocks. Relay: two messages of one chat queue at its lock while the third
belongs to the other chat, or all three queue; the client can die and be replaced
between each two of them. One orphan at a time (`MaxOrphans`) is replaced while it runs,
or stopped by `stop_all()` because it was not, and after its exit there may be another;
with two the run takes four minutes and still holds. Events that are dropped change no state of the relay.
Deployment: three frames hold two trusted messages and a frame that ends `run()`, or
one that is dropped, in any order; two turns are one that hangs and one that ends;
the number of starts, connections and edits is not bounded.
Sender: every handshake opens at
most one session, and two callers with two faults and one restart open at most six
(`MaxSessions = 6`, so the server never runs out of them). Admission: two entries
are what order and duplication need; one of the two configurable ids is a user's id
by mistake.
Extension: one call races the handler's list
request, which two slots hold (a call leaves one for the handler); two faults break two
handshakes in a row, or one handshake and one request, and three sessions are all that
handshakes can then open. A timer that fires although the answer is on its way counts
as a fault, for otherwise a network that is always too slow would starve everything.

Deadlock is not checked where the system stops by itself: the number of turns or
messages is bounded, a stopped client and an exited relay stay so, and nobody
restarts a relay that exits with 0. The sender and
the extension never stop, and their runs check deadlock.

### Fairness

* `PiRpcClient!CodeFairness`: asyncio runs every task that is ready, timers fire,
  and the reader reads what is in the pipe. `FairSpec` adds that PI reads and
  answers its commands (`PiAnswers`), which the code does not guarantee: `silent_pi`
  is the run without it. Nothing is assumed about turns: PI may never end one, which
  is what `TURN_TIMEOUT` is for; nor about PI's exit. `EveryCallEnds` excuses
  by name (`Chatters`) the PI that emits events for ever without ending the turn: the
  timeout is per event (`pi_rpc_client.py:71`), and nothing else ends such a turn.
* `Relay!Fairness`: tasks that can run do run. A handler's step in the factory or the
  sender ends (spawn, HTTP client with a timeout). A turn ends except in the chats
  of `HungChats`.
* `Deployment!Spec`: the process takes its next step, which includes that the supervisor
  starts it again after exit code 1, and a turn that does not hang ends. Nothing is
  assumed about telegramy, the network, the user, signals, or that somebody presses the
  key `start.bat` waits for.
* `TelegramyMcpSender!FairSpec`: callers keep sending, and the server answers what
  reaches it. Faults, hollow answers among them, need not happen.
* `McpExtension!FairSpec`: the same for the server; sessions keep starting, callbacks run,
  and the timer of a request whose answer does not come fires (Node does all three).

### Disagreements the runs show

1. `relay_reader_crash`: `get_or_create()` looks at `is_alive()` only, which is false
   as soon as the reader has ended. A JSON line that is no object, a full queue, or a
   failed write ends the reader while PI runs. The router then starts a second
   process on the same session file, and the first is never stopped, not by
   `stop_all()` either. `docs/architecture.md:38` asks for one owner per file; the
   port's docstring says of `is_alive()` "True if the underlying subprocess is still
   running".
2. `full_queue`: the comment on `MAX_QUEUED_EVENTS` promises back-pressure; the code
   uses `put_nowait()`, and the exception ends the reader.
3. `silent_pi`: the turn timeout does not cover the response to the prompt or to
   `get_last_assistant_text`, so `docs/usage.md:34` is too optimistic, and `stop()`
   waits for such a turn without bound.
4. `mcp_sender_restart`: the committed MCP session is never given up, so a restart of
   telegramy's server needs a restart of the relay.
5. `admission_fail_closed`: a `chat_id` that is no number, and a frame that is JSON
   but no object, raise out of `Relay.run()` instead of being dropped.
6. `deployment_stop_signal`: `main()` handles `KeyboardInterrupt` alone, so SIGTERM ends
   the relay at once. `docs/usage.md:14-16` promises that a supervisor's stop signal
   waits for the turns under way and stops the PI processes. These see the end of their
   stdin only, so one that is busy may still write its session file when the restarted
   relay opens it.

More observations have no run of their own. First, with `AbortFlushes = FALSE` (PI
acknowledges an abort before it has emitted the aborted turn's `agent_end`)
`ReplyMatchesPrompt` fails: the late `agent_end` ends the next turn, because events
carry no turn. `AbortFlushes = TRUE` is therefore an assumption on PI that the
client's safety rests on. Second, an interrupt during `stop()` cancels the turns under
way and skips the rest of `stop()`, which `docs/usage.md:14-16` does not mention;
`CleanExit` excuses it by name. Third, `telegramy_mcp_sender.py:3-6` says that it mirrors
`telegramy.ts`, but the two differ on a refused notification: the sender raises and
leaves the session uncommitted, the extension connects with it and asks that session for
its tools at every start from then on, in vain (`Lost` in `ListsUnlessLost`, with the
restart of the server as its other way). Neither looks at what a 2xx holds beyond an
`error` member: a tool that failed (`isError`), or an answer that is no result, makes
`send_message()` return and `callTool()` resolve, and such a reply may be lost without a
word. `OutcomeFits` and `SuccessFits` therefore say what a success is worth, and not that
it means delivery. Fourth, what keeps the relay from serving
again: a clean close of the WebSocket exits with 0, which a supervisor that restarts
failures takes for success, although `websocket_message_source.py:11-14` counts on it;
`stop()` waits for a hung turn while the relay is connected to nothing; and `start.bat`
(lines 21 and 37) waits for a key after every failure, so a supervisor that starts the
relay by it has nothing to restart until somebody comes.
`ServesAgain` excuses each by name, and the signal that kills the relay. A connection that breaks raises
`ConnectionClosedError`, which is not among `_CONNECTION_ERRORS`: the exit code is 1, by
a traceback. Fifth, preflight probes the fixed URL `ws://localhost:8765` whatever
`RELAYPI_WS_URL` says: with `DefaultUrl = FALSE` `PreflightMeansReady` fails. Its
docstring also names the PI binary and the MCP server, neither of which it checks
(`preflight.py:3`). Sixth, `stop()` that raises after Ctrl+C turns the exit code 0 into
1, after which a supervisor starts the relay that the user has just stopped.

## Proofs

`PiRpcClientProofs`, for all values of the constants allowed by
`PiProcessAssumption` and `MaxQueuedAssumption`:

* `TypeCorrect`: `TypeOK` is inductive. One lemma per group of actions (reader, PI,
  begin of a call, the rest of the client), on lemmas about what commands, lines
  and outcomes are made of, and about sequences.
* `DeadStreamHasNoWaiter`: `NoWaiterOnDeadStream` is inductive by itself. Every way
  for the reader to end goes through `ReaderEnds`, which establishes it; a command is
  sent only when `_alive`, which the invariant says a dead reader excludes.
* `CloseLeavesNoOrphan`: `NoOrphanAfterClose` is inductive: `Reaped` waits for the
  exit, no action starts the process again, none sets `_alive`.

`PiRpcClientTurnProofs`, on top of these types. But for the last two theorems it assumes
`AbortFlushes`: a PI that acknowledges an abort before its turn has ended could end the
next turn with the `agent_end` of the last one.

* `RepliesMatchPrompts` (`ReplyMatchesPrompt`), `EndsAreNotMissed` (`EndNeverMissed`) and
  `QuietBetween` (`QuietBetweenTurns`) rest on one invariant, since none of them is
  inductive: a reply matches because its turn began on a quiet client, and a client is
  quiet because the last call saw the end of its turn. `Control` says where the client
  stands and what is still open. `TurnInv`, which holds while the reader runs, says what
  is in the pipes: one command at most, or its response, and it is the awaited one
  (`Flight`); after an `agent_end` nothing of the turn follows and its text is the
  latest (`EndPhase`); a rejected prompt, an acknowledged abort and an asked text leave
  nothing behind (`PromptPhase`, `AbortPhase`, `TextPhase`). Once the reader has ended,
  only a response that has already arrived can still become a reply (`Answer`).
* `ClientImplementsPort`: `ImplementsAgentClient`, step by step from the same invariant;
  that a text returns only on an open client is in `Control`, that it is its own in
  `Answer`.
* `DialogsAreAnswered`: `DialogBeingAnswered`, with the addition that only a turn opens
  dialogs; whatever PI makes of an abort.
* `AnswersAreUnderWay`: `AnswerUnderWay`, the safety that `EveryCallEnds` rests on, again
  whatever PI makes of an abort: the response a call waits for is on its way exactly
  once, or its command is. What makes it inductive (`AnswerInv`) is that an id which was
  not given out yet is nowhere: not in a pipe, not in `pending`; so a new command is
  never mistaken for one that was given up.

`RelayProofs`, for all chats and numbers of messages:

* `RelayTypeCorrect`: the types of the relay, its tasks and locks.
* `TurnsOfAChatAreSerial`: `OneTurnPerChat`. By itself it is not inductive, it says
  nothing of the lock. `LockInv` adds what the lock means: a task past its lock is at
  the head of the lock's queue, and a task that waits is in the queue (so the queue
  that a release leaves is not empty while someone waits).
* `LiveClientsAreReachable`: `LiveIsReachable`, whether readers crash or not. The
  strengthening `LiveInv` says that a task which is starting a client found none alive;
  that no other task can have started one meanwhile is `OneTurnPerChat`.
* `OnlyOrphansShareASession`: `OnlyOrphansShare`, whatever crashes. `OwnerInv` adds to
  `LiveInv` that the table holds, under each chat, the newest client of that chat until
  `stop_all()` forgets them all (`HoldsNewest`, `HoldsOwn`), and that no replaced client
  is alive: none was when it was replaced. `OneOwnerPerSession` itself is false, as the
  run `relay_reader_crash` shows; this is what remains of it.
* `RelayExitsClean`: `CleanExit`. The strengthening `ExitInv` says how far `main` can be:
  past gather every task is finished and stays so, because no task starts one, and past
  `stop_all()` only replaced clients can have a process. A client that lost its reader and
  was not replaced is in the table (`HoldsNewest`), so `stop_all()` has stopped it.

`RelayOrderProofs`, on top of the lock's invariant:

* `RepliesKeepOrder`: `RepliesInOrder`. Tasks begin in the order of their creation
  (`TaskOrder`), so the queue of a lock is sorted (`QueueOrder`) and its holder is the
  first unfinished task of its chat. `SentOrder` then says that whatever an unfinished
  task may still say follows what its chat was told; only a task that handles an error
  can add to a message that has a text. If a lock were not fair, or a task could begin
  before an older one, `QueueOrder` would break.
* `RelayImplementsService`: `ImplementsPerChatService`, step by step from the same
  invariant: a task that begins to work or ends is past its lock or holds it, so it is
  the first unfinished one of its chat; an interrupt of `stop()` is `GiveUp`.
* `LocksArePassedOn`: `NoLockLeftBehind`, the safety that `EveryMessageFinishes` rests on.

`DeploymentProofs`, for every size of the wire, bound on turns and supervisor:

* `DeploymentTypeCorrect`: the types; they include that a process never holds an
  invalid allowlist.
* `PreflightIsTrue`: `PreflightMeansReady`, if the probed URL is telegramy's. The
  invariant says what `ready` is worth: telegramy is up, the file is not invalid and the
  connection, if there is one, is open.
* `SuccessIsComplete`: `SuccessMeansServed`. `LostInv` says when the history variable
  `lost` can be set: not before `run()`, during it only when the connection has broken,
  and after it not when the cause is a clean close, because that comes last on the wire
  and `stop()` waits for every turn.

`TelegramyMcpSenderProofs`, for every number of callers, sessions, faults and restarts:

* `SenderTypeCorrect`, `CommitsInitialized` (`CommittedIsInitialized`) and `OutcomesFit`
  (`OutcomeFits`). `CallerInv` says per caller what the properties leave open: a
  session that a handshake carries is opened, and initialized once the notification is
  answered, whoever commits first; a message counts as delivered only between the answer
  to its call and the next send.

`McpExtensionProofs`, for every number of slots, sessions, faults and restarts:

* `ExtensionTypeCorrect`, `WaitersAreKept` (`WaiterIsKept`), `SuccessesFit`
  (`SuccessFits`), from an invariant per request: a caller that waits has an entry, a
  result, in the answer or in the promise, was served, and any success, a hollow one
  included, was the server's answer within an initialized session.
* `ConnectedHasShakenHands` (`ConnectedHasNotified`), from where the handshake stands.

`AdmissionProofs`, for files with any number of entries and every set of users and groups:

* `AdmissionTypeCorrect`: the types; they include that no entry with an unknown mode is
  ever loaded.
* `TasksAreTrusted` (`TaskIffTrusted`): `LoadInv` says what the dictionary is worth after
  each round of the loop: it has the groups of the entries read so far, each with the last
  of its entries among these. When the loader has read the file, this is what the gate
  rules say of the file, and `JudgesByFile` compares the verdicts case by case.
* `TyposNeverServe` (`TypoNeverServes`): every mode read was known, and the relay serves
  only when all have been read.

Every invariant and every action property the passing runs check is thus a theorem, and
so are both refinements. Only model-checked are the liveness properties,
which with the fairness they need are out of the prover's reach: `EveryCallEnds`,
`EveryMessageFinishes`, `ShutdownEnds`, `RecoversUnlessForgotten`, `EntriesGo`,
`ListsUnlessLost`, `ServesAgain`. Two hypotheses go beyond the assumptions on the constants, and an observation above shows
that each is needed: `AbortFlushes` (the turns of a client and its port) and `DefaultUrl`
(preflight).

## Not modelled

Byte framing and JSON (a line is a record), the wording of prompts and replies, YAML,
the readers of the environment and of `.env`, argv of PI, the schema conversion of the
extension, SSE parsing (an answer is the result or it is not), logging. A `drain()` that suspends on a full stdin pipe (commands are
few and short). Cancellation inside a turn (`Impatient` treats the cancelled tasks as done at
once). An interrupt during preflight or `create_relay()`, which ends a process that has
nothing under way. PI processes that outlive a terminated relay. `stop()` before `run()`
and a second `run()`, which `main()` never does; the `_stopping` flag has no effect there,
since `stop()` is called after `run()` has ended.

## Plan

1. (done) client: `PiProcess`, `PiRpcProtocol`, `PiRpcClient`, `AgentClient`.
2. (done) relay: `PerChatSessionRouter`, `Relay`, `PerChatService`.
3. (done) `TelegramyMcpSender`, `Admission`.
4. (done) `McpExtension`.
5. (done) `WebSocketSource`, `Deployment`; the client without a bound on events; a
   `stop()` that raises.
6. `Framing`: the chunk and buffer loop of `_read_loop` as a function on short byte
   sequences, checked against splitting at line feeds.
7. (done) every safety property of a passing run as a theorem, and both refinements:
   the client implements its port, the relay its service.
