----------------------------- MODULE PiRpcClient -----------------------------
(***************************************************************************)
(* PIRpcClient (relaypi/infrastructure/adapters/pi_rpc_client.py): one PI  *)
(* conversation over PiRpcProtocol.  prompt_and_collect() sends the        *)
(* prompt, waits for its response, waits for events up to agent_end with a *)
(* timeout per event, and asks for the last assistant text.  A timeout     *)
(* aborts the turn; an abort that is not acknowledged in time closes the   *)
(* transport.                                                              *)
(*                                                                         *)
(* A step runs from one await that suspends to the next.  The port makes   *)
(* the caller serialize the calls, so one program counter is enough; the   *)
(* i-th call is turn i and leaves the i-th outcome.                        *)
(***************************************************************************)
EXTENDS PiRpcProtocol

VARIABLES
    pc,       \* where the client is suspended, see PC
    turn,     \* calls of prompt_and_collect so far
    outcome   \* how each finished call ended

clientVars == <<pc, turn, outcome>>
vars == <<processVars, protocolVars, clientVars>>

PC == {"idle",          \* no call is running
       "prompt",        \* awaits the response to the prompt
       "event",         \* wait_for_event
       "abort",         \* timed out; the abort is about to be sent
       "abort_ack",     \* awaits the response to the abort
       "abort_close",   \* abort() escalated to stop(), in close()
       "text",          \* awaits the response to get_last_assistant_text
       "stop_close",    \* stop() from the router, in close()
       "stopped"}

\* The port this adapter implements; it also names the outcomes of a call.
Port == INSTANCE AgentClient WITH calls <- turn, open <- (pipe = "open")

\* The one type invariant: every variable of the client, of the protocol and
\* of the process holds a value of the kind the code keeps in it.
TypeOK ==
    /\ ProcessTypeOK
    /\ ProtocolTypeOK
    /\ pc \in PC
    /\ turn \in Turn
    /\ outcome \in Seq(Port!Outcome)

Init ==
    /\ ProcessInit
    /\ ProtocolInit
    /\ pc = "idle"
    /\ turn = 0
    /\ outcome = <<>>

-----------------------------------------------------------------------------
\* The call leaves prompt_and_collect(), end_turn() behind it.
Ends(result) ==
    /\ pc' = "idle"
    /\ outcome' = Append(outcome, result)
    /\ EndTurn

\* prompt_and_collect() up to its first suspension: the queue is armed before
\* the prompt is written.
Prompt ==
    /\ pc = "idle"
    /\ turn < MaxTurns
    /\ turn' = turn + 1
    /\ \/ SendsCommand("prompt", turn + 1) /\ BeginTurn /\ pc' = "prompt" /\ UNCHANGED outcome
       \/ SendRaises /\ Ends(Port!OtherError)
       \/ SendRefused /\ Ends(Port!AgentError)
    /\ UNCHANGED <<procVars, stdout, piVars, alive, reader>>

\* Mutant: the queue is armed after the response, where begin_turn() was first.
ArmsAfterAnswer ==
    /\ pc = "prompt"
    /\ \/ /\ fut.st = "done" /\ fut.ok
          /\ pc' = "event"
          /\ BeginTurn
          /\ UNCHANGED outcome
       \/ /\ (fut.st = "done" /\ ~fut.ok) \/ fut.st = "failed"
          /\ Ends(Port!AgentError)
    /\ UNCHANGED <<processVars, alive, reader, nextId, pending, fut, turn>>

\* The response to the prompt, or the failure of its future.
PromptAnswered ==
    /\ pc = "prompt"
    /\ \/ /\ fut.st = "done" /\ fut.ok
          /\ pc' = "event"
          /\ UNCHANGED <<outcome, armed, queue>>
       \/ /\ (fut.st = "done" /\ ~fut.ok) \/ fut.st = "failed"
          /\ Ends(Port!AgentError)
    /\ UNCHANGED <<processVars, alive, reader, nextId, pending, fut, turn>>

\* Mutant: the first event of any kind ends the turn.
TakesAnyEvent ==
    /\ pc = "event"
    /\ queue # <<>>
    /\ SendsCommand("get_text", turn) /\ EndTurn /\ pc' = "text" /\ UNCHANGED outcome
    /\ UNCHANGED <<procVars, stdout, piVars, alive, reader, turn>>

\* wait_for_event() returns; agent_end ends the turn and the text is asked for.
TakesEvent ==
    /\ pc = "event"
    /\ queue # <<>>
    /\ IF Head(queue).kind = "agent_end"
         THEN \/ SendsCommand("get_text", turn) /\ EndTurn /\ pc' = "text" /\ UNCHANGED outcome
              \/ SendRaises /\ Ends(Port!OtherError)
              \/ SendRefused /\ Ends(Port!AgentError)
         ELSE /\ queue' = Tail(queue)
              /\ UNCHANGED <<stdin, nextId, pending, fut, armed, pc, outcome>>
    /\ UNCHANGED <<procVars, stdout, piVars, alive, reader, turn>>

\* No event within turn_timeout.
TurnTimesOut ==
    /\ pc = "event"
    /\ queue = <<>>
    /\ pc' = "abort"
    /\ UNCHANGED <<processVars, protocolVars, turn, outcome>>

\* abort(): wait_for() runs send_command() in a task of its own.  On any
\* failure of it the client is stopped.
SendsAbort ==
    /\ pc = "abort"
    /\ \/ /\ SendsCommand("abort", turn)
          /\ pc' = "abort_ack"
          /\ UNCHANGED <<pipe, reader>>
       \/ /\ SendRaises \/ SendRefused
          /\ BeginsStop
          /\ pc' = "abort_close"
    /\ UNCHANGED <<proc, stdout, piVars, alive, armed, queue, turn, outcome>>

\* Any response acknowledges the abort: the process stays warm.
AbortAcknowledged ==
    /\ pc = "abort_ack"
    /\ fut.st = "done"
    /\ Ends(Port!AgentError)
    /\ UNCHANGED <<processVars, alive, reader, nextId, pending, fut, turn>>

\* Mutant: an abort that is not acknowledged is given up, the client kept.
AbortGivesUp ==
    /\ pc = "abort_ack"
    /\ fut.st \in {"waiting", "failed"}
    /\ fut' = IF fut.st = "waiting" THEN FutureIn("cancelled") ELSE fut
    /\ Ends(Port!AgentError)
    /\ UNCHANGED <<processVars, alive, reader, nextId, pending, turn>>

\* The future failed, or abort_timeout has passed (wait_for cancels it): stop().
AbortEscalates ==
    /\ pc = "abort_ack"
    /\ fut.st \in {"waiting", "failed"}
    /\ fut' = IF fut.st = "waiting" THEN FutureIn("cancelled") ELSE fut
    /\ BeginsStop
    /\ pc' = "abort_close"
    /\ UNCHANGED <<proc, stdin, stdout, piVars, alive, nextId, pending, armed, queue, turn, outcome>>

\* The response to get_last_assistant_text; its success is not looked at.
TextAnswered ==
    /\ pc = "text"
    /\ \/ fut.st = "done" /\ Ends(Port!Text(fut.turn))
       \/ fut.st = "failed" /\ Ends(Port!AgentError)
    /\ UNCHANGED <<processVars, alive, reader, nextId, pending, fut, turn>>

\* stop() by the router; it happens between turns.
Stop ==
    /\ pc = "idle"
    /\ BeginsStop
    /\ pc' = "stop_close"
    /\ UNCHANGED <<proc, stdin, stdout, piVars, alive, nextId, pending, fut, armed, queue, turn, outcome>>

\* close(): shutdown_timeout has passed and the process is killed.
Kills ==
    /\ KillAfterTimeout
    /\ UNCHANGED <<protocolVars, clientVars>>

\* close() returns: the call that was aborted ends, or stop() returns.
StopReturns ==
    /\ EndsStop
    /\ \/ pc = "abort_close" /\ Ends(Port!AgentError)
       \/ pc = "stop_close" /\ pc' = "stopped" /\ UNCHANGED <<outcome, armed, queue>>
    /\ UNCHANGED <<nextId, pending, fut, turn>>

\* close() raises, and so does abort() or stop().
StopRaises ==
    /\ KillFindsNone(alive)
    /\ \/ pc = "abort_close" /\ Ends(Port!OtherError)
       \/ pc = "stop_close" /\ pc' = "stopped" /\ UNCHANGED <<outcome, armed, queue>>
    /\ UNCHANGED <<alive, reader, nextId, pending, fut, turn>>

-----------------------------------------------------------------------------
Timers == TurnTimesOut \/ AbortEscalates \/ Kills

ClientStep ==
    \/ PromptAnswered \/ TakesEvent \/ SendsAbort \/ AbortAcknowledged
    \/ TextAnswered \/ StopReturns \/ StopRaises

ReaderStep == ReaderNext /\ UNCHANGED clientVars

PiAnswers == PiTakesCommand /\ UNCHANGED <<protocolVars, clientVars>>
PiActs ==
    /\ PiEmits \/ PiEndsTurn \/ PiPrintsStray \/ PiExits
    /\ UNCHANGED <<protocolVars, clientVars>>

Next == Prompt \/ Stop \/ ClientStep \/ Timers \/ ReaderStep \/ PiAnswers \/ PiActs

Spec == Init /\ [][Next]_vars

\* asyncio runs every task that can run, timers fire, the reader reads.
CodeFairness ==
    /\ WF_vars(ClientStep)
    /\ WF_vars(Timers)
    /\ WF_vars(ReaderStep)

CodeSpec == Spec /\ CodeFairness

\* PI reads its commands; nothing says that a turn of it ever ends.
FairSpec == CodeSpec /\ WF_vars(PiAnswers)

-----------------------------------------------------------------------------
(* Properties *)

\* A call that returns a text returns the text of its own prompt or the empty
\* one, never that of an earlier turn of the chat, whatever timed out, was
\* aborted or was printed late (prompt_and_collect, abort).
ReplyMatchesPrompt ==
    \A i \in DOMAIN outcome : outcome[i].kind = "text" => outcome[i].text \in {0, i}

\* Nobody waits on a stream that no one reads: when the reader task is dead,
\* for whatever reason, the client is marked dead and the future the client
\* awaits is resolved (_read_loop's finally, the guard of send_command).
NoWaiterOnDeadStream ==
    reader = "dead" => ~alive /\ fut.st # "waiting" /\ pending = {}

\* The lines that carry the id of the newest command: the command, its response.
Asking == {i \in DOMAIN stdin : stdin[i].cmd # "ui_response" /\ stdin[i].id = nextId}
Answering == {i \in DOMAIN stdout : stdout[i].kind = "response" /\ stdout[i].id = nextId}

\* A future that is awaited has exactly one line that can resolve it, the command
\* on its way to PI or the one response on its way back, and the reader will find
\* it in _pending: no response is lost or taken for that of another command,
\* however many commands were given up before (send_command, _dispatch).
AnswerUnderWay ==
    fut.st = "waiting" /\ reader = "running" /\ proc = "running"
        => /\ nextId \in pending
           /\ \/ Answering = {} /\ \E i \in DOMAIN stdin : Asking = {i}
              \/ Asking = {} /\ \E i \in DOMAIN stdout : Answering = {i}

\* While the client waits for the events of an accepted turn that PI has
\* finished, the agent_end is on its way or in the queue: it was not dropped
\* between the response and the wait (begin_turn before send_command).
EndNeverMissed ==
    pc = "event" /\ reader = "running" /\ proc = "running" /\ piTurn # turn
        => \E q \in {stdout, queue} : \E i \in DOMAIN q : q[i] = EventOf("agent_end", turn)

\* Between two calls on a live client PI is idle and nothing of the last turn
\* is under way in either pipe but late answers to its dialogs: the next prompt
\* meets a PI that is not streaming, and its queue fills with its own events.
QuietBetweenTurns ==
    pc = "idle" /\ alive /\ proc = "running"
        => /\ piTurn = 0
           /\ \A i \in DOMAIN stdout : stdout[i].kind \in AllStrayKinds
           /\ \A i \in DOMAIN stdin : stdin[i].cmd = "ui_response"

\* PI waits in a dialog only as long as its answer takes: the request is still to
\* be read, or the answer is on its way (_handle_ui_request).  Otherwise the turn
\* would stand still until its timeout.
DialogBeingAnswered ==
    piDialog /\ proc = "running" /\ reader = "running"
        => \/ \E i \in DOMAIN stdout : stdout[i] = EventOf("dialog", piTurn)
           \/ \E i \in DOMAIN stdin : stdin[i].cmd = "ui_response" /\ stdin[i].turn = piTurn

\* When close() has returned the process is gone and the client says so: an
\* abort that escalates, and the router's stop(), leave no orphan.
NoOrphanAfterClose ==
    pipe = "closed" => proc = "exited" /\ ~alive

\* PI goes on with its turn for ever: turn_timeout is per event, so nothing ends it.
Chatters == []<><<PiEmits>>_vars

\* Every call of prompt_and_collect() and of stop() comes back, unless PI chatters.
EveryCallEnds == Chatters \/ (pc \notin {"idle", "stopped"} ~> pc \in {"idle", "stopped"})

\* The adapter implements the port; that its calls return is EveryCallEnds.
ImplementsAgentClient == Port!Spec

\* What the comment on MAX_QUEUED_EVENTS says: a reader that meets a full queue
\* waits for room (and PI for the reader).  The code does not do this.
ReaderWaitsForRoom ==
    [][reader = "running" /\ stdout # <<>> /\ Head(stdout).kind \in EventKind
         /\ armed /\ QueueFull => reader' # "dead"]_vars
=============================================================================
