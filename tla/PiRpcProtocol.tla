---------------------------- MODULE PiRpcProtocol ----------------------------
(***************************************************************************)
(* PiRpcProtocol (relaypi/infrastructure/adapters/pi_rpc_protocol.py): one *)
(* background reader takes the lines PI prints and hands them out, to the  *)
(* future of the command they answer, to the event queue of the turn, or   *)
(* to the automatic answer of a dialog.                                    *)
(*                                                                         *)
(* One step of the reader is one line.  asyncio switches tasks only at an  *)
(* await; a reader that gets several lines in one chunk dispatches them    *)
(* without a switch, which is one of the interleavings allowed here.       *)
(*                                                                         *)
(* The client awaits one future at a time, so only the newest future is    *)
(* kept (fut, the future of command nextId); pending is the set of ids     *)
(* still in the _pending dict, the abandoned ones included.                *)
(***************************************************************************)
EXTENDS PiProcess

CONSTANT MaxQueued  \* MAX_QUEUED_EVENTS

ASSUME MaxQueuedAssumption == MaxQueued \in Nat \ {0}

VARIABLES
    alive,     \* _alive
    reader,    \* the reader task: "running", "cancelling" or "dead"
    nextId,    \* _next_id
    pending,   \* the keys of _pending
    fut,       \* the newest future and what it was resolved with
    armed,     \* _event_queue is not None
    queue      \* its events, <<>> when there is no queue

protocolVars == <<alive, reader, nextId, pending, fut, armed, queue>>

Future == [st : {"none", "waiting", "done", "failed", "cancelled"},
           ok : BOOLEAN, turn : Turn]

FutureIn(st) == [st |-> st, ok |-> FALSE, turn |-> 0]

ProtocolTypeOK ==
    /\ alive \in BOOLEAN
    /\ reader \in {"running", "cancelling", "dead"}
    /\ nextId \in Nat
    /\ pending \subseteq 1..nextId
    /\ fut \in Future
    /\ armed \in BOOLEAN
    /\ queue \in Seq(Event)

\* start(): the factory returns a client whose reader task exists.
ProtocolInit ==
    /\ alive = TRUE
    /\ reader = "running"
    /\ nextId = 0
    /\ pending = {}
    /\ fut = FutureIn("none")
    /\ armed = FALSE
    /\ queue = <<>>

-----------------------------------------------------------------------------
(* The reader task *)

QueueFull == Len(queue) >= MaxQueued

\* Mutant: the dict is cleared and no future is failed.
ForgetPending == pending' = {} /\ UNCHANGED fut

\* _fail_pending()
FailPending ==
    /\ fut' = IF fut.st = "waiting" THEN FutureIn("failed") ELSE fut
    /\ pending' = {}

\* The finally of _read_loop: a turn that waits for events gets an agent_end of
\* no turn, unless the queue has no room for it (the put_nowait then raises out
\* of the finally, and the task is dead as well).
ReaderEnds ==
    /\ reader' = "dead"
    /\ alive' = FALSE
    /\ FailPending
    /\ queue' = IF armed /\ ~QueueFull THEN Append(queue, EventOf("agent_end", 0)) ELSE queue
    /\ UNCHANGED <<nextId, armed>>

ReaderTakes(kinds) ==
    /\ reader = "running" /\ stdout # <<>> /\ Head(stdout).kind \in kinds
    /\ stdout' = Tail(stdout)

\* A response resolves the future of its id; a response whose future is no
\* longer pending, or was cancelled by a timeout, is dropped.
ReadResponse ==
    /\ ReaderTakes({"response"})
    /\ LET r == Head(stdout) IN
         /\ pending' = pending \ {r.id}
         /\ fut' = IF r.id \in pending /\ r.id = nextId /\ fut.st = "waiting"
                     THEN [st |-> "done", ok |-> r.ok, turn |-> r.turn] ELSE fut
    /\ UNCHANGED <<procVars, stdin, piVars, alive, reader, nextId, armed, queue>>

\* An event goes to the queue of the turn; without a queue it is dropped, and
\* with a full one put_nowait raises QueueFull, which ends the reader.
ReadEvent ==
    /\ ReaderTakes(EventKind)
    /\ UNCHANGED <<procVars, stdin, piVars>>
    /\ IF armed /\ QueueFull
         THEN ReaderEnds
         ELSE /\ queue' = IF armed THEN Append(queue, Head(stdout)) ELSE queue
              /\ UNCHANGED <<alive, reader, nextId, pending, fut, armed>>

\* Mutant: dialogs are treated as notifications.
IgnoresDialog ==
    /\ ReaderTakes({"dialog"})
    /\ UNCHANGED <<procVars, stdin, piVars, protocolVars>>

\* _handle_ui_request(): a dialog is answered; when the write fails the
\* exception ends the reader.
ReadDialog ==
    /\ ReaderTakes({"dialog"})
    /\ UNCHANGED <<procVars, piVars>>
    /\ \/ /\ Writes([cmd |-> "ui_response", id |-> 0, turn |-> Head(stdout).turn])
          /\ UNCHANGED protocolVars
       \/ /\ WriteMayFail
          /\ UNCHANGED stdin
          /\ ReaderEnds

\* A line that is not JSON is skipped, and a notification needs no answer.
ReadSkipped ==
    /\ ReaderTakes({"non_json", "notify"})
    /\ UNCHANGED <<procVars, stdin, piVars, protocolVars>>

\* JSON that is not an object has no .get: _dispatch raises, the reader ends.
ReadNonObject ==
    /\ ReaderTakes({"non_object"})
    /\ UNCHANGED <<procVars, stdin, piVars>>
    /\ ReaderEnds

\* read() returns b"": the process has exited and its output is consumed.
ReadEof ==
    /\ reader = "running" /\ stdout = <<>> /\ proc = "exited"
    /\ ReaderEnds
    /\ UNCHANGED processVars

\* The cancellation that stop() asked for reaches the reader.
ReaderCancelled ==
    /\ reader = "cancelling"
    /\ ReaderEnds
    /\ UNCHANGED processVars

ReaderNext ==
    \/ ReadResponse \/ ReadEvent \/ ReadDialog \/ ReadSkipped \/ ReadNonObject
    \/ ReadEof \/ ReaderCancelled

-----------------------------------------------------------------------------
(* What the client calls *)

\* begin_turn() and end_turn(): the queue of a turn.
BeginTurn == armed' = TRUE /\ queue' = <<>>
EndTurn == armed' = FALSE /\ queue' = <<>>

\* Mutants: the id is registered before it is incremented; the stream is not
\* checked before the write.
SendsWithOldId(cmd, t) ==
    /\ alive
    /\ nextId' = nextId + 1
    /\ pending' = pending \cup {nextId}
    /\ fut' = FutureIn("waiting")
    /\ Writes([cmd |-> cmd, id |-> nextId, turn |-> t])

SendsUnchecked(cmd, t) ==
    /\ nextId' = nextId + 1
    /\ pending' = pending \cup {nextId + 1}
    /\ fut' = FutureIn("waiting")
    /\ Writes([cmd |-> cmd, id |-> nextId + 1, turn |-> t])

\* send_command() on a stream that is alive, up to the await of its future.
SendsCommand(cmd, t) ==
    /\ alive
    /\ nextId' = nextId + 1
    /\ pending' = pending \cup {nextId + 1}
    /\ fut' = FutureIn("waiting")
    /\ Writes([cmd |-> cmd, id |-> nextId + 1, turn |-> t])

\* send_command() whose write raises: its future stays in _pending, unawaited.
SendRaises ==
    /\ alive
    /\ WriteMayFail
    /\ nextId' = nextId + 1
    /\ pending' = pending \cup {nextId + 1}
    /\ fut' = FutureIn("none")
    /\ UNCHANGED stdin

\* send_command() on a dead stream: AgentError at once.
SendRefused ==
    /\ ~alive
    /\ UNCHANGED <<stdin, nextId, pending, fut>>

\* stop(), up to the wait for the process.
BeginsStop ==
    /\ reader' = IF reader = "running" THEN "cancelling" ELSE reader
    /\ CloseStdin

\* stop(), once close() has returned.
EndsStop == Reaped /\ alive' = FALSE /\ UNCHANGED reader
=============================================================================
