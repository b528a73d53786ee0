------------------------------ MODULE PiProcess ------------------------------
(***************************************************************************)
(* The PI subprocess of one chat and the pipes that connect relaypi to it. *)
(*                                                                         *)
(* relaypi/infrastructure/adapters/subprocess_stream_transport.py owns the *)
(* process and its two pipes; PI itself is not in the repository.  It is   *)
(* modelled here as far as the adapters and their tests rely on it: it     *)
(* answers every command with a response carrying the command's id, emits  *)
(* events while a turn runs and one agent_end when the turn is over, and a *)
(* dialog blocks the turn until an extension_ui_response arrives.          *)
(*                                                                         *)
(* A pipe is a sequence of LF-terminated lines.  The assistant text of a   *)
(* turn is abstracted to the number of that turn; 0 is the empty text.     *)
(***************************************************************************)
EXTENDS Integers, Sequences

CONSTANTS
    MaxTurns,      \* bound: prompts issued to one client
    MaxStray,      \* bound: lines PI prints outside the RPC protocol
    StdoutCap,     \* lines the stdout pipe holds; PI blocks when it is full
    StrayKinds,    \* what those lines may be, a subset of AllStrayKinds
    AbortFlushes   \* TRUE: PI emits agent_end before it acknowledges an abort

AllStrayKinds == {"non_json", "non_object", "notify"}

ASSUME PiProcessAssumption ==
    /\ MaxTurns \in Nat \ {0}
    /\ MaxStray \in Nat
    /\ StdoutCap \in Nat \ {0, 1}
    /\ StrayKinds \subseteq AllStrayKinds
    /\ AbortFlushes \in BOOLEAN

VARIABLES
    proc,      \* "running" or "exited": the child process
    pipe,      \* "open", "closing" (stdin closed, waiting for exit), "closed"
    stdin,     \* lines written to PI and not read yet
    stdout,    \* lines PI printed and the reader has not taken yet
    piTurn,    \* the turn PI is running, 0 when it is idle
    piDialog,  \* TRUE while a dialog of that turn waits for its answer
    piText,    \* the turn that produced the last assistant text
    stray      \* stray lines printed so far

procVars == <<proc, pipe>>
piVars == <<piTurn, piDialog, piText, stray>>
processVars == <<proc, pipe, stdin, stdout, piTurn, piDialog, piText, stray>>

Turn == 0..MaxTurns
Command == [cmd : {"prompt", "abort", "get_text", "ui_response"}, id : Nat, turn : Turn]
EventKind == {"event", "agent_end"}
Event == [kind : EventKind, turn : Turn]
Line == [kind : {"response"}, id : Nat, ok : BOOLEAN, turn : Turn]
          \cup Event
          \cup [kind : {"dialog"}, turn : Turn]
          \cup [kind : AllStrayKinds]

Response(id, ok, t) == [kind |-> "response", id |-> id, ok |-> ok, turn |-> t]
EventOf(k, t) == [kind |-> k, turn |-> t]

ProcessTypeOK ==
    /\ proc \in {"running", "exited"}
    /\ pipe \in {"open", "closing", "closed"}
    /\ stdin \in Seq(Command)
    /\ stdout \in Seq(Line)
    /\ piTurn \in Turn
    /\ piDialog \in BOOLEAN
    /\ piText \in Turn
    /\ stray \in 0..MaxStray

ProcessInit ==
    /\ proc = "running"
    /\ pipe = "open"
    /\ stdin = <<>>
    /\ stdout = <<>>
    /\ piTurn = 0
    /\ piDialog = FALSE
    /\ piText = 0
    /\ stray = 0

-----------------------------------------------------------------------------
(* PI, as the adapters see it. *)

Room(n) == Len(stdout) + n <= StdoutCap

\* PI takes the next command; c.id is echoed in its response.
Takes(cmd) == proc = "running" /\ stdin # <<>> /\ Head(stdin).cmd = cmd /\ stdin' = Tail(stdin)

\* A prompt is accepted, or rejected (no agent_end follows a rejection);
\* a streaming PI rejects it always.
PiTakesPrompt ==
    /\ Room(1)
    /\ Takes("prompt")
    /\ \E accepted \in BOOLEAN :
         /\ accepted => piTurn = 0
         /\ stdout' = Append(stdout, Response(Head(stdin).id, accepted, 0))
         /\ piTurn' = IF accepted THEN Head(stdin).turn ELSE piTurn
    /\ UNCHANGED <<procVars, piDialog, piText, stray>>

\* An abort is acknowledged after the turn's agent_end, or, in the weaker
\* reading, at once: the turn then ends some time after the acknowledgement.
PiTakesAbort ==
    /\ Room(2)
    /\ Takes("abort")
    /\ IF AbortFlushes /\ piTurn # 0
         THEN /\ stdout' = Append(Append(stdout, EventOf("agent_end", piTurn)),
                                  Response(Head(stdin).id, TRUE, 0))
              /\ piTurn' = 0
         ELSE /\ stdout' = Append(stdout, Response(Head(stdin).id, TRUE, 0))
              /\ UNCHANGED piTurn
    /\ piDialog' = FALSE
    /\ UNCHANGED <<procVars, piText, stray>>

PiTakesGetText ==
    /\ Room(1)
    /\ Takes("get_text")
    /\ \E t \in {0, piText} : stdout' = Append(stdout, Response(Head(stdin).id, TRUE, t))
    /\ UNCHANGED <<procVars, piVars>>

\* The answer of a dialog that an abort has closed meanwhile is ignored.
PiTakesUiResponse ==
    /\ Takes("ui_response")
    /\ piDialog' = (piDialog /\ Head(stdin).turn # piTurn)
    /\ UNCHANGED <<procVars, stdout, piTurn, piText, stray>>

PiTakesCommand == PiTakesPrompt \/ PiTakesAbort \/ PiTakesGetText \/ PiTakesUiResponse

\* A turn that is not waiting for a dialog emits an event, opens a dialog, as often
\* as it likes ...
PiEmits ==
    /\ proc = "running" /\ piTurn # 0 /\ ~piDialog /\ Room(1)
    /\ \E opens \in BOOLEAN :
         /\ piDialog' = opens
         /\ stdout' = Append(stdout, EventOf(IF opens THEN "dialog" ELSE "event", piTurn))
    /\ UNCHANGED <<procVars, stdin, piTurn, piText, stray>>

\* ... or ends: its text becomes the last assistant text.
PiEndsTurn ==
    /\ proc = "running" /\ piTurn # 0 /\ ~piDialog /\ Room(1)
    /\ stdout' = Append(stdout, EventOf("agent_end", piTurn))
    /\ piText' = piTurn
    /\ piTurn' = 0
    /\ UNCHANGED <<procVars, stdin, piDialog, stray>>

\* PI (an extension, a tool) prints a line that is no response, event or dialog.
PiPrintsStray ==
    /\ proc = "running" /\ Room(1) /\ stray < MaxStray
    /\ \E k \in StrayKinds : stdout' = Append(stdout, [kind |-> k])
    /\ stray' = stray + 1
    /\ UNCHANGED <<procVars, stdin, piTurn, piDialog, piText>>

\* PI exits: a crash, an external kill, or the end of its stdin.  What it has
\* printed can still be read; what it has not read is lost.
PiExits ==
    /\ proc = "running"
    /\ proc' = "exited"
    /\ stdin' = <<>>
    /\ UNCHANGED <<pipe, stdout, piVars>>

-----------------------------------------------------------------------------
(* SubprocessStreamTransport *)

\* write(): a running process gets the line.  The write to a process that has
\* exited is lost, and drain() raises (a ConnectionResetError, no AgentError)
\* when the loop has noticed the broken pipe.  A drain() that waits for a full
\* stdin pipe is not modelled: commands are few and short.
Writes(line) ==
    IF proc = "running" THEN stdin' = Append(stdin, line) ELSE UNCHANGED stdin

WriteMayFail == proc = "exited"

\* close(), first part: stdin is closed, the graceful signal to exit.
CloseStdin == pipe' = "closing"

\* close(): the process did not exit within shutdown_timeout and is killed.
KillAfterTimeout ==
    /\ pipe = "closing"
    /\ proc = "running"
    /\ proc' = "exited"
    /\ stdin' = <<>>
    /\ UNCHANGED <<pipe, stdout, piVars>>

\* Mutant: close() stops waiting at the timeout and kills nothing.
ReapedEarly ==
    /\ pipe = "closing"
    /\ pipe' = "closed"
    /\ UNCHANGED <<proc, stdin, stdout, piVars>>

\* close(), last part: proc.wait() has returned.
Reaped ==
    /\ pipe = "closing"
    /\ proc = "exited"
    /\ pipe' = "closed"
    /\ UNCHANGED <<proc, stdin, stdout, piVars>>

\* The process exits in the moment the timeout fires, and kill() finds none: its
\* ProcessLookupError leaves close().  The reader was cancelled long before.
KillFindsNone(alive) == Reaped /\ ~alive
=============================================================================
