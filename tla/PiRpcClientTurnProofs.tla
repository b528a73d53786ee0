------------------------ MODULE PiRpcClientTurnProofs ------------------------
(***************************************************************************)
(* What PiRpcClient makes of a turn, proved for a PI that flushes an       *)
(* aborted turn before it acknowledges the abort: a reply belongs to its   *)
(* prompt, the end of a turn is not missed, nothing of a turn is left      *)
(* behind, and the client implements its port; and, for any PI, that a     *)
(* dialog is being answered and the response to an awaited command is on   *)
(* its way.                                                                *)
(***************************************************************************)
EXTENDS PiRpcClientProofs

Closing == {"abort_close", "stop_close", "stopped"}
Waiting == {"prompt", "abort_ack", "text"}

\* Where the client stands, and what it may still use.
Control ==
    /\ pc \in Closing => reader # "running"
    /\ pc \notin Closing => (alive <=> reader = "running")
    /\ pc \notin Closing /\ (pc = "idle" => alive) => pipe = "open"
    /\ Len(outcome) = IF pc \in {"idle", "stop_close", "stopped"} THEN turn ELSE turn - 1

\* A text that was returned, or is about to be, is that of its prompt.
Answer ==
    /\ ReplyMatchesPrompt
    /\ pc = "text" /\ fut.st = "done" => fut.turn \in {0, turn}

\* The commands under way to PI, and the responses under way to the client.
Commands == {i \in DOMAIN stdin : stdin[i].cmd # "ui_response"}
Responses == {i \in DOMAIN stdout : stdout[i].kind = "response"}

Awaited == [p \in Waiting |-> CASE p = "prompt" -> "prompt"
                                [] p = "abort_ack" -> "abort"
                                [] p = "text" -> "get_text"]

\* One command at most is under way, or its response, and it is the awaited one.
Flight ==
    /\ fut.st \in {"none", "waiting", "done"}
    /\ fut.st = "waiting" => pc \in Waiting
    /\ \A i \in Commands : /\ fut.st = "waiting" /\ Commands = {i} /\ Responses = {}
                           /\ stdin[i].cmd = Awaited[pc] /\ stdin[i].turn = turn
    /\ \A i \in Responses : fut.st = "waiting" /\ Responses = {i}

\* What PI prints of a turn, besides responses.
OfTurn(l) == l.kind \in {"event", "agent_end", "dialog"}

\* PI runs no turn, and nothing of one is on its way to the client.
Quiet == piTurn = 0 /\ \A i \in DOMAIN stdout : ~OfTurn(stdout[i])

\* Nothing of a turn comes after line i.
LastOfTurn(i) == \A j \in DOMAIN stdout : i < j => ~OfTurn(stdout[j])

EndIn(q) == \E i \in DOMAIN q : q[i] = EventOf("agent_end", turn)
UnderWay == piTurn = turn \/ EndIn(stdout) \/ EndIn(queue)

\* A rejected prompt leaves PI idle, an accepted one is under way or has ended.
PromptPhase ==
    pc = "prompt" =>
        /\ Commands # {} => Quiet /\ queue = <<>>
        /\ \A i \in Responses : IF stdout[i].ok THEN UnderWay ELSE Quiet
        /\ fut.st = "done" => IF fut.ok THEN UnderWay ELSE Quiet

\* The end of a turn is the last that is heard of it, and its text is the latest.
EndPhase ==
    pc \in {"prompt", "event", "abort"} =>
        /\ \A i \in DOMAIN stdout : stdout[i].kind = "agent_end" =>
             piTurn = 0 /\ piText = turn /\ LastOfTurn(i)
        /\ \A i \in DOMAIN queue : queue[i].kind = "agent_end" => Quiet /\ piText = turn

\* An acknowledged abort has ended the turn.
AbortPhase ==
    pc = "abort_ack" =>
        /\ fut.st = "done" => Quiet
        /\ \A i \in Responses : piTurn = 0 /\ LastOfTurn(i)

\* The text that is asked for is that of the turn.
TextPhase ==
    pc = "text" => piText = turn /\ \A i \in Responses : stdout[i].turn \in {0, turn}

TurnInv ==
    /\ Flight
    /\ piTurn \in {0, turn}
    /\ pc \in {"idle", "text"} => Quiet
    /\ pc \in {"prompt", "event", "abort", "abort_ack"} => armed
    /\ pc = "event" => UnderWay
    /\ PromptPhase /\ EndPhase /\ AbortPhase /\ TextPhase

\* As long as the reader runs, client and PI agree on the turn.
IInv == TypeOK /\ Control /\ Answer /\ (reader = "running" => TurnInv)

-----------------------------------------------------------------------------
(* Sequences *)

\* What is at which place once the head is taken.
LEMMA TailPlaces ==
  ASSUME NEW S, NEW s \in Seq(S), s # <<>>
  PROVE  /\ 1 \in DOMAIN s /\ Head(s) = s[1]
         /\ \A i \in DOMAIN Tail(s) : i \in Nat /\ i + 1 \in DOMAIN s /\ Tail(s)[i] = s[i + 1]
         /\ \A i \in DOMAIN s : /\ i \in Nat
                                /\ i # 1 => i - 1 \in DOMAIN Tail(s) /\ Tail(s)[i - 1] = s[i]
<1>1. Len(s) \in Nat \ {0} /\ DOMAIN s = 1..Len(s)
  BY EmptySeq, LenProperties
<1>2. /\ Tail(s) \in Seq(S) /\ Len(Tail(s)) = Len(s) - 1
      /\ \A i \in 1..Len(Tail(s)) : Tail(s)[i] = s[i + 1]
  BY HeadTailProperties
<1>3. DOMAIN Tail(s) = 1..(Len(s) - 1)
  BY <1>2, LenProperties
<1> QED
  BY <1>1, <1>2, <1>3

\* What is at which place once an element is appended.
LEMMA AppendPlaces ==
  ASSUME NEW S, NEW s \in Seq(S), NEW e \in S
  PROVE  /\ Len(s) \in Nat /\ DOMAIN s = 1..Len(s)
         /\ DOMAIN Append(s, e) = 1..(Len(s) + 1)
         /\ \A i \in DOMAIN s : Append(s, e)[i] = s[i]
         /\ Append(s, e)[Len(s) + 1] = e
  BY AppendProperties, LenProperties

-----------------------------------------------------------------------------
(* Where the client stands *)

\* The end of a call adds its outcome.
LEMMA EndsControl ==
  ASSUME TypeOK, NEW r \in Port!Outcome, Ends(r)
  PROVE  /\ pc' = "idle"
         /\ Len(outcome') = Len(outcome) + 1
         /\ DOMAIN outcome = 1..Len(outcome) /\ Len(outcome) \in Nat
         /\ DOMAIN outcome' = 1..(Len(outcome) + 1)
         /\ \A i \in DOMAIN outcome : outcome'[i] = outcome[i]
         /\ outcome'[Len(outcome) + 1] = r
<1>1. outcome \in Seq(Port!Outcome) /\ outcome' = Append(outcome, r) /\ pc' = "idle"
  BY DEF TypeOK, Ends
<1> QED
  BY <1>1, AppendPlaces, AppendProperties

\* The errors of a call are no texts.
LEMMA ErrorFacts == /\ Port!AgentError \in Port!Outcome /\ Port!AgentError.kind # "text"
                    /\ Port!OtherError \in Port!Outcome /\ Port!OtherError.kind # "text"
  BY OutcomeFacts DEF Port!AgentError, Port!OtherError

\* A call that ends in an error, or with the text of its prompt, keeps the answers right.
LEMMA EndsAnswer ==
  ASSUME TypeOK, ReplyMatchesPrompt, NEW r \in Port!Outcome, Ends(r),
         r.kind = "text" => r.text \in {0, Len(outcome) + 1}
  PROVE  Answer'
<1>1. \A i \in DOMAIN outcome' : i \in DOMAIN outcome \/ i = Len(outcome) + 1
  BY EndsControl
<1>2. \A i \in DOMAIN outcome' : outcome'[i].kind = "text" => outcome'[i].text \in {0, i}
  BY <1>1, EndsControl DEF ReplyMatchesPrompt
<1> QED
  BY <1>2, EndsControl DEF Answer, ReplyMatchesPrompt

\* A call begins, on a live client or in vain.
LEMMA PromptControl ==
  ASSUME TypeOK, Control, Answer, Prompt
  PROVE  Control' /\ Answer'
<1>1. turn \in Nat /\ turn' = turn + 1 /\ UNCHANGED <<pipe, alive, reader>> /\ pc = "idle"
  BY TurnFacts DEF Prompt, TypeOK, procVars, Turn
<1>2. CASE SendsCommand("prompt", turn + 1) /\ pc' = "prompt" /\ UNCHANGED outcome
  BY <1>1, <1>2 DEF SendsCommand, Control, Closing, Answer, ReplyMatchesPrompt
<1>3. ASSUME NEW r \in {Port!AgentError, Port!OtherError}, Ends(r)
      PROVE  Control' /\ Answer'
  <2>1. r \in Port!Outcome /\ r.kind # "text"
    BY <1>3, ErrorFacts
  <2>2. Answer'
    BY <1>3, <2>1, EndsAnswer DEF Answer
  <2>3. pc' = "idle" /\ Len(outcome') = turn'
    BY <1>1, <1>3, <2>1, EndsControl DEF Control
  <2> QED
    BY <1>1, <2>2, <2>3 DEF Control, Closing
<1> QED
  BY <1>2, <1>3 DEF Prompt

\* A call ends, on a client that is as alive as its reader.
LEMMA EndsKeepsControl ==
  ASSUME TypeOK, Control, Answer, NEW r \in Port!Outcome, Ends(r), UNCHANGED turn,
         r.kind = "text" => r.text \in {0, turn},
         pc \notin {"idle", "stop_close", "stopped"},
         alive' <=> reader' = "running", alive' => alive /\ pc \notin Closing /\ pipe' = pipe
  PROVE  Control' /\ Answer'
<1>1. turn \in Int /\ Len(outcome) + 1 = turn
  <2>1. turn \in Int /\ Len(outcome) = turn - 1
    BY TurnFacts DEF TypeOK, Control
  <2> QED
    BY <2>1
<1>2. pc' = "idle" /\ Len(outcome') = turn'
  BY <1>1, EndsControl
<1>3. Answer'
  BY <1>1, EndsAnswer DEF Answer
<1>4. alive' => pipe' = "open"
  BY DEF Control
<1> QED
  BY <1>2, <1>3, <1>4 DEF Control, Closing

\* A call goes on or ends, the client is torn down.
LEMMA ClientControl ==
  ASSUME TypeOK, Control, Answer, reader = "running" => TurnInv,
         ClientStep \/ Timers \/ Stop
  PROVE  Control' /\ Answer'
<1>1. ASSUME NEW r \in {Port!AgentError, Port!OtherError}, Ends(r),
             UNCHANGED <<turn, pipe, alive, reader>>,
             pc \notin {"idle", "stop_close", "stopped"} \cup Closing
      PROVE  Control' /\ Answer'
  BY <1>1, ErrorFacts, EndsKeepsControl DEF Control
<1>2. CASE PromptAnswered
  <2>1. UNCHANGED <<turn, pipe, alive, reader>> /\ pc = "prompt"
    BY <1>2 DEF PromptAnswered, processVars
  <2>2. CASE pc' = "event" /\ UNCHANGED outcome
    BY <2>1, <2>2 DEF Control, Closing, Answer, ReplyMatchesPrompt
  <2> QED
    BY <1>1, <1>2, <2>1, <2>2 DEF PromptAnswered, Closing
<1>3. CASE TakesEvent
  <2>1. UNCHANGED <<turn, pipe, alive, reader>> /\ pc = "event"
    BY <1>3 DEF TakesEvent, procVars
  <2>2. CASE SendsCommand("get_text", turn) /\ pc' = "text" /\ UNCHANGED outcome
    BY <2>1, <2>2 DEF SendsCommand, FutureIn, Control, Closing, Answer, ReplyMatchesPrompt
  <2>3. CASE UNCHANGED <<pc, outcome>>
    BY <2>1, <2>3 DEF Control, Closing, Answer, ReplyMatchesPrompt
  <2> QED
    BY <1>1, <1>3, <2>1, <2>2, <2>3 DEF TakesEvent, Closing
<1>4. CASE SendsAbort \/ AbortEscalates
  <2>1. UNCHANGED <<turn, outcome, alive>> /\ pc \in {"abort", "abort_ack"}
    BY <1>4 DEF SendsAbort, AbortEscalates
  <2>2. CASE pc' = "abort_ack" /\ UNCHANGED <<pipe, reader>>
    BY <2>1, <2>2 DEF Control, Closing, Answer, ReplyMatchesPrompt
  <2>3. CASE pc' = "abort_close" /\ BeginsStop
    BY <2>1, <2>3 DEF BeginsStop, Control, Closing, Answer, ReplyMatchesPrompt
  <2> QED
    BY <1>4, <2>2, <2>3 DEF SendsAbort, AbortEscalates
<1>5. CASE AbortAcknowledged
  BY <1>1, <1>5 DEF AbortAcknowledged, processVars, Closing
<1>6. CASE TextAnswered
  <2>1. UNCHANGED <<turn, pipe, alive, reader>> /\ pc = "text"
    BY <1>6 DEF TextAnswered, processVars
  <2>2. CASE fut.st = "done" /\ Ends(Port!Text(fut.turn))
    <3>1. fut.turn \in Turn /\ fut.turn \in {0, turn}
      BY <2>1, <2>2 DEF TypeOK, ProtocolTypeOK, Future, Answer
    <3>2. /\ Port!Text(fut.turn) \in Port!Outcome
          /\ Port!Text(fut.turn).text \in {0, turn}
      BY <3>1, OutcomeFacts DEF Port!Text
    <3> QED
      BY <2>1, <2>2, <3>2, EndsKeepsControl DEF Control, Closing
  <2> QED
    BY <1>1, <1>6, <2>1, <2>2 DEF TextAnswered, Closing
<1>7. CASE StopReturns \/ StopRaises
  <2>1. UNCHANGED <<turn, reader>> /\ alive' = FALSE /\ pc \in Closing
    BY <1>7 DEF StopReturns, StopRaises, EndsStop, KillFindsNone, Closing
  <2>2. reader' # "running"
    BY <2>1 DEF Control
  <2>3. ASSUME NEW r \in {Port!AgentError, Port!OtherError}, Ends(r), pc = "abort_close"
        PROVE  Control' /\ Answer'
    BY <2>1, <2>2, <2>3, ErrorFacts, EndsKeepsControl
  <2>4. CASE pc = "stop_close" /\ pc' = "stopped" /\ UNCHANGED outcome
    BY <2>1, <2>2, <2>4 DEF Control, Closing, Answer, ReplyMatchesPrompt
  <2> QED
    BY <1>7, <2>3, <2>4 DEF StopReturns, StopRaises
<1>8. CASE TurnTimesOut
  BY <1>8 DEF TurnTimesOut, processVars, protocolVars, Control, Closing, Answer, ReplyMatchesPrompt
<1>9. CASE Kills
  BY <1>9 DEF Kills, KillAfterTimeout, protocolVars, clientVars, Control, Answer, ReplyMatchesPrompt
<1>10. CASE Stop
  BY <1>10 DEF Stop, BeginsStop, Control, Closing, Answer, ReplyMatchesPrompt
<1> QED
  BY <1>2, <1>3, <1>4, <1>5, <1>6, <1>7, <1>8, <1>9, <1>10 DEF ClientStep, Timers

\* The reader takes lines; it ends only with the client marked dead.
LEMMA ReaderControl ==
  ASSUME TypeOK, Control, Answer, reader = "running" => TurnInv, ReaderStep
  PROVE  Control' /\ Answer'
<1>1. UNCHANGED <<pc, turn, outcome, pipe>>
  BY DEF ReaderStep, clientVars, ReaderNext, ReadResponse, ReadEvent, ReadDialog, ReadSkipped,
     ReadNonObject, ReadEof, ReaderCancelled, processVars, procVars
<1>2. CASE ReaderEnds
  <2>1. reader' = "dead" /\ alive' = FALSE
    BY <1>2 DEF ReaderEnds
  <2>2. fut'.st = "done" => fut' = fut
    BY <1>2 DEF ReaderEnds, FailPending, FutureIn
  <2> QED
    BY <1>1, <2>1, <2>2 DEF Control, Closing, Answer, ReplyMatchesPrompt
<1>3. CASE ReadResponse
  <2>1. UNCHANGED <<alive, reader>> /\ reader = "running" /\ stdout # <<>>
        /\ Head(stdout).kind = "response"
    BY <1>3 DEF ReadResponse, ReaderTakes
  <2>2. Head(stdout) = stdout[1] /\ 1 \in DOMAIN stdout
    BY <2>1, TailPlaces DEF TypeOK, ProcessTypeOK
  <2>3. pc = "text" => stdout[1].turn \in {0, turn}
    BY <2>1, <2>2 DEF TurnInv, TextPhase, Responses
  <2>4. fut' = fut \/ fut'.turn = stdout[1].turn
    BY <1>3, <2>2 DEF ReadResponse
  <2> QED
    BY <1>1, <2>1, <2>3, <2>4 DEF Control, Closing, Answer, ReplyMatchesPrompt
<1>4. CASE UNCHANGED <<alive, reader, fut>>
  BY <1>1, <1>4 DEF Control, Closing, Answer, ReplyMatchesPrompt
<1> QED
  BY <1>2, <1>3, <1>4 DEF ReaderStep, ReaderNext, ReadEvent, ReadDialog, ReadSkipped,
     ReadNonObject, ReadEof, ReaderCancelled, protocolVars

\* What PI does is no business of the client's own state.
LEMMA PiControl ==
  ASSUME Control, Answer, PiAnswers \/ PiActs \/ UNCHANGED vars
  PROVE  Control' /\ Answer'
<1>1. UNCHANGED <<pipe, protocolVars, clientVars>>
  BY DEF PiAnswers, PiTakesCommand, PiTakesPrompt, PiTakesAbort, PiTakesGetText,
     PiTakesUiResponse, PiActs, PiEmits, PiEndsTurn, PiPrintsStray, PiExits, procVars,
     vars, processVars
<1> QED
  BY <1>1 DEF protocolVars, clientVars, Control, Answer, ReplyMatchesPrompt

-----------------------------------------------------------------------------
(* The turn: the reader *)

\* A line is taken: the others move up, and no response or line of a turn is new.
LEMMA TakenPlaces ==
  ASSUME TypeOK, stdout # <<>>, stdout' = Tail(stdout)
  PROVE  /\ 1 \in DOMAIN stdout /\ Head(stdout) = stdout[1]
         /\ \A i \in DOMAIN stdout' : /\ i \in Nat /\ i + 1 \in DOMAIN stdout
                                      /\ stdout'[i] = stdout[i + 1]
                                      /\ LastOfTurn(i + 1) => LastOfTurn(i)'
         /\ \A i \in DOMAIN stdout \ {1} : i - 1 \in DOMAIN stdout' /\ stdout'[i - 1] = stdout[i]
         /\ \A i \in Responses' : i \in DOMAIN stdout' /\ i + 1 \in Responses
         /\ Quiet /\ piTurn' = piTurn => Quiet'
<1>1. stdout \in Seq(Line)
  BY DEF TypeOK, ProcessTypeOK
<1>2. /\ 1 \in DOMAIN stdout /\ Head(stdout) = stdout[1]
      /\ \A i \in DOMAIN stdout' : i \in Nat /\ i + 1 \in DOMAIN stdout /\ stdout'[i] = stdout[i + 1]
      /\ \A i \in DOMAIN stdout \ {1} : i - 1 \in DOMAIN stdout' /\ stdout'[i - 1] = stdout[i]
  BY <1>1, TailPlaces
<1>3. \A i \in DOMAIN stdout' : LastOfTurn(i + 1) => LastOfTurn(i)'
  BY <1>2 DEF LastOfTurn, OfTurn
<1> QED
  BY <1>2, <1>3 DEF Responses, Quiet, OfTurn

\* Commands and responses keep their order when the first one goes.
LEMMA FlightKept ==
  ASSUME Flight, UNCHANGED <<fut, pc, turn>>, NEW a \in {0, 1}, NEW b \in {0, 1},
         \A i \in Commands' : i \in Int /\ i + a \in Commands /\ stdin'[i] = stdin[i + a],
         \A i \in Responses' : i \in Int /\ i + b \in Responses
  PROVE  Flight'
<1>1. \A i \in Commands' : fut.st = "waiting" /\ Commands' = {i} /\ Responses' = {}
                           /\ stdin'[i].cmd = Awaited[pc] /\ stdin'[i].turn = turn
  BY DEF Flight
<1>2. \A i \in Responses' : fut.st = "waiting" /\ Responses' = {i}
  BY DEF Flight
<1> QED
  BY <1>1, <1>2 DEF Flight, Awaited

\* Lines that are taken do not disturb the phases, unless they end the turn.
LEMMA TakenPhases ==
  ASSUME TypeOK, TurnInv, stdout # <<>>, stdout' = Tail(stdout), stdout[1].kind # "agent_end",
         UNCHANGED <<pc, turn, piTurn, piText, queue>>
  PROVE  /\ UnderWay => UnderWay'
         /\ pc \in {"idle", "text"} => Quiet'
         /\ EndPhase'
<1>1. EndIn(stdout) => EndIn(stdout)'
  <2> SUFFICES ASSUME NEW i \in DOMAIN stdout, stdout[i] = EventOf("agent_end", turn)
               PROVE  EndIn(stdout)'
    BY DEF EndIn
  <2>1. i # 1
    BY DEF EventOf
  <2>2. i - 1 \in DOMAIN stdout' /\ stdout'[i - 1] = EventOf("agent_end", turn')
    BY <2>1, TakenPlaces
  <2> QED
    BY <2>2 DEF EndIn
<1>2. EndPhase'
  <2> SUFFICES ASSUME pc \in {"prompt", "event", "abort"} PROVE EndPhase'
    BY DEF EndPhase
  <2>1. \A i \in DOMAIN stdout' : stdout'[i].kind = "agent_end" =>
             piTurn' = 0 /\ piText' = turn' /\ LastOfTurn(i)'
    BY TakenPlaces DEF TurnInv, EndPhase
  <2>2. \A i \in DOMAIN queue' : queue'[i].kind = "agent_end" => Quiet' /\ piText' = turn'
    BY TakenPlaces DEF TurnInv, EndPhase
  <2> QED
    BY <2>1, <2>2 DEF EndPhase
<1> QED
  BY <1>1, <1>2, TakenPlaces DEF UnderWay, EndIn, TurnInv

\* A response is taken: it is the one that is awaited.
LEMMA ReadResponseKeepsTurn ==
  ASSUME TypeOK, TurnInv, ReadResponse, UNCHANGED clientVars
  PROVE  TurnInv'
<1>1. /\ UNCHANGED <<stdin, piVars, nextId, armed, queue>> /\ stdout' = Tail(stdout)
      /\ stdout # <<>> /\ Head(stdout).kind = "response"
      /\ UNCHANGED <<pc, turn, piTurn, piText>>
  BY DEF ReadResponse, ReaderTakes, clientVars, piVars
<1>2. 1 \in Responses /\ Head(stdout) = stdout[1] /\ stdout[1].kind # "agent_end"
  BY <1>1, TakenPlaces DEF Responses
<1>3. Responses = {1} /\ fut.st = "waiting" /\ Commands = {} /\ pc \in Waiting
  BY <1>2 DEF TurnInv, Flight
<1>4. Responses' = {} /\ Commands' = {}
  BY <1>1, <1>3, TakenPlaces DEF Commands
<1>5. fut' = fut \/ fut' = [st |-> "done", ok |-> stdout[1].ok, turn |-> stdout[1].turn]
  BY <1>2 DEF ReadResponse
<1>6. Flight'
  BY <1>1, <1>3, <1>4, <1>5 DEF Flight
<1>7. /\ UnderWay => UnderWay'
      /\ pc \in {"idle", "text"} => Quiet'
      /\ EndPhase'
  BY <1>1, <1>2, TakenPhases
<1>8. Quiet => Quiet'
  BY <1>1, TakenPlaces
<1>9. PromptPhase'
  BY <1>1, <1>2, <1>3, <1>4, <1>5, <1>7, <1>8 DEF TurnInv, PromptPhase
<1>10. AbortPhase'
  <2>1. pc = "abort_ack" => piTurn = 0 /\ LastOfTurn(1)
    BY <1>3 DEF TurnInv, AbortPhase
  <2>2. pc = "abort_ack" => Quiet'
    BY <1>1, <2>1, TakenPlaces DEF LastOfTurn, Quiet, OfTurn
  <2> QED
    BY <1>1, <1>4, <2>2 DEF AbortPhase
<1>11. TextPhase'
  BY <1>1, <1>4 DEF TurnInv, TextPhase
<1> QED
  BY <1>1, <1>6, <1>7, <1>9, <1>10, <1>11 DEF TurnInv

\* A line is taken that resolves nothing and is no agent_end.
LEMMA TakenKeepsTurn ==
  ASSUME TypeOK, TurnInv, stdout # <<>>, stdout' = Tail(stdout),
         Head(stdout).kind \notin {"response", "agent_end"},
         UNCHANGED <<pc, turn, fut, piTurn, piText, armed, queue>>,
         \A i \in Commands' : i \in Int /\ i \in Commands /\ stdin'[i] = stdin[i]
  PROVE  TurnInv'
<1>1. Head(stdout) = stdout[1] /\ stdout[1].kind \notin {"response", "agent_end"}
  BY TakenPlaces
<1>2. \A i \in Responses' : i \in Int /\ i + 1 \in Responses
  BY TakenPlaces
<1>3. Flight'
  <2>1. \A i \in Commands' : i \in Int /\ i + 0 \in Commands /\ stdin'[i] = stdin[i + 0]
    OBVIOUS
  <2> QED
    BY <1>2, <2>1, FlightKept DEF TurnInv
<1>4. /\ UnderWay => UnderWay'
      /\ pc \in {"idle", "text"} => Quiet'
      /\ EndPhase'
  BY <1>1, TakenPhases
<1>5. Quiet => Quiet'
  BY TakenPlaces
<1>6. PromptPhase'
  BY <1>2, <1>4, <1>5, TakenPlaces DEF TurnInv, PromptPhase
<1>7. AbortPhase'
  BY <1>2, <1>5, TakenPlaces DEF TurnInv, AbortPhase
<1>8. TextPhase'
  BY <1>2, TakenPlaces DEF TurnInv, TextPhase
<1> QED
  BY <1>3, <1>4, <1>6, <1>7, <1>8 DEF TurnInv

\* An event is taken and queued.  An agent_end that is taken is in the queue of the
\* turn that waits for it.
LEMMA ReadEventKeepsTurn ==
  ASSUME TypeOK, TurnInv, ReadEvent, UNCHANGED clientVars, reader' = "running"
  PROVE  TurnInv'
<1>1. /\ stdout # <<>> /\ stdout' = Tail(stdout) /\ Head(stdout).kind \in EventKind
      /\ UNCHANGED <<pc, turn, fut, piTurn, piText, armed, stdin>>
      /\ queue' = IF armed THEN Append(queue, Head(stdout)) ELSE queue
  BY DEF ReadEvent, ReaderTakes, ReaderEnds, clientVars, piVars
<1>2. /\ Head(stdout) = stdout[1] /\ 1 \in DOMAIN stdout
      /\ stdout[1].kind \in {"event", "agent_end"} /\ stdout[1] \in Event
  <2>1. Head(stdout) \in Line
    BY <1>1, PipeFacts DEF TypeOK, ProcessTypeOK, SeqClosed
  <2> QED
    BY <1>1, <2>1, TakenPlaces DEF Line, Event, EventKind, AllStrayKinds
<1>3. \A i \in Responses' : i \in Int /\ i + 1 \in Responses
  BY <1>1, TakenPlaces
<1>4. Flight'
  <2>1. \A i \in Commands' : i \in Int /\ i + 0 \in Commands /\ stdin'[i] = stdin[i + 0]
    <3>1. stdin \in Seq(Command)
      BY DEF TypeOK, ProcessTypeOK
    <3> QED
      BY <1>1, <3>1 DEF Commands
  <2> QED
    BY <1>1, <1>3, <2>1, FlightKept DEF TurnInv
<1>5. ~Quiet
  BY <1>2 DEF Quiet, OfTurn
<1>6. pc \notin {"idle", "text"}
  BY <1>5 DEF TurnInv
<1>7. /\ DOMAIN queue = 1..Len(queue) /\ Len(queue) \in Nat
      /\ armed => /\ DOMAIN queue' = 1..(Len(queue) + 1)
                  /\ \A i \in DOMAIN queue : queue'[i] = queue[i]
                  /\ queue'[Len(queue) + 1] = stdout[1]
  <2>1. queue \in Seq(Event)
    BY DEF TypeOK, ProtocolTypeOK
  <2> QED
    BY <1>1, <1>2, <2>1, AppendPlaces
<1>8. pc \in {"prompt", "event"} /\ UnderWay => UnderWay'
  <2>1. pc \in {"prompt", "event"} => armed
    BY DEF TurnInv
  <2>2. armed /\ EndIn(queue) => EndIn(queue)'
    BY <1>1, <1>7 DEF EndIn
  <2>3. ASSUME armed, NEW i \in DOMAIN stdout, stdout[i] = EventOf("agent_end", turn)
        PROVE  EndIn(stdout)' \/ EndIn(queue)'
    <3>1. CASE i = 1
      BY <1>1, <1>7, <2>3, <3>1 DEF EndIn
    <3>2. CASE i # 1
      BY <1>1, <2>3, <3>2, TakenPlaces DEF EndIn
    <3> QED
      BY <3>1, <3>2
  <2> QED
    BY <1>1, <2>1, <2>2, <2>3 DEF UnderWay, EndIn
<1>9. PromptPhase'
  <2>1. pc = "prompt" => Commands = {} /\ Commands' = {}
    BY <1>1, <1>5 DEF TurnInv, PromptPhase, Commands
  <2> QED
    BY <1>1, <1>3, <1>5, <1>8, <2>1, TakenPlaces DEF TurnInv, PromptPhase
<1>10. EndPhase'
  <2> SUFFICES ASSUME pc \in {"prompt", "event", "abort"} PROVE EndPhase'
    BY <1>1 DEF EndPhase
  <2>1. \A i \in DOMAIN stdout' : stdout'[i].kind = "agent_end" =>
             piTurn' = 0 /\ piText' = turn' /\ LastOfTurn(i)'
    BY <1>1, TakenPlaces DEF TurnInv, EndPhase
  <2>2. stdout[1].kind = "agent_end" => Quiet' /\ piText' = turn'
    <3>1. stdout[1].kind = "agent_end" => piTurn = 0 /\ piText = turn /\ LastOfTurn(1)
      BY <1>2 DEF TurnInv, EndPhase
    <3> QED
      BY <1>1, <3>1, TakenPlaces DEF LastOfTurn, Quiet, OfTurn
  <2>3. \A i \in DOMAIN queue : queue[i].kind # "agent_end"
    BY <1>5 DEF TurnInv, EndPhase
  <2>4. \A i \in DOMAIN queue' : queue'[i].kind = "agent_end" => Quiet' /\ piText' = turn'
    BY <1>1, <1>7, <2>2, <2>3
  <2> QED
    BY <2>1, <2>4 DEF EndPhase
<1>11. AbortPhase'
  BY <1>1, <1>3, <1>5, TakenPlaces DEF TurnInv, AbortPhase
<1> QED
  BY <1>1, <1>4, <1>6, <1>8, <1>9, <1>10, <1>11 DEF TurnInv, TextPhase

\* The reader, as long as it goes on.
LEMMA ReaderKeepsTurn ==
  ASSUME TypeOK, reader = "running" => TurnInv, ReaderStep, reader' = "running"
  PROVE  TurnInv'
<1>1. UNCHANGED clientVars /\ UNCHANGED <<pc, turn>>
  BY DEF ReaderStep, clientVars
<1>2. CASE ReadResponse
  BY <1>1, <1>2, ReadResponseKeepsTurn DEF ReadResponse, ReaderTakes
<1>3. CASE ReadEvent
  BY <1>1, <1>3, ReadEventKeepsTurn DEF ReadEvent, ReaderTakes
<1>4. CASE ReadDialog \/ ReadSkipped
  <2>1. /\ reader = "running" /\ stdout # <<>> /\ stdout' = Tail(stdout)
        /\ Head(stdout).kind \notin {"response", "agent_end"}
        /\ UNCHANGED <<fut, piTurn, piText, armed, queue>>
    BY <1>4 DEF ReadDialog, ReadSkipped, ReaderTakes, ReaderEnds, protocolVars, piVars
  <2>2. \A i \in Commands' : i \in Int /\ i \in Commands /\ stdin'[i] = stdin[i]
    <3> DEFINE c == [cmd |-> "ui_response", id |-> 0, turn |-> Head(stdout).turn]
    <3>1. stdin \in Seq(Command)
      BY DEF TypeOK, ProcessTypeOK
    <3>2. CASE UNCHANGED stdin
      BY <3>1, <3>2 DEF Commands
    <3>3. CASE ReadDialog /\ stdin' = Append(stdin, c)
      <4>1. Head(stdout) \in Line /\ Head(stdout).kind = "dialog"
        BY <2>1, <3>3, PipeFacts DEF ReadDialog, ReaderTakes, TypeOK, ProcessTypeOK, SeqClosed
      <4>2. c \in Command
        BY <4>1 DEF Line, Event, EventKind, AllStrayKinds, Command
      <4> QED
        BY <3>1, <3>3, <4>2, AppendPlaces DEF Commands
    <3> QED
      BY <1>4, <3>2, <3>3 DEF ReadDialog, ReadSkipped, Writes
  <2> QED
    BY <1>1, <2>1, <2>2, TakenKeepsTurn
<1>5. CASE ReadNonObject \/ ReadEof \/ ReaderCancelled
  BY <1>5 DEF ReadNonObject, ReadEof, ReaderCancelled, ReaderEnds
<1> QED
  BY <1>2, <1>3, <1>4, <1>5 DEF ReaderStep, ReaderNext

-----------------------------------------------------------------------------
(* The turn: PI *)

\* Every wait has a command of its own.
LEMMA AwaitedFacts ==
  ASSUME NEW p \in Waiting
  PROVE  /\ Awaited[p] = "prompt" => p = "prompt"
         /\ Awaited[p] = "abort" => p = "abort_ack"
         /\ Awaited[p] = "get_text" => p = "text"
  BY DEF Awaited, Waiting

\* PI takes a command: it is the awaited one, and no response is under way.
LEMMA TakesAwaited ==
  ASSUME TypeOK, TurnInv, NEW cmd, Takes(cmd), cmd # "ui_response"
  PROVE  /\ pc \in Waiting /\ cmd = Awaited[pc] /\ fut.st = "waiting"
         /\ Commands # {} /\ Commands' = {} /\ Responses = {} /\ Head(stdin).turn = turn
<1>1. stdin \in Seq(Command) /\ stdin # <<>> /\ stdin' = Tail(stdin) /\ Head(stdin).cmd = cmd
  BY DEF Takes, TypeOK, ProcessTypeOK
<1>2. 1 \in Commands /\ Head(stdin) = stdin[1]
  BY <1>1, TailPlaces DEF Commands
<1>3. Commands = {1} /\ fut.st = "waiting" /\ Responses = {}
      /\ stdin[1].cmd = Awaited[pc] /\ stdin[1].turn = turn
  BY <1>2 DEF TurnInv, Flight
<1>4. Commands' = {}
  BY <1>1, <1>3, TailPlaces DEF Commands
<1> QED
  BY <1>1, <1>2, <1>3, <1>4 DEF TurnInv, Flight

\* PI prints a line: it comes after the others.
LEMMA PrintedPlaces ==
  ASSUME TypeOK, NEW l \in Line, stdout' = Append(stdout, l)
  PROVE  /\ Len(stdout) \in Nat /\ DOMAIN stdout = 1..Len(stdout)
         /\ DOMAIN stdout' = 1..(Len(stdout) + 1)
         /\ \A i \in DOMAIN stdout : stdout'[i] = stdout[i]
         /\ stdout'[Len(stdout) + 1] = l
         /\ l.kind # "response" => Responses' = Responses
         /\ l.kind = "response" => Responses' = Responses \cup {Len(stdout) + 1}
         /\ \A i \in DOMAIN stdout' : i = Len(stdout) + 1 => LastOfTurn(i)'
         /\ ~OfTurn(l) => \A i \in DOMAIN stdout : LastOfTurn(i) => LastOfTurn(i)'
         /\ ~OfTurn(l) /\ Quiet /\ piTurn' = piTurn => Quiet'
         /\ EndIn(stdout) /\ turn' = turn => EndIn(stdout)'
<1>1. /\ Len(stdout) \in Nat /\ DOMAIN stdout = 1..Len(stdout)
      /\ DOMAIN stdout' = 1..(Len(stdout) + 1)
      /\ \A i \in DOMAIN stdout : stdout'[i] = stdout[i]
      /\ stdout'[Len(stdout) + 1] = l
  BY AppendPlaces DEF TypeOK, ProcessTypeOK
<1>2. l.kind # "response" => Responses' = Responses
  BY <1>1 DEF Responses
<1>3. l.kind = "response" => Responses' = Responses \cup {Len(stdout) + 1}
  BY <1>1 DEF Responses
<1>4. \A i \in DOMAIN stdout' : i = Len(stdout) + 1 => LastOfTurn(i)'
  BY <1>1 DEF LastOfTurn
<1>5. ~OfTurn(l) => \A i \in DOMAIN stdout : LastOfTurn(i) => LastOfTurn(i)'
  BY <1>1 DEF LastOfTurn, OfTurn
<1>6. ~OfTurn(l) /\ Quiet /\ piTurn' = piTurn => Quiet'
  BY <1>1 DEF Quiet, OfTurn
<1>7. EndIn(stdout) /\ turn' = turn => EndIn(stdout)'
  BY <1>1 DEF EndIn, EventOf
<1> QED
  BY <1>1, <1>2, <1>3, <1>4, <1>5, <1>6, <1>7

\* What PI does without touching the client, the reader or the protocol.
PiAlone == UNCHANGED <<pc, turn, fut, armed, queue>>

\* The answer of a dialog is taken, or PI exits: no command is new.
LEMMA StdinShrinks ==
  ASSUME TurnInv, PiAlone, UNCHANGED <<stdout, piTurn, piText>>,
         NEW a \in {0, 1},
         \A i \in Commands' : i \in Int /\ i + a \in Commands /\ stdin'[i] = stdin[i + a],
         stdout \in Seq(Line)
  PROVE  TurnInv'
<1>1. \A i \in Responses' : i \in Int /\ i + 0 \in Responses
  BY DEF Responses
<1>2. Flight'
  BY <1>1, FlightKept DEF TurnInv, PiAlone
<1>3. (Quiet' <=> Quiet) /\ (UnderWay' <=> UnderWay) /\ Responses' = Responses
      /\ (Commands' # {} => Commands # {})
  BY DEF Quiet, OfTurn, UnderWay, EndIn, EventOf, Responses, PiAlone
<1>4. PromptPhase' /\ TextPhase'
  BY <1>3 DEF TurnInv, PromptPhase, TextPhase, PiAlone
<1>5. EndPhase' /\ AbortPhase'
  BY <1>3 DEF TurnInv, EndPhase, AbortPhase, LastOfTurn, OfTurn, PiAlone
<1> QED
  BY <1>2, <1>3, <1>4, <1>5 DEF TurnInv, PiAlone

\* A line that is neither a response nor of a turn changes nothing.
LEMMA StrayKeepsTurn ==
  ASSUME TypeOK, TurnInv, PiAlone, PiPrintsStray
  PROVE  TurnInv'
<1>1. PICK k \in AllStrayKinds : stdout' = Append(stdout, [kind |-> k])
  BY PiProcessAssumption DEF PiPrintsStray
<1> DEFINE l == [kind |-> k]
<1>2. l \in Line /\ l.kind \notin {"response", "agent_end"} /\ ~OfTurn(l)
  BY RecordFacts DEF AllStrayKinds, OfTurn
<1>3. UNCHANGED <<pc, turn, fut, armed, queue, stdin, piTurn, piText>>
  BY DEF PiPrintsStray, PiAlone
<1>4. Responses' = Responses /\ Commands' = Commands
  BY <1>1, <1>2, <1>3, PrintedPlaces DEF Commands
<1>5. Flight'
  BY <1>3, <1>4 DEF TurnInv, Flight, Awaited
<1>6. (Quiet => Quiet') /\ (UnderWay => UnderWay')
  BY <1>1, <1>2, <1>3, PrintedPlaces DEF UnderWay, EndIn
<1>7. PromptPhase' /\ TextPhase'
  BY <1>1, <1>2, <1>3, <1>4, <1>6, PrintedPlaces DEF TurnInv, PromptPhase, TextPhase, Responses
<1>8. EndPhase' /\ AbortPhase'
  <2>1. \A i \in DOMAIN stdout' : stdout'[i].kind = "agent_end" => i \in DOMAIN stdout
    BY <1>1, <1>2, PrintedPlaces
  <2>2. Responses \subseteq DOMAIN stdout
    BY DEF Responses
  <2>3. EndPhase'
    BY <1>1, <1>2, <1>3, <1>6, <2>1, PrintedPlaces DEF TurnInv, EndPhase
  <2>4. AbortPhase'
    BY <1>1, <1>2, <1>3, <1>4, <1>6, <2>2, PrintedPlaces DEF TurnInv, AbortPhase
  <2> QED
    BY <2>3, <2>4
<1> QED
  BY <1>3, <1>5, <1>6, <1>7, <1>8 DEF TurnInv

\* A line of the running turn: no agent_end was printed yet and no command waits.
LEMMA TurnLineKeepsTurn ==
  ASSUME TypeOK, TurnInv, PiAlone, PiEmits \/ PiEndsTurn
  PROVE  TurnInv'
<1>1. piTurn = turn /\ piTurn # 0 /\ ~Quiet
  BY DEF TurnInv, PiEmits, PiEndsTurn, Quiet
<1>2. pc \in PC \ {"idle", "text"}
  BY <1>1 DEF TurnInv, TypeOK
<1>3. PICK k \in {"event", "dialog", "agent_end"} :
        /\ stdout' = Append(stdout, EventOf(k, turn))
        /\ k # "agent_end" => UNCHANGED <<piTurn, piText>>
        /\ k = "agent_end" => piTurn' = 0 /\ piText' = turn
  BY <1>1 DEF PiEmits, PiEndsTurn
<1> DEFINE l == EventOf(k, turn)
<1>4. l \in Line /\ l.kind = k
  BY RecordFacts DEF TypeOK, EventOf
<1>5. UNCHANGED <<pc, turn, fut, armed, queue, stdin>>
  BY DEF PiEmits, PiEndsTurn, PiAlone
<1>6. Responses' = Responses /\ Commands' = Commands
  BY <1>3, <1>4, <1>5, PrintedPlaces DEF Commands
<1>7. Flight'
  BY <1>5, <1>6 DEF TurnInv, Flight, Awaited
<1>8. UnderWay'
  <2>1. CASE k # "agent_end"
    BY <1>1, <1>3, <1>5, <2>1 DEF UnderWay
  <2>2. CASE k = "agent_end"
    BY <1>3, <1>4, <1>5, <2>2, PrintedPlaces DEF UnderWay, EndIn
  <2> QED
    BY <2>1, <2>2
<1>9. PromptPhase'
  BY <1>1, <1>3, <1>4, <1>5, <1>6, <1>8, PrintedPlaces DEF TurnInv, PromptPhase, Responses
<1>10. EndPhase'
  <2> SUFFICES ASSUME pc \in {"prompt", "event", "abort"} PROVE EndPhase'
    BY <1>5 DEF EndPhase
  <2>1. \A i \in DOMAIN stdout : stdout[i].kind # "agent_end"
    BY <1>1 DEF TurnInv, EndPhase
  <2>2. \A i \in DOMAIN queue' : queue'[i].kind # "agent_end"
    BY <1>1, <1>5 DEF TurnInv, EndPhase
  <2>3. \A i \in DOMAIN stdout' : stdout'[i].kind = "agent_end" => i = Len(stdout) + 1 /\ k = "agent_end"
    BY <1>3, <1>4, <2>1, PrintedPlaces
  <2>4. \A i \in DOMAIN stdout' : i = Len(stdout) + 1 => LastOfTurn(i)'
    BY <1>3, <1>4, PrintedPlaces
  <2>5. \A i \in DOMAIN stdout' : stdout'[i].kind = "agent_end" =>
             piTurn' = 0 /\ piText' = turn' /\ LastOfTurn(i)'
    BY <1>3, <1>5, <2>3, <2>4
  <2> QED
    BY <2>2, <2>5 DEF EndPhase
<1>11. AbortPhase'
  BY <1>1, <1>5, <1>6 DEF TurnInv, AbortPhase
<1> QED
  BY <1>1, <1>2, <1>3, <1>5, <1>7, <1>8, <1>9, <1>10, <1>11 DEF TurnInv, TextPhase

\* The prompt meets a PI that is idle, and its response is the first line of the turn.
LEMMA PromptTakenKeepsTurn ==
  ASSUME TypeOK, TurnInv, PiAlone, PiTakesPrompt
  PROVE  TurnInv'
<1>1. /\ pc = "prompt" /\ fut.st = "waiting" /\ Commands # {} /\ Commands' = {}
      /\ Responses = {} /\ Head(stdin).turn = turn
  BY TakesAwaited, AwaitedFacts DEF PiTakesPrompt
<1>2. Quiet /\ queue = <<>>
  BY <1>1 DEF TurnInv, PromptPhase
<1>3. PICK ok \in BOOLEAN :
        /\ stdout' = Append(stdout, Response(Head(stdin).id, ok, 0))
        /\ piTurn' = IF ok THEN turn ELSE piTurn
  BY <1>1 DEF PiTakesPrompt
<1> DEFINE l == Response(Head(stdin).id, ok, 0)
<1>4. l \in Line /\ l.kind = "response" /\ l.ok = ok /\ ~OfTurn(l)
  <2>1. Head(stdin) \in Command
    BY PipeFacts DEF PiTakesPrompt, Takes, TypeOK, ProcessTypeOK, SeqClosed
  <2> QED
    BY <2>1, RecordFacts, TurnFacts DEF Command, Response, OfTurn
<1>5. UNCHANGED <<pc, turn, fut, armed, queue, piText>>
  BY DEF PiTakesPrompt, PiAlone
<1>6. Responses' = {Len(stdout) + 1} /\ stdout'[Len(stdout) + 1] = l
  BY <1>1, <1>3, <1>4, PrintedPlaces
<1>7. Flight'
  BY <1>1, <1>5, <1>6 DEF TurnInv, Flight, Waiting
<1>8. IF ok THEN UnderWay' ELSE Quiet'
  BY <1>2, <1>3, <1>4, <1>5, PrintedPlaces DEF UnderWay
<1>9. PromptPhase'
  BY <1>1, <1>4, <1>5, <1>6, <1>8 DEF PromptPhase
<1>10. EndPhase'
  <2>1. \A i \in DOMAIN stdout' : stdout'[i].kind # "agent_end"
    BY <1>2, <1>3, <1>4, PrintedPlaces DEF Quiet, OfTurn
  <2> QED
    BY <1>2, <1>5, <2>1 DEF EndPhase
<1> QED
  BY <1>1, <1>2, <1>3, <1>5, <1>7, <1>9, <1>10 DEF TurnInv, Quiet, AbortPhase, TextPhase

\* PI ends the turn before it acknowledges the abort.
LEMMA AbortTakenKeepsTurn ==
  ASSUME AbortFlushes, TypeOK, TurnInv, PiAlone, PiTakesAbort
  PROVE  TurnInv'
<1>1. /\ pc = "abort_ack" /\ fut.st = "waiting" /\ Commands' = {} /\ Responses = {}
  BY TakesAwaited, AwaitedFacts DEF PiTakesAbort
<1>2. UNCHANGED <<pc, turn, fut, armed, queue, piText>>
  BY DEF PiTakesAbort, PiAlone
<1> DEFINE e == EventOf("agent_end", piTurn)
           r == Response(Head(stdin).id, TRUE, 0)
<1>3. r \in Line /\ r.kind = "response" /\ e \in Line /\ e.kind = "agent_end"
  <2>1. Head(stdin) \in Command
    BY PipeFacts DEF PiTakesAbort, Takes, TypeOK, ProcessTypeOK, SeqClosed
  <2> QED
    BY <2>1, RecordFacts, TurnFacts DEF Command, Response, EventOf, TypeOK, ProcessTypeOK
<1>4. PICK s \in Seq(Line) : /\ s = stdout \/ s = Append(stdout, e)
                             /\ stdout' = Append(s, r) /\ piTurn' = 0
  <2>1. stdout \in Seq(Line) /\ Append(stdout, e) \in Seq(Line)
    BY <1>3, PipeFacts DEF TypeOK, ProcessTypeOK, SeqClosed
  <2> QED
    BY <2>1 DEF PiTakesAbort
<1>5. /\ \A i \in DOMAIN s : s[i].kind # "response"
      /\ Len(s) \in Nat /\ DOMAIN s = 1..Len(s) /\ DOMAIN stdout' = 1..(Len(s) + 1)
      /\ \A i \in DOMAIN s : stdout'[i] = s[i]
      /\ stdout'[Len(s) + 1] = r
  <2>1. /\ Len(s) \in Nat /\ DOMAIN s = 1..Len(s) /\ DOMAIN stdout' = 1..(Len(s) + 1)
        /\ \A i \in DOMAIN s : stdout'[i] = s[i]
        /\ stdout'[Len(s) + 1] = r
    <3> HIDE DEF r
    <3> QED
      BY <1>3, <1>4, AppendPlaces
  <2>2. \A i \in DOMAIN stdout : stdout[i].kind # "response"
    BY <1>1 DEF Responses
  <2>3. s = Append(stdout, e) => \A i \in DOMAIN s : s[i].kind # "response"
    <3>1. stdout \in Seq(Line)
      BY DEF TypeOK, ProcessTypeOK
    <3>2. /\ DOMAIN Append(stdout, e) = 1..(Len(stdout) + 1) /\ DOMAIN stdout = 1..Len(stdout)
          /\ Len(stdout) \in Nat
          /\ \A i \in DOMAIN stdout : Append(stdout, e)[i] = stdout[i]
          /\ Append(stdout, e)[Len(stdout) + 1] = e
      BY <1>3, <3>1, AppendPlaces
    <3> QED
      BY <1>3, <2>2, <3>2
  <2> QED
    BY <1>4, <2>1, <2>2, <2>3
<1>6. Responses' = {Len(s) + 1} /\ \A i \in Responses' : LastOfTurn(i)'
  <2>1. \A i \in DOMAIN stdout' : stdout'[i].kind = "response" <=> i = Len(s) + 1
    <3>1. \A i \in DOMAIN stdout' : i \in DOMAIN s \/ i = Len(s) + 1
      BY <1>5
    <3>2. Len(s) + 1 \notin DOMAIN s /\ stdout'[Len(s) + 1].kind = "response"
      BY <1>3, <1>5
    <3>3. \A i \in DOMAIN s : stdout'[i].kind # "response"
      BY <1>5
    <3> QED
      BY <3>1, <3>2, <3>3
  <2>2. Responses' = {Len(s) + 1}
    BY <1>5, <2>1 DEF Responses
  <2>3. \A i \in Responses' : LastOfTurn(i)'
    BY <1>5, <2>2 DEF LastOfTurn
  <2> QED
    BY <2>2, <2>3
<1>7. Flight'
  BY <1>1, <1>2, <1>6 DEF TurnInv, Flight, Waiting
<1>8. AbortPhase'
  BY <1>1, <1>2, <1>4, <1>6 DEF AbortPhase
<1> QED
  BY <1>1, <1>2, <1>4, <1>7, <1>8 DEF TurnInv, PromptPhase, EndPhase, TextPhase

\* The last text is that of the turn, or there is none.
LEMMA GetTextTakenKeepsTurn ==
  ASSUME TypeOK, TurnInv, PiAlone, PiTakesGetText
  PROVE  TurnInv'
<1>1. pc = "text" /\ fut.st = "waiting" /\ Commands' = {} /\ Responses = {}
  BY TakesAwaited, AwaitedFacts DEF PiTakesGetText
<1>2. UNCHANGED <<pc, turn, fut, armed, queue, piTurn, piText>>
  BY DEF PiTakesGetText, PiAlone, piVars
<1>3. Quiet /\ piText = turn
  BY <1>1 DEF TurnInv, TextPhase
<1>4. PICK t \in {0, turn} : stdout' = Append(stdout, Response(Head(stdin).id, TRUE, t))
  BY <1>3 DEF PiTakesGetText
<1> DEFINE l == Response(Head(stdin).id, TRUE, t)
<1>5. l \in Line /\ l.kind = "response" /\ l.turn = t /\ ~OfTurn(l)
  <2>1. Head(stdin) \in Command /\ t \in Turn
    BY PipeFacts, TurnFacts DEF PiTakesGetText, Takes, TypeOK, ProcessTypeOK, SeqClosed
  <2> QED
    BY <2>1, RecordFacts DEF Command, Response, OfTurn
<1>6. Responses' = {Len(stdout) + 1} /\ stdout'[Len(stdout) + 1] = l /\ Quiet'
  BY <1>1, <1>2, <1>3, <1>4, <1>5, PrintedPlaces
<1>7. Flight'
  BY <1>1, <1>2, <1>6 DEF TurnInv, Flight, Waiting
<1>8. TextPhase'
  BY <1>1, <1>2, <1>3, <1>5, <1>6 DEF TextPhase
<1> QED
  BY <1>1, <1>2, <1>6, <1>7, <1>8 DEF TurnInv, PromptPhase, EndPhase, AbortPhase

\* PI, whatever it does.
LEMMA PiKeepsTurn ==
  ASSUME AbortFlushes, TypeOK, TurnInv, PiAnswers \/ PiActs
  PROVE  TurnInv'
<1>1. PiAlone
  BY DEF PiAnswers, PiActs, protocolVars, clientVars, PiAlone
<1>2. CASE PiTakesUiResponse
  <2>1. stdin \in Seq(Command) /\ stdin # <<>> /\ stdin' = Tail(stdin) /\ stdout \in Seq(Line)
        /\ UNCHANGED <<stdout, piTurn, piText>>
    BY <1>2 DEF PiTakesUiResponse, Takes, TypeOK, ProcessTypeOK
  <2>2. \A i \in Commands' : i \in Int /\ i + 1 \in Commands /\ stdin'[i] = stdin[i + 1]
    BY <2>1, TailPlaces DEF Commands
  <2> QED
    BY <1>1, <2>1, <2>2, StdinShrinks
<1>3. CASE PiExits
  <2>1. Commands' = {} /\ stdout \in Seq(Line) /\ UNCHANGED <<stdout, piTurn, piText>>
    BY <1>3 DEF PiExits, Commands, TypeOK, ProcessTypeOK, piVars
  <2> QED
    BY <1>1, <2>1, StdinShrinks
<1> QED
  BY <1>1, <1>2, <1>3, StrayKeepsTurn, TurnLineKeepsTurn, PromptTakenKeepsTurn,
     AbortTakenKeepsTurn, GetTextTakenKeepsTurn
     DEF PiAnswers, PiTakesCommand, PiActs

-----------------------------------------------------------------------------
(* The turn: the client *)

\* A command is sent when none is under way.
LEMMA FlightStarts ==
  ASSUME TypeOK, Commands = {}, Responses = {}, NEW cmd \in {"prompt", "abort", "get_text"},
         NEW t \in Turn, SendsCommand(cmd, t), UNCHANGED stdout,
         pc' \in Waiting, Awaited[pc'] = cmd, turn' = t
  PROVE  Flight' /\ fut'.st = "waiting" /\ Responses' = {}
<1> DEFINE c == [cmd |-> cmd, id |-> nextId + 1, turn |-> t]
<1>1. c \in Command
  BY DEF TypeOK, ProtocolTypeOK, Command
<1>2. fut'.st = "waiting" /\ Responses' = {}
  BY DEF SendsCommand, FutureIn, Responses
<1>3. \A i \in Commands' : /\ Commands' = {i}
                           /\ stdin'[i].cmd = cmd /\ stdin'[i].turn = t
  <2>1. CASE UNCHANGED stdin
    BY <2>1 DEF Commands
  <2>2. CASE stdin' = Append(stdin, c)
    <3>1. /\ Len(stdin) \in Nat /\ DOMAIN stdin = 1..Len(stdin)
          /\ DOMAIN stdin' = 1..(Len(stdin) + 1)
          /\ \A i \in DOMAIN stdin : stdin'[i] = stdin[i]
          /\ stdin'[Len(stdin) + 1] = c
      BY <1>1, <2>2, AppendPlaces DEF TypeOK, ProcessTypeOK
    <3>2. Commands' = {Len(stdin) + 1}
      BY <3>1 DEF Commands
    <3> QED
      BY <3>1, <3>2
  <2> QED
    BY <2>1, <2>2 DEF SendsCommand, Writes
<1> QED
  BY <1>2, <1>3 DEF Flight

\* A call ends while nothing of the turn is left.
LEMMA IdleTurn ==
  ASSUME Flight, Quiet, fut.st # "waiting", fut'.st \in {"none", "done"}, pc' = "idle",
         UNCHANGED <<stdin, stdout, piTurn>>
  PROVE  TurnInv'
<1>1. Commands = {} /\ Responses = {}
  BY DEF Flight
<1>2. Commands' = {} /\ Responses' = {} /\ Quiet'
  BY <1>1 DEF Commands, Responses, Quiet, OfTurn
<1>3. Flight'
  BY <1>2 DEF Flight
<1> QED
  BY <1>2, <1>3 DEF TurnInv, Quiet, PromptPhase, EndPhase, AbortPhase, TextPhase

\* A call begins on a quiet client.
LEMMA PromptKeepsTurn ==
  ASSUME TypeOK, Control, TurnInv, reader = "running", Prompt
  PROVE  TurnInv'
<1>1. pc = "idle" /\ UNCHANGED <<stdout, piTurn, piText>> /\ turn' = turn + 1 /\ turn + 1 \in Turn
  BY TurnFacts DEF Prompt, piVars, TypeOK
<1>2. alive
  BY <1>1 DEF Control, Closing
<1>3. Flight /\ fut.st # "waiting" /\ Quiet /\ Commands = {} /\ Responses = {}
  BY <1>1 DEF TurnInv, Flight, Waiting
<1>4. CASE SendsCommand("prompt", turn + 1) /\ BeginTurn /\ pc' = "prompt"
  <2>1. Flight' /\ fut'.st = "waiting" /\ Responses' = {}
    BY <1>1, <1>3, <1>4, FlightStarts DEF Awaited, Waiting
  <2>2. Quiet'
    BY <1>1, <1>3 DEF Quiet, OfTurn
  <2>3. armed' /\ queue' = <<>>
    BY <1>4 DEF BeginTurn
  <2>4. EndPhase'
    BY <2>2, <2>3 DEF EndPhase, Quiet, OfTurn
  <2> QED
    BY <1>4, <2>1, <2>2, <2>3, <2>4 DEF TurnInv, Quiet, PromptPhase, AbortPhase, TextPhase
<1>5. CASE SendRaises /\ Ends(Port!OtherError)
  BY <1>1, <1>3, <1>5, IdleTurn DEF SendRaises, FutureIn, Ends
<1> QED
  BY <1>2, <1>4, <1>5 DEF Prompt, SendRefused

\* The client waits for events, until one of them is the agent_end.
LEMMA TakesEventKeepsTurn ==
  ASSUME TypeOK, Control, TurnInv, reader = "running", TakesEvent
  PROVE  TurnInv'
<1>1. pc = "event" /\ queue # <<>> /\ UNCHANGED <<stdout, piTurn, piText, turn>> /\ turn \in Turn
  BY DEF TakesEvent, piVars, TypeOK
<1>2. alive
  BY <1>1 DEF Control, Closing
<1>3. Flight /\ fut.st # "waiting" /\ Commands = {} /\ Responses = {}
  BY <1>1 DEF TurnInv, Flight, Waiting
<1>4. queue \in Seq(Event)
  BY DEF TypeOK, ProtocolTypeOK
<1>5. CASE Head(queue).kind = "agent_end"
  <2>1. Quiet /\ piText = turn
    BY <1>1, <1>4, <1>5, TailPlaces DEF TurnInv, EndPhase
  <2>2. CASE SendsCommand("get_text", turn) /\ pc' = "text"
    <3>1. Flight' /\ fut'.st = "waiting" /\ Responses' = {}
      BY <1>1, <1>3, <2>2, FlightStarts DEF Awaited, Waiting
    <3>2. Quiet' /\ piText' = turn'
      BY <1>1, <2>1 DEF Quiet, OfTurn
    <3> QED
      BY <2>2, <3>1, <3>2 DEF TurnInv, Quiet, PromptPhase, EndPhase, AbortPhase, TextPhase
  <2>3. CASE SendRaises /\ Ends(Port!OtherError)
    BY <1>1, <1>3, <2>1, <2>3, IdleTurn DEF SendRaises, FutureIn, Ends
  <2> QED
    BY <1>2, <1>5, <2>2, <2>3 DEF TakesEvent, SendRefused
<1>6. CASE Head(queue).kind # "agent_end"
  <2>1. queue' = Tail(queue) /\ UNCHANGED <<stdin, fut, armed, pc>>
    BY <1>6 DEF TakesEvent
  <2>2. /\ Head(queue) = queue[1]
        /\ \A i \in DOMAIN queue : i # 1 => i - 1 \in DOMAIN queue' /\ queue'[i - 1] = queue[i]
    BY <1>1, <1>4, <2>1, TailPlaces
  <2>3. \A i \in DOMAIN queue' : i + 1 \in DOMAIN queue /\ queue'[i] = queue[i + 1]
    BY <1>1, <1>4, <2>1, TailPlaces
  <2>4. EndIn(queue) => EndIn(queue)'
    BY <1>1, <1>6, <2>2 DEF EndIn, EventOf
  <2>5. Commands' = {} /\ Responses' = {} /\ (Quiet => Quiet')
    BY <1>1, <1>3, <2>1 DEF Commands, Responses, Quiet, OfTurn
  <2>6. Flight'
    BY <1>1, <1>3, <2>1, <2>5 DEF Flight
  <2>7. UnderWay'
    BY <1>1, <2>4 DEF TurnInv, UnderWay, EndIn
  <2>8. EndPhase'
    <3>1. \A i \in DOMAIN stdout' : stdout'[i].kind = "agent_end" =>
             piTurn' = 0 /\ piText' = turn' /\ LastOfTurn(i)'
      BY <1>1 DEF TurnInv, EndPhase, LastOfTurn, OfTurn
    <3>2. \A i \in DOMAIN queue' : queue'[i].kind = "agent_end" => Quiet' /\ piText' = turn'
      BY <1>1, <2>3, <2>5 DEF TurnInv, EndPhase
    <3> QED
      BY <3>1, <3>2 DEF EndPhase
  <2> QED
    BY <1>1, <2>1, <2>6, <2>7, <2>8 DEF TurnInv, PromptPhase, AbortPhase, TextPhase
<1> QED
  BY <1>5, <1>6

\* The other steps of a call, on a client that is not being stopped.
LEMMA CallKeepsTurn ==
  ASSUME TypeOK, Control, TurnInv, reader = "running", reader' = "running",
         PromptAnswered \/ TurnTimesOut \/ SendsAbort \/ AbortAcknowledged \/ TextAnswered
  PROVE  TurnInv'
<1>1. UNCHANGED <<stdout, piTurn, piText, turn>> /\ turn \in Turn
  BY DEF PromptAnswered, TurnTimesOut, SendsAbort, AbortAcknowledged, TextAnswered, processVars,
     piVars, TypeOK
<1>2. Flight /\ fut.st # "failed"
  BY DEF TurnInv, Flight
<1>3. (Quiet => Quiet') /\ \A i \in DOMAIN stdout : LastOfTurn(i) => LastOfTurn(i)'
  BY <1>1 DEF Quiet, LastOfTurn, OfTurn
<1>4. CASE AbortAcknowledged \/ TextAnswered \/ (PromptAnswered /\ ~fut.ok)
  <2>1. fut.st = "done" /\ Quiet
    BY <1>2, <1>4 DEF AbortAcknowledged, TextAnswered, PromptAnswered, TurnInv, AbortPhase, PromptPhase
  <2>2. pc' = "idle" /\ UNCHANGED <<stdin, fut>>
    BY <1>2, <1>4 DEF AbortAcknowledged, TextAnswered, PromptAnswered, Ends, processVars
  <2> QED
    BY <1>1, <1>2, <2>1, <2>2, IdleTurn
<1>5. CASE (PromptAnswered /\ fut.ok) \/ TurnTimesOut
  <2>1. /\ UNCHANGED <<stdin, fut, armed, queue>> /\ fut.st # "waiting" /\ armed
        /\ pc \in {"prompt", "event"} /\ UnderWay /\ pc' \in {"event", "abort"}
    BY <1>2, <1>5 DEF PromptAnswered, TurnTimesOut, processVars, protocolVars, TurnInv, PromptPhase,
       Flight, Waiting
  <2>2. Commands = {} /\ Responses = {}
    BY <2>1 DEF TurnInv, Flight
  <2>3. Flight'
    BY <1>1, <1>2, <2>1, <2>2 DEF Flight, Commands, Responses
  <2>4. UnderWay'
    BY <1>1, <2>1 DEF UnderWay, EndIn, EventOf
  <2>5. EndPhase'
    BY <1>1, <1>3, <2>1 DEF TurnInv, EndPhase
  <2> QED
    BY <1>1, <2>1, <2>3, <2>4, <2>5 DEF TurnInv, PromptPhase, AbortPhase, TextPhase
<1>6. CASE SendsAbort
  <2>1. SendsCommand("abort", turn) /\ pc' = "abort_ack" /\ pc = "abort" /\ UNCHANGED armed
    BY <1>6 DEF SendsAbort, BeginsStop
  <2>2. Commands = {} /\ Responses = {}
    BY <2>1 DEF TurnInv, Flight, Waiting
  <2>3. Flight' /\ fut'.st = "waiting" /\ Responses' = {}
    BY <1>1, <2>1, <2>2, FlightStarts DEF Awaited, Waiting
  <2> QED
    BY <1>1, <2>1, <2>3 DEF TurnInv, PromptPhase, EndPhase, AbortPhase, TextPhase
<1> QED
  BY <1>4, <1>5, <1>6

\* The client: a step of teardown leaves no reader that runs.
LEMMA ClientKeepsTurn ==
  ASSUME TypeOK, Control, reader = "running" => TurnInv, reader' = "running",
         Prompt \/ ClientStep \/ Timers \/ Stop
  PROVE  TurnInv'
<1>1. reader = "running"
  BY DEF Prompt, ClientStep, PromptAnswered, TakesEvent, SendsAbort, BeginsStop, AbortAcknowledged,
     TextAnswered, StopReturns, EndsStop, StopRaises, Timers, TurnTimesOut, AbortEscalates,
     Kills, protocolVars, Stop
<1>2. TurnInv /\ pc \notin Closing /\ pipe = "open"
  BY <1>1 DEF Control
<1>3. CASE AbortEscalates \/ Stop
  BY <1>1, <1>3 DEF AbortEscalates, Stop, BeginsStop
<1>4. CASE Kills \/ StopReturns \/ StopRaises
  BY <1>2, <1>4 DEF Kills, KillAfterTimeout, StopReturns, EndsStop, StopRaises, KillFindsNone, Reaped
<1> QED
  BY <1>1, <1>2, <1>3, <1>4, PromptKeepsTurn, TakesEventKeepsTurn, CallKeepsTurn
     DEF ClientStep, Timers

-----------------------------------------------------------------------------
(* The theorems *)

\* The initial state of the client satisfies the invariant.
LEMMA InitTurn == Init => IInv
<1> SUFFICES ASSUME Init PROVE IInv
  OBVIOUS
<1>1. TypeOK
  BY InitTypes
<1>2. Commands = {} /\ Responses = {} /\ Quiet
  BY DEF Init, ProcessInit, Commands, Responses, Quiet
<1>3. Flight
  BY <1>2 DEF Init, ProtocolInit, FutureIn, Flight
<1>4. TurnInv
  BY <1>2, <1>3 DEF Init, TurnInv, Quiet, PromptPhase, EndPhase, AbortPhase, TextPhase
<1>5. Control /\ Answer
  BY DEF Init, ProcessInit, ProtocolInit, Control, Closing, Answer, ReplyMatchesPrompt
<1> QED
  BY <1>1, <1>4, <1>5 DEF IInv

\* The invariant is inductive, if PI flushes aborted turns.
LEMMA NextTurn ==
  ASSUME AbortFlushes, IInv, [Next]_vars
  PROVE  IInv'
<1>1. TypeOK /\ Control /\ Answer /\ (reader = "running" => TurnInv)
  BY DEF IInv
<1>2. TypeOK'
  BY <1>1, NextTypes
<1>3. Control' /\ Answer'
  BY <1>1, PromptControl, ClientControl, ReaderControl, PiControl DEF Next
<1>4. reader' = "running" => TurnInv'
  <2> SUFFICES ASSUME reader' = "running" PROVE TurnInv'
    OBVIOUS
  <2>1. CASE Prompt \/ ClientStep \/ Timers \/ Stop
    BY <1>1, <2>1, ClientKeepsTurn
  <2>2. CASE ReaderStep
    BY <1>1, <2>2, ReaderKeepsTurn
  <2>3. CASE PiAnswers \/ PiActs
    <3>1. reader' = reader
      BY <2>3 DEF PiAnswers, PiActs, protocolVars
    <3> QED
      BY <1>1, <2>3, <3>1, PiKeepsTurn
  <2>4. CASE UNCHANGED vars
    BY <1>1, <2>4 DEF vars, processVars, protocolVars, clientVars, TurnInv, Flight, Commands, Responses,
       Quiet, OfTurn, UnderWay, EndIn, EventOf, PromptPhase, EndPhase, LastOfTurn, AbortPhase, TextPhase
  <2> QED
    BY <2>1, <2>2, <2>3, <2>4 DEF Next
<1> QED
  BY <1>2, <1>3, <1>4 DEF IInv

\* The invariant holds of the specification.
LEMMA TurnInvariant == ASSUME AbortFlushes PROVE Spec => []IInv
<1>1. IInv /\ [Next]_vars => IInv'
  BY NextTurn
<1> QED
  BY <1>1, InitTurn, PTL DEF Spec

\* A call that returns a text returns that of its own prompt or the empty one,
\* whatever timed out, was aborted, crashed or was printed late, for every number of
\* turns and every size of pipe and queue.
THEOREM RepliesMatchPrompts == ASSUME AbortFlushes PROVE Spec => []ReplyMatchesPrompt
<1>1. IInv => ReplyMatchesPrompt
  BY DEF IInv, Answer
<1> QED
  BY <1>1, TurnInvariant, PTL

\* A turn that PI has finished has its agent_end on the way or in the queue.
THEOREM EndsAreNotMissed == ASSUME AbortFlushes PROVE Spec => []EndNeverMissed
<1>1. IInv => EndNeverMissed
  <2> SUFFICES ASSUME IInv, pc = "event", reader = "running", piTurn # turn
               PROVE  \E q \in {stdout, queue} : \E i \in DOMAIN q : q[i] = EventOf("agent_end", turn)
    BY DEF EndNeverMissed
  <2>1. EndIn(stdout) \/ EndIn(queue)
    BY DEF IInv, TurnInv, UnderWay
  <2> QED
    BY <2>1 DEF EndIn
<1> QED
  BY <1>1, TurnInvariant, PTL

\* Between two calls on a live client PI is idle and the pipes are clear.
THEOREM QuietBetween == ASSUME AbortFlushes PROVE Spec => []QuietBetweenTurns
<1>1. IInv => QuietBetweenTurns
  <2> SUFFICES ASSUME IInv, pc = "idle", alive
               PROVE  /\ piTurn = 0
                      /\ \A i \in DOMAIN stdout : stdout[i].kind \in AllStrayKinds
                      /\ \A i \in DOMAIN stdin : stdin[i].cmd = "ui_response"
    BY DEF QuietBetweenTurns
  <2>1. TurnInv /\ stdout \in Seq(Line)
    BY DEF IInv, Control, Closing, TypeOK, ProcessTypeOK
  <2>2. Quiet /\ Commands = {} /\ Responses = {}
    BY <2>1 DEF TurnInv, Flight, Waiting
  <2>3. \A i \in DOMAIN stdout : stdout[i].kind \in AllStrayKinds
    <3>1. \A i \in DOMAIN stdout : stdout[i] \in Line
      BY <2>1, LenProperties, ElementOfSeq
    <3> QED
      BY <2>2, <3>1 DEF Line, Event, EventKind, Quiet, OfTurn, Responses
  <2> QED
    BY <2>2, <2>3 DEF Quiet, Commands
<1> QED
  BY <1>1, TurnInvariant, PTL

\* Every step of the adapter is a step of its port or changes nothing the port shows:
\* the calls come back in order, with their own text or an error, and after the client
\* is torn down no call returns a text.
THEOREM ClientImplementsPort == ASSUME AbortFlushes PROVE Spec => ImplementsAgentClient
<1>1. Init => Port!Init
  BY DEF Init, ProcessInit, Port!Init
<1>2. ASSUME IInv, [Next]_vars PROVE [Port!Next]_(Port!avars)
  <2>1. TypeOK /\ Control /\ Answer /\ turn \in Int /\ (turn < MaxTurns => turn + 1 \in Turn)
    BY <1>2, TurnFacts DEF IInv, TypeOK
  <2>2. ASSUME NEW r \in Port!Errors, Ends(r), UNCHANGED turn,
               pc \notin {"idle", "stop_close", "stopped"}, (pipe' = "open") <=> (pipe = "open")
        PROVE  Port!ReturnsError
    BY <2>1, <2>2 DEF Ends, Control, Port!ReturnsError, Port!Busy
  <2>3. Port!AgentError \in Port!Errors /\ Port!OtherError \in Port!Errors
    BY DEF Port!Errors
  <2>4. CASE Prompt
    <3>1. pc = "idle" /\ turn' = turn + 1 /\ turn < MaxTurns /\ UNCHANGED pipe /\ ~Port!Busy
      BY <2>1, <2>4 DEF Prompt, procVars, Control, Port!Busy
    <3>2. CASE SendsCommand("prompt", turn + 1) /\ UNCHANGED outcome
      BY <2>1, <3>1, <3>2 DEF SendsCommand, Control, Closing, Port!Next, Port!Call
    <3>3. CASE Ends(Port!OtherError) \/ Ends(Port!AgentError)
      BY <2>3, <3>1, <3>3 DEF Ends, Port!Next, Port!CallFails
    <3> QED
      BY <2>4, <3>2, <3>3 DEF Prompt
  <2>5. CASE TextAnswered
    <3>1. pc = "text" /\ UNCHANGED <<turn, pipe>> /\ pipe = "open" /\ Port!Busy
      BY <2>1, <2>5 DEF TextAnswered, processVars, Control, Closing, Port!Busy
    <3>2. CASE fut.st = "done" /\ Ends(Port!Text(fut.turn))
      <4>1. fut.turn \in {0, turn}
        BY <2>1, <3>1, <3>2 DEF Answer
      <4> QED
        BY <3>1, <3>2, <4>1 DEF Ends, Port!Next, Port!ReturnsText
    <3> QED
      BY <2>2, <2>3, <2>5, <3>1, <3>2 DEF TextAnswered, Port!Next
  <2>6. CASE PromptAnswered \/ TakesEvent \/ AbortAcknowledged
    <3>1. UNCHANGED <<turn, pipe>> /\ pc \in {"prompt", "event", "abort_ack"}
      BY <2>6 DEF PromptAnswered, TakesEvent, AbortAcknowledged, processVars, procVars
    <3>2. UNCHANGED outcome \/ Ends(Port!AgentError) \/ Ends(Port!OtherError)
      BY <2>6 DEF PromptAnswered, TakesEvent, AbortAcknowledged
    <3> QED
      BY <2>2, <2>3, <3>1, <3>2 DEF Port!Next, Port!avars
  <2>7. CASE SendsAbort \/ AbortEscalates \/ Stop \/ TurnTimesOut \/ Kills
    <3>1. UNCHANGED <<turn, outcome>> /\ (UNCHANGED pipe \/ pipe' = "closing")
      BY <2>7 DEF SendsAbort, AbortEscalates, Stop, BeginsStop, CloseStdin, TurnTimesOut, Kills,
         KillAfterTimeout, processVars, clientVars
    <3> QED
      BY <3>1 DEF Port!Next, Port!TearDown, Port!avars
  <2>8. CASE StopReturns \/ StopRaises
    <3>1. UNCHANGED turn /\ pipe = "closing" /\ pipe' = "closed"
      BY <2>8 DEF StopReturns, EndsStop, StopRaises, KillFindsNone, Reaped
    <3>2. \/ pc = "abort_close" /\ (Ends(Port!AgentError) \/ Ends(Port!OtherError))
          \/ UNCHANGED outcome
      BY <2>8 DEF StopReturns, StopRaises
    <3> QED
      BY <2>2, <2>3, <3>1, <3>2 DEF Port!Next, Port!avars
  <2>9. CASE ReaderStep \/ PiAnswers \/ PiActs \/ UNCHANGED vars
    <3>1. UNCHANGED <<turn, outcome, pipe>>
      BY <2>9 DEF ReaderStep, ReaderNext, ReadResponse, ReadEvent, ReadDialog, ReadSkipped,
         ReadNonObject, ReadEof, ReaderCancelled, PiAnswers, PiTakesCommand, PiTakesPrompt,
         PiTakesAbort, PiTakesGetText, PiTakesUiResponse, PiActs, PiEmits, PiEndsTurn,
         PiPrintsStray, PiExits, processVars, procVars, clientVars, vars
    <3> QED
      BY <3>1 DEF Port!avars
  <2> QED
    BY <1>2, <2>4, <2>5, <2>6, <2>7, <2>8, <2>9 DEF Next, ClientStep, Timers
<1> QED
  BY <1>1, <1>2, TurnInvariant, PTL DEF Spec, ImplementsAgentClient, Port!Spec

-----------------------------------------------------------------------------
(* Dialogs *)

\* The request of the dialog that PI waits in, and its answer.
Asked == \E i \in DOMAIN stdout : stdout[i] = EventOf("dialog", piTurn)
AnswerSent == \E i \in DOMAIN stdin : stdin[i].cmd = "ui_response" /\ stdin[i].turn = piTurn

\* Only a turn opens dialogs, and one that is open is being answered.
DialogInv ==
    /\ piDialog => piTurn # 0
    /\ piDialog /\ proc = "running" /\ reader = "running" => Asked \/ AnswerSent

\* A pipe that a line is appended to keeps what is in it.
LEMMA DialogAppend ==
  ASSUME TypeOK, UNCHANGED piTurn
  PROVE  /\ \A l \in Line : Asked /\ stdout' = Append(stdout, l) => Asked'
         /\ \A c \in Command : AnswerSent /\ stdin' = Append(stdin, c) => AnswerSent'
         /\ \A c \in Command : stdin' = Append(stdin, c) /\ c.cmd = "ui_response" /\ c.turn = piTurn
                                 => AnswerSent'
         /\ \A l \in Line : stdout' = Append(stdout, l) /\ l = EventOf("dialog", piTurn) => Asked'
         /\ UNCHANGED stdout /\ Asked => Asked'
         /\ UNCHANGED stdin /\ AnswerSent => AnswerSent'
<1>1. stdout \in Seq(Line) /\ stdin \in Seq(Command)
  BY DEF TypeOK, ProcessTypeOK
<1>2. ASSUME NEW l \in Line, stdout' = Append(stdout, l)
      PROVE  (Asked => Asked') /\ (l = EventOf("dialog", piTurn) => Asked')
  <2>1. /\ \A i \in DOMAIN stdout : i \in DOMAIN stdout' /\ stdout'[i] = stdout[i]
        /\ \E i \in DOMAIN stdout' : stdout'[i] = l
    <3>1. Len(stdout) + 1 \in 1..(Len(stdout) + 1)
      BY <1>1, LenProperties
    <3> QED
      BY <1>1, <1>2, <3>1, AppendPlaces
  <2> QED
    BY <2>1 DEF Asked, EventOf
<1>3. ASSUME NEW c \in Command, stdin' = Append(stdin, c)
      PROVE  (AnswerSent => AnswerSent') /\ (c.cmd = "ui_response" /\ c.turn = piTurn => AnswerSent')
  <2>1. /\ \A i \in DOMAIN stdin : i \in DOMAIN stdin' /\ stdin'[i] = stdin[i]
        /\ \E i \in DOMAIN stdin' : stdin'[i] = c
    <3>1. Len(stdin) + 1 \in 1..(Len(stdin) + 1)
      BY <1>1, LenProperties
    <3> QED
      BY <1>1, <1>3, <3>1, AppendPlaces
  <2> QED
    BY <2>1 DEF AnswerSent
<1>4. /\ UNCHANGED stdout /\ Asked => Asked'
      /\ UNCHANGED stdin /\ AnswerSent => AnswerSent'
  BY DEF Asked, AnswerSent, EventOf
<1>5. /\ \A l \in Line : Asked /\ stdout' = Append(stdout, l) => Asked'
      /\ \A l \in Line : stdout' = Append(stdout, l) /\ l = EventOf("dialog", piTurn) => Asked'
  BY <1>2
<1>6. /\ \A c \in Command : AnswerSent /\ stdin' = Append(stdin, c) => AnswerSent'
      /\ \A c \in Command : stdin' = Append(stdin, c) /\ c.cmd = "ui_response" /\ c.turn = piTurn
                              => AnswerSent'
  BY <1>3
<1> QED
  BY <1>4, <1>5, <1>6

\* The client sends commands and takes nothing.
LEMMA ClientDialog ==
  ASSUME TypeOK, DialogInv, Prompt \/ ClientStep \/ Timers \/ Stop
  PROVE  DialogInv'
<1>1. UNCHANGED <<stdout, piTurn, piDialog>>
  BY DEF Prompt, ClientStep, PromptAnswered, TakesEvent, SendsAbort, BeginsStop, AbortAcknowledged,
     TextAnswered, StopReturns, EndsStop, Reaped, StopRaises, KillFindsNone, Timers, TurnTimesOut,
     AbortEscalates, Kills, KillAfterTimeout, Stop, CloseStdin, processVars, piVars
<1>2. proc' = "running" /\ reader' = "running" => proc = "running" /\ reader = "running"
  BY DEF Prompt, ClientStep, PromptAnswered, TakesEvent, SendsAbort, BeginsStop, AbortAcknowledged,
     TextAnswered, StopReturns, EndsStop, Reaped, StopRaises, KillFindsNone, Timers, TurnTimesOut,
     AbortEscalates, Kills, KillAfterTimeout, Stop, processVars, procVars, protocolVars
<1>3. proc' = "running" => UNCHANGED stdin \/ \E c \in Command : stdin' = Append(stdin, c)
  <2>1. ASSUME NEW cmd \in {"prompt", "abort", "get_text"}, NEW t \in Turn, SendsCommand(cmd, t)
        PROVE  UNCHANGED stdin \/ \E c \in Command : stdin' = Append(stdin, c)
    <3>1. [cmd |-> cmd, id |-> nextId + 1, turn |-> t] \in Command
      BY DEF Command, TypeOK, ProtocolTypeOK
    <3> QED
      BY <2>1, <3>1 DEF SendsCommand, Writes
  <2>2. turn \in Turn /\ (turn < MaxTurns => turn + 1 \in Turn)
    BY TurnFacts DEF TypeOK
  <2>3. CASE Prompt
    BY <2>1, <2>2, <2>3 DEF Prompt, SendRaises, SendRefused
  <2>4. CASE TakesEvent
    BY <2>1, <2>2, <2>4 DEF TakesEvent, SendRaises, SendRefused
  <2>5. CASE SendsAbort
    BY <2>1, <2>2, <2>5 DEF SendsAbort, SendRaises, SendRefused
  <2>6. CASE PromptAnswered \/ AbortAcknowledged \/ TextAnswered \/ StopReturns \/ StopRaises
             \/ TurnTimesOut \/ AbortEscalates \/ Stop
    BY <2>6 DEF PromptAnswered, AbortAcknowledged, TextAnswered, StopReturns, EndsStop, Reaped,
       StopRaises, KillFindsNone, TurnTimesOut, AbortEscalates, Stop, processVars
  <2>7. CASE Kills
    BY <2>7 DEF Kills, KillAfterTimeout
  <2> QED
    BY <2>3, <2>4, <2>5, <2>6, <2>7 DEF ClientStep, Timers
<1>4. Asked => Asked'
  BY <1>1 DEF Asked, EventOf
<1>5. proc' = "running" /\ AnswerSent => AnswerSent'
  BY <1>1, <1>3, DialogAppend
<1> QED
  BY <1>1, <1>2, <1>4, <1>5 DEF DialogInv

\* The reader answers the dialog it takes.
LEMMA ReaderDialog ==
  ASSUME TypeOK, DialogInv, ReaderStep
  PROVE  DialogInv'
<1>1. UNCHANGED <<piTurn, piDialog, proc>>
  BY DEF ReaderStep, ReaderNext, ReadResponse, ReadEvent, ReadDialog, ReadSkipped,
     ReadNonObject, ReadEof, ReaderCancelled, processVars, procVars, piVars
<1>2. CASE reader' # "running"
  BY <1>1, <1>2 DEF DialogInv
<1>3. CASE reader' = "running" /\ proc = "running" /\ piDialog
  <2>1. /\ reader = "running" /\ stdout # <<>> /\ stdout' = Tail(stdout)
        /\ UNCHANGED stdin \/ ReadDialog
    BY <1>3 DEF ReaderStep, ReaderNext, ReadResponse, ReadEvent, ReadDialog, ReadSkipped,
       ReadNonObject, ReadEof, ReaderCancelled, ReaderTakes, ReaderEnds
  <2>2. Head(stdout).kind = "dialog" =>
          /\ Head(stdout) \in Line
          /\ stdin' = Append(stdin, [cmd |-> "ui_response", id |-> 0, turn |-> Head(stdout).turn])
    <3>1. Head(stdout) \in Line
      BY <2>1, PipeFacts DEF TypeOK, ProcessTypeOK, SeqClosed
    <3>2. Head(stdout).kind = "dialog" => ReadDialog
      BY <1>3, <2>1 DEF ReaderStep, ReaderNext, ReadResponse, ReadEvent, ReadSkipped,
         ReadNonObject, ReadEof, ReaderCancelled, ReaderTakes, ReaderEnds, EventKind
    <3> QED
      BY <1>3, <3>1, <3>2 DEF ReadDialog, Writes, WriteMayFail
  <2>3. ReadDialog => Head(stdout).kind = "dialog"
    BY DEF ReadDialog, ReaderTakes
  <2>4. AnswerSent => AnswerSent'
    <3>1. CASE UNCHANGED stdin
      BY <1>1, <3>1 DEF AnswerSent
    <3>2. CASE Head(stdout).kind = "dialog"
      <4> DEFINE c == [cmd |-> "ui_response", id |-> 0, turn |-> Head(stdout).turn]
      <4>1. c \in Command
        BY <2>2, <3>2 DEF Line, Event, EventKind, AllStrayKinds, Command
      <4> QED
        BY <1>1, <2>2, <3>2, <4>1, DialogAppend
    <3> QED
      BY <2>1, <2>3, <3>1, <3>2
  <2>5. Asked => Asked' \/ AnswerSent'
    <3> SUFFICES ASSUME NEW i \in DOMAIN stdout, stdout[i] = EventOf("dialog", piTurn)
                 PROVE  Asked' \/ AnswerSent'
      BY DEF Asked
    <3>1. CASE i # 1
      <4>1. \E j \in DOMAIN stdout' : stdout'[j] = stdout[i]
        BY <2>1, <3>1, TakenPlaces
      <4> QED
        BY <1>1, <4>1 DEF Asked, EventOf
    <3>2. CASE i = 1
      <4> DEFINE c == [cmd |-> "ui_response", id |-> 0, turn |-> Head(stdout).turn]
      <4>1. Head(stdout) = EventOf("dialog", piTurn)
        BY <2>1, <3>2, TakenPlaces
      <4>2. c \in Command /\ c.turn = piTurn /\ stdin' = Append(stdin, c)
        BY <2>2, <4>1 DEF EventOf, Command, TypeOK, ProcessTypeOK
      <4> QED
        BY <1>1, <4>2, DialogAppend
    <3> QED
      BY <3>1, <3>2
  <2> QED
    BY <1>1, <1>3, <2>1, <2>4, <2>5 DEF DialogInv
<1> QED
  BY <1>1, <1>2, <1>3 DEF DialogInv

\* PI opens a dialog with its request, and takes the answer.
LEMMA PiDialog ==
  ASSUME TypeOK, DialogInv, PiAnswers \/ PiActs
  PROVE  DialogInv'
<1>1. UNCHANGED reader
  BY DEF PiAnswers, PiActs, protocolVars
<1>2. stdout \in Seq(Line) /\ stdin \in Seq(Command)
  BY DEF TypeOK, ProcessTypeOK
<1>3. ASSUME NEW cmd, Takes(cmd), UNCHANGED piTurn,
             cmd # "ui_response" \/ Head(stdin).turn # piTurn
      PROVE  AnswerSent => AnswerSent'
  <2> SUFFICES ASSUME NEW i \in DOMAIN stdin, stdin[i].cmd = "ui_response", stdin[i].turn = piTurn
               PROVE  AnswerSent'
    BY DEF AnswerSent
  <2>1. stdin # <<>> /\ stdin' = Tail(stdin) /\ Head(stdin) = stdin[1] /\ stdin[1].cmd = cmd
    BY <1>2, <1>3, TailPlaces DEF Takes
  <2>2. i # 1
    BY <1>3, <2>1
  <2>3. i - 1 \in DOMAIN stdin' /\ stdin'[i - 1] = stdin[i]
    BY <1>2, <2>1, <2>2, TailPlaces
  <2> QED
    BY <1>3, <2>3 DEF AnswerSent
<1>4. CASE PiTakesPrompt
  <2>1. CASE piDialog
    <3>1. piTurn # 0 /\ UNCHANGED <<piTurn, piDialog, proc>> /\ Takes("prompt")
      BY <1>4, <2>1 DEF PiTakesPrompt, DialogInv, procVars
    <3>2. Asked => Asked'
      <4>1. PICK l \in Line : stdout' = Append(stdout, l)
        <5>1. Head(stdin) \in Command
          BY <3>1, PipeFacts DEF Takes, TypeOK, ProcessTypeOK, SeqClosed
        <5> QED
          BY <1>4, <5>1, RecordFacts, TurnFacts DEF PiTakesPrompt, Command
      <4> QED
        BY <3>1, <4>1, DialogAppend
    <3> QED
      BY <1>1, <1>3, <3>1, <3>2 DEF DialogInv
  <2>2. CASE ~piDialog
    BY <1>4, <2>2 DEF PiTakesPrompt, DialogInv
  <2> QED
    BY <2>1, <2>2
<1>5. CASE PiTakesAbort \/ PiEndsTurn
  <2>1. piDialog' = FALSE
    <3>1. piDialog \in BOOLEAN
      BY DEF TypeOK, ProcessTypeOK
    <3> QED
      BY <1>5, <3>1 DEF PiTakesAbort, PiEndsTurn
  <2> QED
    BY <2>1 DEF DialogInv
<1>6. CASE PiTakesGetText
  <2>1. UNCHANGED <<piTurn, piDialog, proc>> /\ Takes("get_text")
    BY <1>6 DEF PiTakesGetText, procVars, piVars
  <2>2. PICK l \in Line : stdout' = Append(stdout, l)
    <3>1. Head(stdin) \in Command /\ piText \in Turn
      BY <2>1, PipeFacts DEF Takes, TypeOK, ProcessTypeOK, SeqClosed
    <3> QED
      BY <1>6, <3>1, RecordFacts, TurnFacts DEF PiTakesGetText, Command
  <2>3. Asked => Asked'
    BY <2>1, <2>2, DialogAppend
  <2> QED
    BY <1>1, <1>3, <2>1, <2>3 DEF DialogInv
<1>7. CASE PiTakesUiResponse
  <2>1. /\ UNCHANGED <<piTurn, proc, stdout>> /\ Takes("ui_response")
        /\ piDialog' = (piDialog /\ Head(stdin).turn # piTurn)
    BY <1>7 DEF PiTakesUiResponse, procVars
  <2>2. Asked => Asked'
    BY <2>1 DEF Asked, EventOf
  <2>3. CASE piDialog /\ Head(stdin).turn # piTurn
    BY <1>1, <1>3, <2>1, <2>2, <2>3 DEF DialogInv
  <2>4. CASE ~(piDialog /\ Head(stdin).turn # piTurn)
    BY <2>1, <2>4 DEF DialogInv
  <2> QED
    BY <2>3, <2>4
<1>8. CASE PiEmits
  <2>1. PICK opens \in BOOLEAN :
          /\ piDialog' = opens
          /\ stdout' = Append(stdout, EventOf(IF opens THEN "dialog" ELSE "event", piTurn))
    BY <1>8 DEF PiEmits
  <2>2. piTurn # 0 /\ UNCHANGED piTurn
    BY <1>8 DEF PiEmits
  <2>3. opens => Asked'
    <3>1. EventOf("dialog", piTurn) \in Line
      BY RecordFacts DEF TypeOK, ProcessTypeOK
    <3> QED
      BY <2>1, <2>2, <3>1, DialogAppend
  <2> QED
    BY <2>1, <2>2, <2>3 DEF DialogInv
<1>9. CASE PiPrintsStray
  <2>1. UNCHANGED <<piTurn, piDialog, proc, stdin>>
    BY <1>9 DEF PiPrintsStray, procVars
  <2>2. PICK l \in Line : stdout' = Append(stdout, l)
    BY <1>9, RecordFacts, PiProcessAssumption DEF PiPrintsStray
  <2>3. (Asked => Asked') /\ (AnswerSent => AnswerSent')
    BY <2>1, <2>2, DialogAppend
  <2> QED
    BY <1>1, <2>1, <2>3 DEF DialogInv
<1>10. CASE PiExits
  BY <1>10 DEF PiExits, DialogInv, piVars
<1> QED
  BY <1>4, <1>5, <1>6, <1>7, <1>8, <1>9, <1>10 DEF PiAnswers, PiTakesCommand, PiActs

\* PI waits in a dialog only as long as its answer takes, whatever is aborted, printed
\* or timed out around it and for every size of the pipe.
THEOREM DialogsAreAnswered == Spec => []DialogBeingAnswered
<1>1. Init => DialogInv
  BY DEF Init, ProcessInit, DialogInv
<1>2. TypeOK /\ DialogInv /\ [Next]_vars => DialogInv'
  <2> SUFFICES ASSUME TypeOK, DialogInv, [Next]_vars PROVE DialogInv'
    OBVIOUS
  <2>1. CASE UNCHANGED vars
    BY <2>1 DEF vars, processVars, protocolVars, DialogInv, Asked, AnswerSent, EventOf
  <2> QED
    BY <2>1, ClientDialog, ReaderDialog, PiDialog DEF Next
<1>3. DialogInv => DialogBeingAnswered
  BY DEF DialogInv, Asked, AnswerSent, DialogBeingAnswered
<1> QED
  BY <1>1, <1>2, <1>3, TypeCorrect, PTL DEF Spec

-----------------------------------------------------------------------------
(* Commands and their responses *)

\* The places of a sequence where an element of G stands.
Places(s, G) == {i \in DOMAIN s : s[i] \in G}
Lone(P) == \E i : P = {i}

\* The only element of G that is left goes with the head or stays.
LEMMA TailLone ==
  ASSUME NEW S, NEW s \in Seq(S), s # <<>>, NEW G
  PROVE  /\ Places(s, G) = {} => Places(Tail(s), G) = {} /\ Head(s) \notin G
         /\ Lone(Places(s, G)) => IF Head(s) \in G THEN Places(Tail(s), G) = {}
                                                   ELSE Lone(Places(Tail(s), G))
<1>1. /\ 1 \in DOMAIN s /\ Head(s) = s[1]
      /\ \A i \in DOMAIN Tail(s) : i \in Nat /\ i + 1 \in DOMAIN s /\ Tail(s)[i] = s[i + 1]
      /\ \A i \in DOMAIN s : i \in Nat /\ (i # 1 => i - 1 \in DOMAIN Tail(s) /\ Tail(s)[i - 1] = s[i])
  BY TailPlaces
<1>2. \A i \in DOMAIN Tail(s) : i + 1 # 1
  <2> SUFFICES ASSUME NEW i \in DOMAIN Tail(s) PROVE i + 1 # 1
    OBVIOUS
  <2>1. Tail(s) \in Seq(S)
    BY HeadTailProperties
  <2> QED
    BY <2>1, LenProperties
<1>3. ASSUME Places(s, G) = {} PROVE Places(Tail(s), G) = {} /\ Head(s) \notin G
  BY <1>1, <1>3 DEF Places
<1>4. ASSUME NEW k, Places(s, G) = {k}
      PROVE  IF Head(s) \in G THEN Places(Tail(s), G) = {} ELSE Lone(Places(Tail(s), G))
  <2>1. k \in DOMAIN s /\ s[k] \in G /\ \A i \in DOMAIN s : s[i] \in G => i = k
    BY <1>4 DEF Places
  <2>2. CASE Head(s) \in G
    <3>1. k = 1
      BY <1>1, <2>1, <2>2
    <3>2. \A i \in DOMAIN Tail(s) : Tail(s)[i] \notin G
      BY <1>1, <1>2, <2>1, <3>1
    <3> QED
      BY <2>2, <3>2 DEF Places
  <2>3. CASE Head(s) \notin G
    <3>1. k # 1 /\ k - 1 \in DOMAIN Tail(s) /\ Tail(s)[k - 1] \in G /\ k \in Nat
      BY <1>1, <2>1, <2>3
    <3>2. ASSUME NEW i \in DOMAIN Tail(s), Tail(s)[i] \in G PROVE i = k - 1
      <4>1. i + 1 = k /\ i \in Nat
        BY <1>1, <2>1, <3>2
      <4> QED
        BY <4>1
    <3>3. Places(Tail(s), G) = {k - 1}
      BY <3>1, <3>2 DEF Places
    <3> QED
      BY <2>3, <3>3 DEF Lone
  <2> QED
    BY <2>2, <2>3
<1> QED
  BY <1>3, <1>4 DEF Lone

\* What is appended is the only element of G, or changes nothing of where G stands.
LEMMA AppendLone ==
  ASSUME NEW S, NEW s \in Seq(S), NEW e \in S, NEW G
  PROVE  /\ e \notin G => Places(Append(s, e), G) = Places(s, G)
         /\ e \in G /\ Places(s, G) = {} => Lone(Places(Append(s, e), G))
<1>1. /\ Len(s) \in Nat /\ DOMAIN s = 1..Len(s)
      /\ DOMAIN Append(s, e) = 1..(Len(s) + 1)
      /\ \A i \in DOMAIN s : Append(s, e)[i] = s[i]
      /\ Append(s, e)[Len(s) + 1] = e
  BY AppendPlaces
<1>2. DOMAIN Append(s, e) = DOMAIN s \cup {Len(s) + 1} /\ Len(s) + 1 \notin DOMAIN s
  BY <1>1
<1>3. e \notin G => Places(Append(s, e), G) = Places(s, G)
  BY <1>1, <1>2 DEF Places
<1>4. e \in G /\ Places(s, G) = {} => Places(Append(s, e), G) = {Len(s) + 1}
  BY <1>1, <1>2 DEF Places
<1> QED
  BY <1>3, <1>4 DEF Lone

\* The commands with id n that ask for a response, and the responses to them.
Asks(n) == {c \in Command : c.cmd # "ui_response" /\ c.id = n}
Answers(n) == {l \in Line : l.kind = "response" /\ l.id = n}

AskedAt(n) == Places(stdin, Asks(n))
AnsweredAt(n) == Places(stdout, Answers(n))

\* Id n is on its way once: its command or its response.
Once(n) == \/ AnsweredAt(n) = {} /\ Lone(AskedAt(n))
           \/ AskedAt(n) = {} /\ Lone(AnsweredAt(n))

Nowhere(n) == AskedAt(n) = {} /\ AnsweredAt(n) = {}

\* Ids that were not given out yet are nowhere, the awaited one is on its way.
AnswerInv ==
    /\ \A n \in Nat : nextId < n => Nowhere(n)
    /\ fut.st = "waiting" /\ reader = "running" /\ proc = "running"
         => nextId \in pending /\ Once(nextId)

\* The pipes after a step, seen as sequences.
LEMMA NextPlaces ==
  ASSUME NEW n
  PROVE  AskedAt(n)' = Places(stdin', Asks(n)) /\ AnsweredAt(n)' = Places(stdout', Answers(n))
  BY DEF AskedAt, AnsweredAt, Asks, Answers

\* What is on its way depends on the pipes only.
LEMMA SamePipes ==
  ASSUME UNCHANGED <<stdin, stdout>>, NEW n
  PROVE  /\ AskedAt(n)' = AskedAt(n) /\ AnsweredAt(n)' = AnsweredAt(n)
         /\ Once(n)' = Once(n) /\ Nowhere(n)' = Nowhere(n)
  BY DEF AskedAt, AnsweredAt, Asks, Answers, Once, Nowhere

\* Nothing is on its way to a process that has exited, and nothing comes from it but
\* what it had printed.
LEMMA EmptyStdin ==
  ASSUME stdin' = <<>>, NEW n
  PROVE  AskedAt(n)' = {}
  BY DEF AskedAt, Places

\* A command is sent with an id of its own; nothing else that the client does touches
\* what is on its way, but for the end of the process.
LEMMA SendAnswer ==
  ASSUME TypeOK, AnswerInv, UNCHANGED <<stdout, proc>>,
         NEW cmd \in {"prompt", "abort", "get_text"}, NEW t \in Turn, SendsCommand(cmd, t)
  PROVE  AnswerInv'
<1> DEFINE c == [cmd |-> cmd, id |-> nextId + 1, turn |-> t]
<1>1. nextId \in Nat /\ stdin \in Seq(Command) /\ c \in Command
  BY DEF TypeOK, ProtocolTypeOK, ProcessTypeOK, Command
<1>2. \A n \in Nat : c \in Asks(n) <=> n = nextId + 1
  BY <1>1 DEF Asks
<1>3. nextId' = nextId + 1 /\ nextId' \in pending' /\ nextId' \in Nat
  BY <1>1 DEF SendsCommand
<1>4. (proc = "running" /\ stdin' = Append(stdin, c)) \/ (proc # "running" /\ UNCHANGED stdin)
  BY DEF SendsCommand, Writes
<1>5. \A n \in Nat : nextId < n => Nowhere(n)
  BY DEF AnswerInv
<1>6. \A n : AnsweredAt(n)' = AnsweredAt(n)
  BY DEF AnsweredAt, Answers
<1> HIDE DEF c
<1>7. ASSUME NEW n \in Nat, nextId + 1 < n PROVE Nowhere(n)'
  <2>1. nextId < n /\ n # nextId + 1
    BY <1>1, <1>7
  <2>2. c \notin Asks(n)
    BY <1>2, <2>1
  <2>3. Places(Append(stdin, c), Asks(n)) = Places(stdin, Asks(n))
    BY <1>1, <2>2, AppendLone
  <2> QED
    BY <1>4, <1>5, <1>6, <2>1, <2>3, NextPlaces DEF Nowhere, AskedAt
<1>8. ASSUME NEW n \in Nat, n = nextId + 1, proc = "running" PROVE Once(n)'
  <2>1. Nowhere(n)
    BY <1>1, <1>5, <1>8
  <2>2. c \in Asks(n) /\ Places(stdin, Asks(n)) = {}
    BY <1>2, <1>8, <2>1 DEF Nowhere, AskedAt
  <2>3. Lone(Places(Append(stdin, c), Asks(n)))
    BY <1>1, <2>2, AppendLone
  <2> QED
    BY <1>4, <1>6, <1>8, <2>1, <2>3, NextPlaces DEF Once, Nowhere
<1>9. proc' = "running" => Once(nextId)'
  BY <1>1, <1>3, <1>8 DEF Once, AskedAt, AnsweredAt, Asks, Answers
<1> QED
  BY <1>3, <1>7, <1>9 DEF AnswerInv

\* A step that sends nothing and takes nothing, and at most ends the process.
LEMMA IdleAnswer ==
  ASSUME TypeOK, AnswerInv, UNCHANGED stdout, UNCHANGED stdin \/ stdin' = <<>>,
         nextId' \in {nextId, nextId + 1},
         fut'.st = "waiting" /\ reader' = "running" /\ proc' = "running"
           => /\ fut.st = "waiting" /\ reader = "running" /\ proc = "running"
              /\ UNCHANGED <<stdin, nextId>> /\ pending \subseteq pending'
  PROVE  AnswerInv'
<1>1. nextId \in Nat
  BY DEF TypeOK, ProtocolTypeOK
<1>2. ASSUME NEW n \in Nat, nextId' < n PROVE Nowhere(n)'
  <2>1. Nowhere(n)
    BY <1>1, <1>2 DEF AnswerInv
  <2>2. CASE UNCHANGED stdin
    BY <2>1, <2>2, SamePipes
  <2>3. CASE stdin' = <<>>
    BY <2>1, <2>3, EmptyStdin DEF Nowhere, AnsweredAt, Answers
  <2> QED
    BY <2>2, <2>3
<1>3. ASSUME fut'.st = "waiting" /\ reader' = "running" /\ proc' = "running"
      PROVE  (nextId \in pending)' /\ Once(nextId)'
  <2>1. Once(nextId) /\ nextId \in pending /\ pending \subseteq pending'
        /\ UNCHANGED <<stdin, nextId>>
    BY <1>3 DEF AnswerInv
  <2> QED
    BY <2>1 DEF Once, AskedAt, AnsweredAt, Asks, Answers
<1> QED
  BY <1>2, <1>3 DEF AnswerInv

\* The client sends commands; what it takes comes from the queue and the future.
LEMMA ClientAnswer ==
  ASSUME TypeOK, AnswerInv, Prompt \/ ClientStep \/ Timers \/ Stop
  PROVE  AnswerInv'
<1>1. turn \in Turn /\ (turn < MaxTurns => turn + 1 \in Turn)
  BY TurnFacts DEF TypeOK
<1>2. CASE Prompt \/ TakesEvent \/ SendsAbort
  <2>1. UNCHANGED <<stdout, proc>>
    BY <1>2 DEF Prompt, TakesEvent, SendsAbort, procVars
  <2>2. CASE \E cmd \in {"prompt", "abort", "get_text"}, t \in Turn : SendsCommand(cmd, t)
    BY <2>1, <2>2, SendAnswer
  <2>3. CASE SendRaises
    BY <2>1, <2>3, IdleAnswer DEF SendRaises, FutureIn
  <2>4. CASE UNCHANGED <<stdin, nextId, pending, fut>> /\ (UNCHANGED reader \/ reader' # "running")
    BY <2>1, <2>4, IdleAnswer
  <2>5. CASE SendRefused
    BY <1>2, <2>4, <2>5 DEF SendRefused, Prompt, TakesEvent, SendsAbort, BeginsStop
  <2> QED
    BY <1>1, <1>2, <2>2, <2>3, <2>4, <2>5 DEF Prompt, TakesEvent, SendsAbort
<1>3. CASE PromptAnswered \/ AbortAcknowledged \/ TextAnswered \/ TurnTimesOut
  BY <1>3, IdleAnswer DEF PromptAnswered, AbortAcknowledged, TextAnswered, TurnTimesOut,
     processVars, protocolVars
<1>4. CASE AbortEscalates \/ Stop
  BY <1>4, IdleAnswer DEF AbortEscalates, Stop, BeginsStop, FutureIn
<1>5. CASE StopReturns \/ StopRaises
  BY <1>5, IdleAnswer DEF StopReturns, EndsStop, Reaped, StopRaises, KillFindsNone
<1>6. CASE Kills
  BY <1>6, IdleAnswer DEF Kills, KillAfterTimeout, protocolVars
<1> QED
  BY <1>2, <1>3, <1>4, <1>5, <1>6 DEF ClientStep, Timers

\* The reader takes a line, which resolves the future when it is the response.
LEMMA ReaderAnswer ==
  ASSUME TypeOK, AnswerInv, ReaderStep
  PROVE  AnswerInv'
<1>1. stdout \in Seq(Line) /\ stdin \in Seq(Command) /\ UNCHANGED <<proc, nextId>> /\ nextId \in Nat
  BY DEF TypeOK, ProcessTypeOK, ProtocolTypeOK, ReaderStep, ReaderNext, ReadResponse, ReadEvent,
     ReadDialog, ReadSkipped, ReadNonObject, ReadEof, ReaderCancelled, ReaderEnds, processVars,
     procVars, protocolVars
<1>2. CASE ReadEof \/ ReaderCancelled
  BY <1>1, <1>2, IdleAnswer DEF ReadEof, ReaderCancelled, ReaderEnds, processVars
<1>3. CASE ReadResponse \/ ReadEvent \/ ReadDialog \/ ReadSkipped \/ ReadNonObject
  <2>1. reader = "running" /\ stdout # <<>> /\ stdout' = Tail(stdout)
    BY <1>3 DEF ReadResponse, ReadEvent, ReadDialog, ReadSkipped, ReadNonObject, ReaderTakes
  <2>2. Head(stdout) \in Line
    BY <1>1, <2>1, HeadTailProperties
  <2>3. \A n : Places(stdin', Asks(n)) = Places(stdin, Asks(n))
    <3>1. CASE UNCHANGED stdin
      BY <3>1
    <3>2. CASE ReadDialog
      <4> DEFINE c == [cmd |-> "ui_response", id |-> 0, turn |-> Head(stdout).turn]
      <4>1. c \in Command /\ \A n : c \notin Asks(n)
        BY <2>2, <3>2 DEF ReadDialog, ReaderTakes, Line, Event, EventKind, AllStrayKinds, Command, Asks
      <4>2. UNCHANGED stdin \/ stdin' = Append(stdin, c)
        BY <3>2 DEF ReadDialog, Writes
      <4> HIDE DEF c
      <4>3. \A n : Places(Append(stdin, c), Asks(n)) = Places(stdin, Asks(n))
        BY <1>1, <4>1, AppendLone
      <4> QED
        BY <4>2, <4>3
    <3> QED
      BY <1>3, <3>1, <3>2 DEF ReadResponse, ReadEvent, ReadSkipped, ReadNonObject
  <2>4. ASSUME NEW n \in Nat, nextId < n PROVE Nowhere(n)'
    <3>1. Nowhere(n)
      BY <2>4 DEF AnswerInv
    <3>2. Places(stdout', Answers(n)) = {}
      BY <1>1, <2>1, <3>1, TailLone DEF Nowhere, AnsweredAt
    <3> QED
      BY <2>3, <3>1, <3>2, NextPlaces DEF Nowhere, AskedAt
  <2>5. ASSUME fut'.st = "waiting", reader' = "running", proc = "running"
        PROVE  nextId \in pending' /\ Once(nextId)'
    <3>1. /\ fut.st = "waiting"
          /\ Head(stdout).kind = "response" => ReadResponse
          /\ ReadResponse \/ UNCHANGED pending
      BY <1>3, <2>5 DEF ReadResponse, ReadEvent, ReadDialog, ReadSkipped, ReadNonObject, ReaderTakes,
         ReaderEnds, EventKind, protocolVars
    <3>2. nextId \in pending /\ Once(nextId)
      BY <2>1, <2>5, <3>1 DEF AnswerInv
    <3>3. Head(stdout) \notin Answers(nextId) /\ nextId \in pending'
      BY <2>5, <3>1, <3>2 DEF ReadResponse, Answers
    <3>4. /\ Places(stdout, Answers(nextId)) = {} => Places(stdout', Answers(nextId)) = {}
          /\ Lone(Places(stdout, Answers(nextId))) => Lone(Places(stdout', Answers(nextId)))
      BY <1>1, <2>1, <3>3, TailLone
    <3>5. AskedAt(nextId)' = AskedAt(nextId) /\ AnsweredAt(nextId)' = Places(stdout', Answers(nextId))
      BY <1>1, <2>3 DEF AskedAt, AnsweredAt, Asks, Answers
    <3> QED
      BY <3>2, <3>3, <3>4, <3>5 DEF Once, AnsweredAt
  <2> QED
    BY <1>1, <2>4, <2>5 DEF AnswerInv
<1> QED
  BY <1>2, <1>3 DEF ReaderStep, ReaderNext

\* What PI prints besides responses, and what it takes besides the commands that get
\* one, leaves commands and responses where they are.
LEMMA PiPrintsAnswer ==
  ASSUME TypeOK, NEW l \in Line, l.kind # "response", stdout' = Append(stdout, l),
         UNCHANGED stdin, NEW n \in Nat
  PROVE  (Once(n) => Once(n)') /\ (Nowhere(n) => Nowhere(n)')
<1>1. stdout \in Seq(Line) /\ l \notin Answers(n)
  BY DEF TypeOK, ProcessTypeOK, Answers
<1>2. Places(stdout', Answers(n)) = Places(stdout, Answers(n))
  BY <1>1, AppendLone
<1> QED
  BY <1>2, NextPlaces DEF Once, Nowhere, AskedAt, AnsweredAt

\* PI takes a command and prints its response, after what else it prints.
LEMMA PiTakesAnswer ==
  ASSUME TypeOK, NEW cmd \in {"prompt", "abort", "get_text"}, Takes(cmd),
         NEW s \in Seq(Line), NEW r \in Line, stdout' = Append(s, r),
         r.kind = "response", r.id = Head(stdin).id,
         NEW n \in Nat, Places(s, Answers(n)) = Places(stdout, Answers(n))
  PROVE  (Once(n) => Once(n)') /\ (Nowhere(n) => Nowhere(n)')
<1>1. stdin \in Seq(Command) /\ stdin # <<>> /\ stdin' = Tail(stdin) /\ Head(stdin).cmd = cmd
  BY DEF TypeOK, ProcessTypeOK, Takes
<1>2. Head(stdin) \in Command
  BY <1>1, HeadTailProperties
<1>3. (Head(stdin) \in Asks(n)) <=> (r \in Answers(n))
  BY <1>1, <1>2 DEF Asks, Answers
<1>4. /\ Places(stdin, Asks(n)) = {} => Places(stdin', Asks(n)) = {} /\ Head(stdin) \notin Asks(n)
      /\ Lone(Places(stdin, Asks(n))) =>
           IF Head(stdin) \in Asks(n) THEN Places(stdin', Asks(n)) = {}
                                      ELSE Lone(Places(stdin', Asks(n)))
  BY <1>1, TailLone
<1>5. /\ r \notin Answers(n) => Places(stdout', Answers(n)) = Places(stdout, Answers(n))
      /\ r \in Answers(n) /\ Places(stdout, Answers(n)) = {} => Lone(Places(stdout', Answers(n)))
  BY AppendLone
<1> QED
  BY <1>3, <1>4, <1>5, NextPlaces DEF Once, Nowhere, AskedAt, AnsweredAt

\* PI answers every command that asks for it, with its id.
LEMMA PiAnswer ==
  ASSUME TypeOK, AnswerInv, PiAnswers \/ PiActs
  PROVE  AnswerInv'
<1>1. UNCHANGED <<fut, reader, nextId, pending>> /\ nextId \in Nat /\ stdin \in Seq(Command)
      /\ stdout \in Seq(Line) /\ piTurn \in Turn /\ piText \in Turn
  BY DEF PiAnswers, PiActs, protocolVars, TypeOK, ProtocolTypeOK, ProcessTypeOK
<1>2. CASE PiExits
  BY <1>1, <1>2, IdleAnswer DEF PiExits
<1>3. ASSUME \A n \in Nat : (Once(n) => Once(n)') /\ (Nowhere(n) => Nowhere(n)'),
             UNCHANGED proc
      PROVE  AnswerInv'
  <2>1. \A n \in Nat : nextId' < n => Nowhere(n)'
    BY <1>1, <1>3 DEF AnswerInv
  <2>2. \A n \in Nat : n = nextId' => (Once(n) => Once(n)')
    BY <1>3
  <2>3. Once(nextId) => Once(nextId)'
    BY <1>1, <2>2 DEF Once, AskedAt, AnsweredAt, Asks, Answers
  <2> QED
    BY <1>1, <1>3, <2>1, <2>3 DEF AnswerInv
<1>4. ASSUME NEW cmd, Takes(cmd) PROVE Head(stdin) \in Command /\ Head(stdin).id \in Nat
  <2>1. Head(stdin) \in Command
    BY <1>1, <1>4, HeadTailProperties DEF Takes
  <2> QED
    BY <2>1 DEF Command
<1>5. CASE PiTakesPrompt \/ PiTakesGetText
  <2>1. PICK cmd \in {"prompt", "get_text"} : Takes(cmd)
    BY <1>5 DEF PiTakesPrompt, PiTakesGetText
  <2>2. PICK ok \in BOOLEAN, t \in Turn : stdout' = Append(stdout, Response(Head(stdin).id, ok, t))
    BY <1>1, <1>5, TurnFacts DEF PiTakesPrompt, PiTakesGetText
  <2> DEFINE r == Response(Head(stdin).id, ok, t)
  <2>3. r \in Line /\ r.kind = "response" /\ r.id = Head(stdin).id
    BY <1>4, <2>1, RecordFacts DEF Response
  <2> HIDE DEF r
  <2>4. \A n \in Nat : (Once(n) => Once(n)') /\ (Nowhere(n) => Nowhere(n)')
    BY <1>1, <2>1, <2>2, <2>3, PiTakesAnswer DEF r
  <2> QED
    BY <1>3, <1>5, <2>4 DEF PiTakesPrompt, PiTakesGetText, procVars
<1>6. CASE PiTakesAbort
  <2> DEFINE r == Response(Head(stdin).id, TRUE, 0)
  <2> DEFINE e == EventOf("agent_end", piTurn)
  <2>1. Takes("abort") /\ r \in Line /\ r.kind = "response" /\ r.id = Head(stdin).id
    BY <1>4, <1>6, RecordFacts, TurnFacts DEF PiTakesAbort, Response
  <2>2. e \in Line /\ \A n : e \notin Answers(n)
    BY <1>1, RecordFacts DEF EventOf, Answers
  <2>3. stdout' = Append(stdout, r) \/ stdout' = Append(Append(stdout, e), r)
    BY <1>6 DEF PiTakesAbort
  <2> HIDE DEF r, e
  <2>4. Append(stdout, e) \in Seq(Line)
        /\ \A n : Places(Append(stdout, e), Answers(n)) = Places(stdout, Answers(n))
    BY <1>1, <2>2, AppendLone, AppendProperties
  <2>5. \A n \in Nat : (Once(n) => Once(n)') /\ (Nowhere(n) => Nowhere(n)')
    BY <1>1, <2>1, <2>3, <2>4, PiTakesAnswer
  <2> QED
    BY <1>3, <1>6, <2>5 DEF PiTakesAbort, procVars
<1>7. CASE PiTakesUiResponse
  <2>1. stdin # <<>> /\ stdin' = Tail(stdin) /\ UNCHANGED <<stdout, proc>>
        /\ \A n : Head(stdin) \notin Asks(n)
    BY <1>7 DEF PiTakesUiResponse, Takes, procVars, Asks
  <2>2. \A n : /\ Places(stdin, Asks(n)) = {} => Places(stdin', Asks(n)) = {}
               /\ Lone(Places(stdin, Asks(n))) => Lone(Places(stdin', Asks(n)))
    BY <1>1, <2>1, TailLone
  <2>3. \A n \in Nat : (Once(n) => Once(n)') /\ (Nowhere(n) => Nowhere(n)')
    BY <2>1, <2>2, NextPlaces DEF Once, Nowhere, AskedAt, AnsweredAt
  <2> QED
    BY <1>3, <2>1, <2>3
<1>8. CASE PiEmits \/ PiEndsTurn \/ PiPrintsStray
  <2>1. PICK l \in Line : l.kind # "response" /\ stdout' = Append(stdout, l)
    <3>1. CASE PiEmits \/ PiEndsTurn
      BY <1>1, <1>8, <3>1, RecordFacts DEF PiEmits, PiEndsTurn, EventOf
    <3>2. CASE PiPrintsStray
      BY <3>2, RecordFacts, PiProcessAssumption DEF PiPrintsStray, AllStrayKinds
    <3> QED
      BY <1>8, <3>1, <3>2
  <2>2. UNCHANGED <<stdin, proc>>
    BY <1>8 DEF PiEmits, PiEndsTurn, PiPrintsStray, procVars
  <2>3. \A n \in Nat : (Once(n) => Once(n)') /\ (Nowhere(n) => Nowhere(n)')
    BY <2>1, <2>2, PiPrintsAnswer
  <2> QED
    BY <1>3, <2>2, <2>3
<1> QED
  BY <1>2, <1>5, <1>6, <1>7, <1>8 DEF PiAnswers, PiTakesCommand, PiActs

\* An awaited future has exactly one line on its way that resolves it, and the reader
\* knows its id: for every PI, also one that acknowledges an abort early, any number
\* of commands that were given up, and any size of the pipe.
THEOREM AnswersAreUnderWay == Spec => []AnswerUnderWay
<1>1. Init => AnswerInv
  BY DEF Init, ProcessInit, ProtocolInit, FutureIn, AnswerInv, Nowhere, AskedAt, AnsweredAt, Places
<1>2. TypeOK /\ AnswerInv /\ [Next]_vars => AnswerInv'
  <2> SUFFICES ASSUME TypeOK, AnswerInv, [Next]_vars PROVE AnswerInv'
    OBVIOUS
  <2>1. CASE UNCHANGED vars
    BY <2>1, IdleAnswer DEF vars, processVars, protocolVars
  <2> QED
    BY <2>1, ClientAnswer, ReaderAnswer, PiAnswer DEF Next
<1>3. TypeOK /\ AnswerInv => AnswerUnderWay
  <2> SUFFICES ASSUME TypeOK, AnswerInv PROVE AnswerUnderWay
    OBVIOUS
  <2>1. AskedAt(nextId) = Asking
    BY ElementOfSeq DEF TypeOK, ProcessTypeOK, AskedAt, Places, Asks, Asking
  <2>2. AnsweredAt(nextId) = Answering
    BY ElementOfSeq DEF TypeOK, ProcessTypeOK, AnsweredAt, Places, Answers, Answering
  <2>3. /\ \A i : Asking = {i} => i \in DOMAIN stdin
        /\ \A i : Answering = {i} => i \in DOMAIN stdout
    BY DEF Asking, Answering
  <2> QED
    BY <2>1, <2>2, <2>3 DEF AnswerInv, Once, Lone, AnswerUnderWay
<1> QED
  BY <1>1, <1>2, <1>3, TypeCorrect, PTL DEF Spec
=============================================================================
