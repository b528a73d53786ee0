-------------------------- MODULE PiRpcClientProofs --------------------------
(***************************************************************************)
(* Theorems about PiRpcClient, for every value of its constants.           *)
(***************************************************************************)
EXTENDS PiRpcClient, SequenceTheorems, TLAPS

\* The number of turns is a natural number, so turn numbers are integers.
LEMMA TurnFacts == /\ MaxTurns \in Nat
                   /\ 0 \in Turn
                   /\ \A t \in Turn : t \in Int /\ (t < MaxTurns => t + 1 \in Turn)
  BY PiProcessAssumption DEF Turn

\* The ways the adapter leaves a call have the type of an outcome.
LEMMA OutcomeFacts == /\ Port!AgentError \in Port!Outcome
                      /\ Port!OtherError \in Port!Outcome
                      /\ \A t \in Turn : Port!Text(t) \in Port!Outcome
  BY DEF Port!Outcome, Port!Errors, Port!AgentError, Port!OtherError, Port!Text, Turn

\* Futures, events, responses and stray lines have the types declared for them.
LEMMA RecordFacts == /\ \A st \in {"none", "waiting", "failed", "cancelled"} : FutureIn(st) \in Future
                     /\ \A t \in Turn : /\ EventOf("event", t) \in Event
                                        /\ EventOf("agent_end", t) \in Event
                                        /\ EventOf("dialog", t) \in Line
                     /\ Event \subseteq Line
                     /\ \A id \in Nat, ok \in BOOLEAN, t \in Turn : Response(id, ok, t) \in Line
                     /\ \A k \in AllStrayKinds : [kind |-> k] \in Line
  BY TurnFacts DEF FutureIn, Future, EventOf, Event, EventKind, Line, Response

\* The sequence operations the model uses, for the four kinds of sequence it holds.
SeqClosed(S) == /\ << >> \in Seq(S)
                /\ \A s \in Seq(S), e \in S : Append(s, e) \in Seq(S)
                /\ \A s \in Seq(S) : s # << >> => Head(s) \in S /\ Tail(s) \in Seq(S)

\* The library's facts on sequences, in the form the proofs use.
LEMMA SeqFacts == ASSUME NEW S PROVE SeqClosed(S)
  BY EmptySeq, AppendProperties, HeadTailProperties DEF SeqClosed

\* The pipes, the queue and the outcomes are such sequences.
LEMMA PipeFacts == SeqClosed(Command) /\ SeqClosed(Line) /\ SeqClosed(Event) /\ SeqClosed(Port!Outcome)
  BY SeqFacts

-----------------------------------------------------------------------------
(* Type correctness *)

\* A line the reader takes is one PI printed.
LEMMA TakenLine ==
  ASSUME ProcessTypeOK, NEW K, ReaderTakes(K)
  PROVE  stdout' \in Seq(Line) /\ Head(stdout) \in Line /\ Head(stdout).kind \in K
  BY DEF ProcessTypeOK, ReaderTakes

\* A write leaves a sequence of commands in stdin.
LEMMA WrittenLine ==
  ASSUME ProcessTypeOK, NEW c \in Command, Writes(c)
  PROVE  stdin' \in Seq(Command)
  BY PipeFacts DEF ProcessTypeOK, Writes, SeqClosed

\* The end of the reader keeps the types of what it touches.
LEMMA ReaderEndsTypes ==
  ASSUME ProtocolTypeOK, ReaderEnds
  PROVE  ProtocolTypeOK'
<1>1. EventOf("agent_end", 0) \in Event
  BY RecordFacts, TurnFacts
<1>2. queue' \in Seq(Event)
  BY <1>1 DEF ProtocolTypeOK, ReaderEnds
<1>3. fut' \in Future /\ pending' = {}
  BY RecordFacts DEF ProtocolTypeOK, ReaderEnds, FailPending
<1> QED
  BY <1>2, <1>3 DEF ProtocolTypeOK, ReaderEnds

\* So do the commands the client sends.
LEMMA SendTypes ==
  ASSUME TypeOK, NEW cmd \in {"prompt", "abort", "get_text"}, NEW t \in Turn,
         SendsCommand(cmd, t) \/ SendRaises \/ SendRefused
  PROVE  /\ stdin' \in Seq(Command)
         /\ nextId' \in Nat
         /\ pending' \subseteq 1..nextId'
         /\ fut' \in Future
<1>1. CASE SendsCommand(cmd, t)
  <2>1. [cmd |-> cmd, id |-> nextId + 1, turn |-> t] \in Command
    BY DEF TypeOK, ProtocolTypeOK, Command
  <2>2. stdin' \in Seq(Command)
    BY <1>1, <2>1, WrittenLine DEF SendsCommand, TypeOK
  <2>3. nextId' \in Nat /\ pending' \subseteq 1..nextId'
    BY <1>1 DEF SendsCommand, TypeOK, ProtocolTypeOK
  <2> QED
    BY <1>1, <2>2, <2>3, RecordFacts DEF SendsCommand
<1>2. CASE SendRaises
  BY <1>2, RecordFacts DEF SendRaises, TypeOK, ProtocolTypeOK, ProcessTypeOK
<1>3. CASE SendRefused
  BY <1>3 DEF SendRefused, TypeOK, ProtocolTypeOK, ProcessTypeOK
<1> QED
  BY <1>1, <1>2, <1>3

\* And the end of a call.
LEMMA EndsTypes ==
  ASSUME TypeOK, NEW r \in Port!Outcome, Ends(r)
  PROVE  /\ pc' \in PC
         /\ outcome' \in Seq(Port!Outcome)
         /\ armed' \in BOOLEAN
         /\ queue' \in Seq(Event)
  BY PipeFacts DEF TypeOK, Ends, EndTurn, PC, SeqClosed

\* The initial state is well typed.
LEMMA InitTypes == Init => TypeOK
<1> SUFFICES ASSUME Init PROVE TypeOK
  OBVIOUS
<1>1. ProcessTypeOK
  <2>1. 0 \in 0..MaxStray
    BY PiProcessAssumption
  <2> QED
    BY <2>1, TurnFacts, PipeFacts DEF Init, ProcessInit, ProcessTypeOK, SeqClosed
<1>2. ProtocolTypeOK
  BY RecordFacts, PipeFacts DEF Init, ProtocolInit, ProtocolTypeOK, SeqClosed
<1> QED
  BY <1>1, <1>2, TurnFacts DEF Init, TypeOK, PC

\* Whatever line the reader takes, and however it ends, types are kept.
LEMMA ReaderTypes ==
  ASSUME TypeOK, ReaderStep
  PROVE  TypeOK'
<1> USE DEF TypeOK
<1>1. UNCHANGED clientVars
  BY DEF ReaderStep
<1>2. CASE ReadResponse
  <2>1. stdout' \in Seq(Line) /\ Head(stdout) \in Line /\ Head(stdout).kind = "response"
    BY <1>2, TakenLine DEF ReadResponse
  <2>2. Head(stdout).ok \in BOOLEAN /\ Head(stdout).turn \in Turn
    BY <2>1 DEF Line, Event, EventKind, AllStrayKinds
  <2>3. fut' \in Future
    BY <1>2, <2>2 DEF ReadResponse, ProtocolTypeOK, Future
  <2>4. ProtocolTypeOK'
    BY <1>2, <2>3 DEF ReadResponse, ProtocolTypeOK
  <2>5. ProcessTypeOK'
    BY <1>2, <2>1 DEF ReadResponse, ProcessTypeOK, procVars, piVars
  <2> QED
    BY <1>1, <2>4, <2>5 DEF clientVars
<1>3. CASE ReadEvent
  <2>1. stdout' \in Seq(Line) /\ Head(stdout) \in Line /\ Head(stdout).kind \in EventKind
    BY <1>3, TakenLine DEF ReadEvent
  <2>2. Head(stdout) \in Event
    BY <2>1 DEF Line, Event, EventKind, AllStrayKinds
  <2>3. ProtocolTypeOK'
    <3>1. CASE armed /\ QueueFull
      BY <1>3, <3>1, ReaderEndsTypes DEF ReadEvent
    <3>2. CASE ~(armed /\ QueueFull)
      BY <1>3, <2>2, <3>2, PipeFacts DEF ReadEvent, ProtocolTypeOK, SeqClosed
    <3> QED
      BY <3>1, <3>2
  <2>4. ProcessTypeOK'
    BY <1>3, <2>1 DEF ReadEvent, ProcessTypeOK, procVars, piVars
  <2> QED
    BY <1>1, <2>3, <2>4 DEF clientVars
<1>4. CASE ReadDialog
  <2>1. stdout' \in Seq(Line) /\ Head(stdout) \in Line /\ Head(stdout).kind = "dialog"
    BY <1>4, TakenLine DEF ReadDialog
  <2>2. [cmd |-> "ui_response", id |-> 0, turn |-> Head(stdout).turn] \in Command
    BY <2>1 DEF Line, Event, EventKind, AllStrayKinds, Command
  <2>3. stdin' \in Seq(Command)
    BY <1>4, <2>2, WrittenLine DEF ReadDialog, ProcessTypeOK
  <2>4. ProtocolTypeOK'
    BY <1>4, ReaderEndsTypes DEF ReadDialog, ProtocolTypeOK, protocolVars
  <2>5. ProcessTypeOK'
    BY <1>4, <2>1, <2>3 DEF ReadDialog, ProcessTypeOK, procVars, piVars
  <2> QED
    BY <1>1, <2>4, <2>5 DEF clientVars
<1>5. CASE ReadSkipped
  <2>1. ProcessTypeOK'
    BY <1>5, TakenLine DEF ReadSkipped, ProcessTypeOK, procVars, piVars
  <2> QED
    BY <1>1, <1>5, <2>1 DEF ReadSkipped, ProtocolTypeOK, protocolVars, clientVars
<1>6. CASE ReadNonObject
  <2>1. ProcessTypeOK'
    BY <1>6, TakenLine DEF ReadNonObject, ProcessTypeOK, procVars, piVars
  <2> QED
    BY <1>1, <1>6, <2>1, ReaderEndsTypes DEF ReadNonObject, clientVars
<1>7. CASE ReadEof \/ ReaderCancelled
  <2>1. ProtocolTypeOK'
    BY <1>7, ReaderEndsTypes DEF ReadEof, ReaderCancelled
  <2> QED
    BY <1>1, <1>7, <2>1 DEF ReadEof, ReaderCancelled, ProcessTypeOK, processVars, clientVars
<1> QED
  BY <1>2, <1>3, <1>4, <1>5, <1>6, <1>7 DEF ReaderStep, ReaderNext

\* What PI answers, emits or prints, and its exit, keep the types.
LEMMA PiTypes ==
  ASSUME TypeOK, PiAnswers \/ PiActs
  PROVE  TypeOK'
<1> USE DEF TypeOK
<1>1. UNCHANGED <<protocolVars, clientVars>>
  BY DEF PiAnswers, PiActs
<1>2. SUFFICES ProcessTypeOK'
  BY <1>1 DEF ProtocolTypeOK, protocolVars, clientVars
<1>3. ASSUME NEW cmd, Takes(cmd)
      PROVE  stdin' \in Seq(Command) /\ Head(stdin).id \in Nat /\ Head(stdin).turn \in Turn
  <2>1. stdin' \in Seq(Command) /\ Head(stdin) \in Command
    BY <1>3, PipeFacts DEF Takes, ProcessTypeOK, SeqClosed
  <2> QED
    BY <2>1 DEF Command
<1>4. CASE PiTakesPrompt
  <2>1. stdin' \in Seq(Command) /\ Head(stdin).id \in Nat /\ Head(stdin).turn \in Turn
    BY <1>3, <1>4 DEF PiTakesPrompt
  <2>2. stdout' \in Seq(Line)
    BY <1>4, <2>1, RecordFacts, TurnFacts DEF PiTakesPrompt, ProcessTypeOK
  <2> QED
    BY <1>4, <2>1, <2>2, PiProcessAssumption DEF PiTakesPrompt, ProcessTypeOK, procVars
<1>5. CASE PiTakesAbort
  <2>1. stdin' \in Seq(Command) /\ Head(stdin).id \in Nat
    BY <1>3, <1>5 DEF PiTakesAbort
  <2>2. EventOf("agent_end", piTurn) \in Line /\ Response(Head(stdin).id, TRUE, 0) \in Line
    BY <2>1, RecordFacts, TurnFacts DEF ProcessTypeOK
  <2>4. stdout' \in Seq(Line)
    BY <1>5, <2>2, PipeFacts DEF PiTakesAbort, ProcessTypeOK, SeqClosed
  <2> QED
    BY <1>5, <2>1, <2>4, TurnFacts DEF PiTakesAbort, ProcessTypeOK, procVars
<1>6. CASE PiTakesGetText
  <2>1. stdin' \in Seq(Command) /\ Head(stdin).id \in Nat
    BY <1>3, <1>6 DEF PiTakesGetText
  <2>2. stdout' \in Seq(Line)
    BY <1>6, <2>1, RecordFacts, TurnFacts, PipeFacts DEF PiTakesGetText, ProcessTypeOK, SeqClosed
  <2> QED
    BY <1>6, <2>1, <2>2 DEF PiTakesGetText, ProcessTypeOK, procVars, piVars
<1>7. CASE PiTakesUiResponse
  BY <1>3, <1>7 DEF PiTakesUiResponse, ProcessTypeOK, procVars
<1>8. CASE PiEmits
  <2>1. stdout' \in Seq(Line)
    BY <1>8, RecordFacts DEF PiEmits, ProcessTypeOK
  <2> QED
    BY <1>8, <2>1, PiProcessAssumption DEF PiEmits, ProcessTypeOK, procVars
<1>9. CASE PiEndsTurn
  <2>1. stdout' \in Seq(Line)
    BY <1>9, RecordFacts DEF PiEndsTurn, ProcessTypeOK
  <2> QED
    BY <1>9, <2>1, TurnFacts DEF PiEndsTurn, ProcessTypeOK, procVars
<1>10. CASE PiPrintsStray
  <2>1. stdout' \in Seq(Line)
    BY <1>10, RecordFacts, PiProcessAssumption DEF PiPrintsStray, ProcessTypeOK
  <2> QED
    BY <1>10, <2>1, PiProcessAssumption DEF PiPrintsStray, ProcessTypeOK, procVars
<1>11. CASE PiExits
  BY <1>11 DEF PiExits, ProcessTypeOK, piVars
<1> QED
  BY <1>4, <1>5, <1>6, <1>7, <1>8, <1>9, <1>10, <1>11 DEF PiAnswers, PiActs, PiTakesCommand

\* A call begins.
LEMMA PromptTypes ==
  ASSUME TypeOK, Prompt
  PROVE  TypeOK'
<1>1. turn + 1 \in Turn /\ turn' = turn + 1
  BY TurnFacts DEF TypeOK, Prompt
<1>2. SendsCommand("prompt", turn + 1) \/ SendRaises \/ SendRefused
  BY DEF Prompt
<1>3. /\ stdin' \in Seq(Command)
      /\ nextId' \in Nat
      /\ pending' \subseteq 1..nextId'
      /\ fut' \in Future
  BY <1>1, <1>2, SendTypes
<1>4. /\ pc' \in PC
      /\ outcome' \in Seq(Port!Outcome)
      /\ armed' \in BOOLEAN
      /\ queue' \in Seq(Event)
  <2>1. CASE Ends(Port!OtherError) \/ Ends(Port!AgentError)
    BY <2>1, EndsTypes, OutcomeFacts
  <2>2. CASE BeginTurn /\ pc' = "prompt" /\ UNCHANGED outcome
    BY <2>2, PipeFacts DEF BeginTurn, PC, TypeOK, SeqClosed
  <2> QED
    BY <2>1, <2>2 DEF Prompt
<1> QED
  BY <1>1, <1>3, <1>4 DEF Prompt, TypeOK, ProcessTypeOK, ProtocolTypeOK, procVars, piVars

\* A call or a stop goes on or comes back.
LEMMA ClientTypes ==
  ASSUME TypeOK, ClientStep \/ Timers \/ Stop
  PROVE  TypeOK'
<1>1. CASE PromptAnswered
  <2>1. /\ pc' \in PC
        /\ outcome' \in Seq(Port!Outcome)
        /\ armed' \in BOOLEAN
        /\ queue' \in Seq(Event)
    BY <1>1, EndsTypes, OutcomeFacts DEF PromptAnswered, TypeOK, ProtocolTypeOK, PC
  <2> QED
    BY <1>1, <2>1 DEF PromptAnswered, TypeOK, ProcessTypeOK, ProtocolTypeOK, processVars
<1>2. CASE TakesEvent
  <2>1. turn \in Turn
    BY DEF TypeOK
  <2>2. CASE Head(queue).kind = "agent_end"
    <3>1. SendsCommand("get_text", turn) \/ SendRaises \/ SendRefused
      BY <1>2, <2>2 DEF TakesEvent
    <3>2. /\ stdin' \in Seq(Command)
          /\ nextId' \in Nat
          /\ pending' \subseteq 1..nextId'
          /\ fut' \in Future
      BY <2>1, <3>1, SendTypes
    <3>3. /\ pc' \in PC
          /\ outcome' \in Seq(Port!Outcome)
          /\ armed' \in BOOLEAN
          /\ queue' \in Seq(Event)
      <4>1. CASE Ends(Port!OtherError) \/ Ends(Port!AgentError)
        BY <4>1, EndsTypes, OutcomeFacts
      <4>2. CASE EndTurn /\ pc' = "text" /\ UNCHANGED outcome
        BY <4>2, PipeFacts DEF EndTurn, PC, TypeOK, SeqClosed
      <4> QED
        BY <1>2, <2>2, <4>1, <4>2 DEF TakesEvent
    <3> QED
      BY <1>2, <3>2, <3>3 DEF TakesEvent, TypeOK, ProcessTypeOK, ProtocolTypeOK, procVars, piVars
  <2>3. CASE Head(queue).kind # "agent_end"
    <3>1. queue' \in Seq(Event)
      BY <1>2, <2>3, PipeFacts DEF TakesEvent, TypeOK, ProtocolTypeOK, SeqClosed
    <3> QED
      BY <1>2, <2>3, <3>1 DEF TakesEvent, TypeOK, ProcessTypeOK, ProtocolTypeOK, procVars, piVars
  <2> QED
    BY <2>2, <2>3
<1>3. CASE SendsAbort
  <2>1. turn \in Turn
    BY DEF TypeOK
  <2>2. /\ stdin' \in Seq(Command)
        /\ nextId' \in Nat
        /\ pending' \subseteq 1..nextId'
        /\ fut' \in Future
    BY <1>3, <2>1, SendTypes DEF SendsAbort
  <2>3. pc' \in PC /\ reader' \in {"running", "cancelling", "dead"} /\ pipe' \in {"open", "closing", "closed"}
    BY <1>3 DEF SendsAbort, BeginsStop, CloseStdin, PC, TypeOK, ProcessTypeOK, ProtocolTypeOK
  <2> QED
    BY <1>3, <2>2, <2>3 DEF SendsAbort, TypeOK, ProcessTypeOK, ProtocolTypeOK, piVars
<1>4. CASE AbortAcknowledged
  <2>1. /\ pc' \in PC
        /\ outcome' \in Seq(Port!Outcome)
        /\ armed' \in BOOLEAN
        /\ queue' \in Seq(Event)
    BY <1>4, EndsTypes, OutcomeFacts DEF AbortAcknowledged
  <2> QED
    BY <1>4, <2>1 DEF AbortAcknowledged, TypeOK, ProcessTypeOK, ProtocolTypeOK, processVars
<1>5. CASE TextAnswered
  <2>1. fut.turn \in Turn
    BY DEF TypeOK, ProtocolTypeOK, Future
  <2>2. /\ pc' \in PC
        /\ outcome' \in Seq(Port!Outcome)
        /\ armed' \in BOOLEAN
        /\ queue' \in Seq(Event)
    BY <1>5, <2>1, EndsTypes, OutcomeFacts DEF TextAnswered
  <2> QED
    BY <1>5, <2>2 DEF TextAnswered, TypeOK, ProcessTypeOK, ProtocolTypeOK, processVars
<1>6. CASE StopReturns
  <2>1. /\ pc' \in PC
        /\ outcome' \in Seq(Port!Outcome)
        /\ armed' \in BOOLEAN
        /\ queue' \in Seq(Event)
    BY <1>6, EndsTypes, OutcomeFacts DEF StopReturns, TypeOK, ProtocolTypeOK, PC
  <2> QED
    BY <1>6, <2>1 DEF StopReturns, EndsStop, Reaped, TypeOK, ProcessTypeOK, ProtocolTypeOK, piVars
<1>7. CASE TurnTimesOut
  BY <1>7 DEF TurnTimesOut, TypeOK, ProcessTypeOK, ProtocolTypeOK, processVars, protocolVars, PC
<1>8. CASE AbortEscalates
  <2>1. fut' \in Future
    BY <1>8, RecordFacts DEF AbortEscalates, TypeOK, ProtocolTypeOK
  <2> QED
    BY <1>8, <2>1 DEF AbortEscalates, BeginsStop, CloseStdin, TypeOK, ProcessTypeOK, ProtocolTypeOK, piVars, PC
<1>9. CASE Kills
  BY <1>9, PipeFacts DEF Kills, KillAfterTimeout, TypeOK, ProcessTypeOK, ProtocolTypeOK,
     piVars, protocolVars, clientVars, SeqClosed
<1>10. CASE Stop
  BY <1>10 DEF Stop, BeginsStop, CloseStdin, TypeOK, ProcessTypeOK, ProtocolTypeOK, piVars, PC
<1>11. CASE StopRaises
  <2>1. /\ pc' \in PC
        /\ outcome' \in Seq(Port!Outcome)
        /\ armed' \in BOOLEAN
        /\ queue' \in Seq(Event)
    BY <1>11, EndsTypes, OutcomeFacts DEF StopRaises, TypeOK, ProtocolTypeOK, PC
  <2> QED
    BY <1>11, <2>1 DEF StopRaises, KillFindsNone, Reaped, TypeOK, ProcessTypeOK, ProtocolTypeOK, piVars
<1> QED
  BY <1>1, <1>2, <1>3, <1>4, <1>5, <1>6, <1>7, <1>8, <1>9, <1>10, <1>11 DEF ClientStep, Timers

\* A step that changes no variable keeps the types.
LEMMA StutterTypes ==
  ASSUME TypeOK, UNCHANGED vars
  PROVE  TypeOK'
  BY DEF TypeOK, ProcessTypeOK, ProtocolTypeOK, vars, processVars, protocolVars, clientVars

\* Type correctness is inductive: the case split over Next.
LEMMA NextTypes ==
  ASSUME TypeOK, [Next]_vars
  PROVE  TypeOK'
<1>1. CASE Prompt
  BY <1>1, PromptTypes
<1>2. CASE ClientStep \/ Timers \/ Stop
  BY <1>2, ClientTypes
<1>3. CASE ReaderStep
  BY <1>3, ReaderTypes
<1>4. CASE PiAnswers \/ PiActs
  BY <1>4, PiTypes
<1>5. CASE UNCHANGED vars
  BY <1>5, StutterTypes
<1> QED
  BY <1>1, <1>2, <1>3, <1>4, <1>5 DEF Next

\* The variables of the client, the protocol and the process always hold values
\* of the kinds the code keeps in them.
THEOREM TypeCorrect == Spec => []TypeOK
  BY InitTypes, NextTypes, PTL DEF Spec

-----------------------------------------------------------------------------
(* The end of the stream *)

\* The end of the reader, whatever caused it, establishes the invariant.
LEMMA ReaderEndsQuiet ==
  ASSUME ReaderEnds
  PROVE  NoWaiterOnDeadStream'
  BY DEF ReaderEnds, FailPending, FutureIn, NoWaiterOnDeadStream

\* No command is sent on a stream whose reader is dead.
LEMMA SendQuiet ==
  ASSUME NoWaiterOnDeadStream, NEW cmd, NEW t, UNCHANGED <<alive, reader>>,
         SendsCommand(cmd, t) \/ SendRaises \/ SendRefused
  PROVE  NoWaiterOnDeadStream'
  BY DEF NoWaiterOnDeadStream, SendsCommand, SendRaises, SendRefused

\* Steps of the reader leave no waiter behind on a dead stream.
LEMMA ReaderQuiet ==
  ASSUME NoWaiterOnDeadStream, ReaderStep
  PROVE  NoWaiterOnDeadStream'
<1>1. CASE ReadResponse
  BY <1>1 DEF ReadResponse, ReaderTakes, NoWaiterOnDeadStream
<1>2. CASE ReadEvent
  BY <1>2, ReaderEndsQuiet DEF ReadEvent, NoWaiterOnDeadStream
<1>3. CASE ReadDialog
  BY <1>3, ReaderEndsQuiet DEF ReadDialog, NoWaiterOnDeadStream, protocolVars
<1>4. CASE ReadSkipped
  BY <1>4 DEF ReadSkipped, NoWaiterOnDeadStream, protocolVars
<1>5. CASE ReadNonObject \/ ReadEof \/ ReaderCancelled
  BY <1>5, ReaderEndsQuiet DEF ReadNonObject, ReadEof, ReaderCancelled
<1> QED
  BY <1>1, <1>2, <1>3, <1>4, <1>5 DEF ReaderStep, ReaderNext

\* Steps of the client start no wait on a dead stream and revive no reader.
LEMMA ClientQuiet ==
  ASSUME NoWaiterOnDeadStream, Prompt \/ ClientStep \/ Timers \/ Stop
  PROVE  NoWaiterOnDeadStream'
<1>1. CASE Prompt
  <2>1. UNCHANGED <<alive, reader>>
    BY <1>1 DEF Prompt
  <2>2. SendsCommand("prompt", turn + 1) \/ SendRaises \/ SendRefused
    BY <1>1 DEF Prompt
  <2> QED
    BY <2>1, <2>2, SendQuiet
<1>2. CASE PromptAnswered \/ AbortAcknowledged \/ TextAnswered
  BY <1>2 DEF PromptAnswered, AbortAcknowledged, TextAnswered, NoWaiterOnDeadStream
<1>3. CASE TakesEvent
  <2>1. UNCHANGED <<alive, reader>>
    BY <1>3 DEF TakesEvent
  <2>2. CASE UNCHANGED <<pending, fut>>
    BY <2>1, <2>2 DEF NoWaiterOnDeadStream
  <2>3. CASE SendsCommand("get_text", turn) \/ SendRaises \/ SendRefused
    BY <2>1, <2>3, SendQuiet
  <2> QED
    BY <1>3, <2>2, <2>3 DEF TakesEvent
<1>4. CASE SendsAbort
  <2>1. CASE SendsCommand("abort", turn) /\ UNCHANGED <<pipe, reader>>
    BY <1>4, <2>1, SendQuiet DEF SendsAbort
  <2>2. CASE (SendRaises \/ SendRefused) /\ BeginsStop
    BY <1>4, <2>2 DEF SendsAbort, SendRaises, SendRefused, BeginsStop, NoWaiterOnDeadStream
  <2> QED
    BY <1>4, <2>1, <2>2 DEF SendsAbort
<1>5. CASE StopReturns \/ StopRaises
  BY <1>5 DEF StopReturns, EndsStop, StopRaises, NoWaiterOnDeadStream
<1>6. CASE TurnTimesOut \/ Kills
  BY <1>6 DEF TurnTimesOut, Kills, protocolVars, NoWaiterOnDeadStream
<1>7. CASE AbortEscalates
  BY <1>7 DEF AbortEscalates, BeginsStop, FutureIn, NoWaiterOnDeadStream
<1>8. CASE Stop
  BY <1>8 DEF Stop, BeginsStop, NoWaiterOnDeadStream
<1> QED
  BY <1>1, <1>2, <1>3, <1>4, <1>5, <1>6, <1>7, <1>8 DEF ClientStep, Timers

\* Whatever ends the reader (the end of the stream, a line it cannot handle, a
\* full queue, a failed write, stop()), no call is left waiting for a response
\* that nobody will read, and none can start to.
THEOREM DeadStreamHasNoWaiter == Spec => []NoWaiterOnDeadStream
<1>1. Init => NoWaiterOnDeadStream
  BY DEF Init, ProtocolInit, NoWaiterOnDeadStream
<1>2. NoWaiterOnDeadStream /\ [Next]_vars => NoWaiterOnDeadStream'
  <2> SUFFICES ASSUME NoWaiterOnDeadStream, [Next]_vars PROVE NoWaiterOnDeadStream'
    OBVIOUS
  <2>1. CASE Prompt \/ ClientStep \/ Timers \/ Stop
    BY <2>1, ClientQuiet
  <2>2. CASE ReaderStep
    BY <2>2, ReaderQuiet
  <2>3. CASE PiAnswers \/ PiActs
    BY <2>3 DEF PiAnswers, PiActs, protocolVars, NoWaiterOnDeadStream
  <2>4. CASE UNCHANGED vars
    BY <2>4 DEF vars, protocolVars, NoWaiterOnDeadStream
  <2> QED
    BY <2>1, <2>2, <2>3, <2>4 DEF Next
<1> QED
  BY <1>1, <1>2, PTL DEF Spec

\* close() returns only when the process is gone, and the process never comes
\* back: a client that was torn down has no process and says that it is dead.
THEOREM CloseLeavesNoOrphan == Spec => []NoOrphanAfterClose
<1>1. Init => NoOrphanAfterClose
  BY DEF Init, ProcessInit, NoOrphanAfterClose
<1>2. NoOrphanAfterClose /\ [Next]_vars => NoOrphanAfterClose'
  <2> SUFFICES ASSUME NoOrphanAfterClose, [Next]_vars PROVE NoOrphanAfterClose'
    OBVIOUS
  <2> USE DEF NoOrphanAfterClose
  <2>1. CASE Prompt
    BY <2>1 DEF Prompt, procVars
  <2>2. CASE ClientStep
    <3>1. CASE PromptAnswered \/ AbortAcknowledged \/ TextAnswered
      BY <3>1 DEF PromptAnswered, AbortAcknowledged, TextAnswered, processVars
    <3>2. CASE TakesEvent
      BY <3>2 DEF TakesEvent, procVars
    <3>3. CASE SendsAbort
      BY <3>3 DEF SendsAbort, BeginsStop, CloseStdin
    <3>4. CASE StopReturns \/ StopRaises
      BY <3>4 DEF StopReturns, EndsStop, StopRaises, KillFindsNone, Reaped
    <3> QED
      BY <2>2, <3>1, <3>2, <3>3, <3>4 DEF ClientStep
  <2>3. CASE Timers \/ Stop
    BY <2>3 DEF Timers, TurnTimesOut, AbortEscalates, Kills, KillAfterTimeout, Stop,
       BeginsStop, CloseStdin, processVars, protocolVars
  <2>4. CASE ReaderStep
    <3>1. UNCHANGED procVars
      BY <2>4 DEF ReaderStep, ReaderNext, ReadResponse, ReadEvent, ReadDialog, ReadSkipped,
         ReadNonObject, ReadEof, ReaderCancelled, processVars, procVars
    <3>2. alive' = alive \/ alive' = FALSE
      BY <2>4 DEF ReaderStep, ReaderNext, ReadResponse, ReadEvent, ReadDialog, ReadSkipped,
         ReadNonObject, ReadEof, ReaderCancelled, ReaderEnds, protocolVars
    <3> QED
      BY <3>1, <3>2 DEF procVars
  <2>5. CASE PiAnswers
    BY <2>5 DEF PiAnswers, PiTakesCommand, PiTakesPrompt, PiTakesAbort, PiTakesGetText,
       PiTakesUiResponse, procVars, protocolVars
  <2>6. CASE PiActs
    BY <2>6 DEF PiActs, PiEmits, PiEndsTurn, PiPrintsStray, PiExits, procVars, protocolVars
  <2>7. CASE UNCHANGED vars
    BY <2>7 DEF vars, processVars, protocolVars
  <2> QED
    BY <2>1, <2>2, <2>3, <2>4, <2>5, <2>6, <2>7 DEF Next
<1> QED
  BY <1>1, <1>2, PTL DEF Spec
=============================================================================
