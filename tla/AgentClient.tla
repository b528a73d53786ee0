----------------------------- MODULE AgentClient -----------------------------
(***************************************************************************)
(* The AgentClient port (relaypi/core/domain/interfaces/agent_client.py):  *)
(* what the relay may rely on, whatever adapter is behind it.              *)
(*                                                                         *)
(* Calls of prompt_and_collect() are serialized by the caller.  Every call *)
(* comes back: with the text of its own turn (0 stands for an empty text), *)
(* or with an error.  Once the client is being torn down no call returns a *)
(* text and every new one fails at once.                                   *)
(***************************************************************************)
EXTENDS Integers, Sequences

CONSTANT MaxTurns  \* bound: calls made on one client

VARIABLES
    calls,    \* calls of prompt_and_collect() so far
    outcome,  \* how the finished ones ended, in order
    open      \* FALSE once the client is being torn down

avars == <<calls, outcome, open>>

Text(t) == [kind |-> "text", text |-> t]
AgentError == [kind |-> "agent_error", text |-> 0]
OtherError == [kind |-> "exception", text |-> 0]
Errors == {AgentError, OtherError}
Outcome == {Text(t) : t \in 0..MaxTurns} \cup Errors

Init == calls = 0 /\ outcome = <<>> /\ open = TRUE

Busy == Len(outcome) < calls

Call ==
    /\ ~Busy /\ open /\ calls < MaxTurns
    /\ calls' = calls + 1
    /\ UNCHANGED <<outcome, open>>

CallFails ==
    /\ ~Busy /\ calls < MaxTurns
    /\ calls' = calls + 1
    /\ \E e \in Errors : outcome' = Append(outcome, e)
    /\ UNCHANGED open

ReturnsText ==
    /\ Busy /\ open
    /\ \E t \in {0, calls} : outcome' = Append(outcome, Text(t))
    /\ UNCHANGED <<calls, open>>

ReturnsError ==
    /\ Busy
    /\ \E e \in Errors : outcome' = Append(outcome, e)
    /\ UNCHANGED <<calls, open>>

TearDown ==
    /\ open
    /\ open' = FALSE
    /\ UNCHANGED <<calls, outcome>>

Next == Call \/ CallFails \/ ReturnsText \/ ReturnsError \/ TearDown

Spec == Init /\ [][Next]_avars
=============================================================================
