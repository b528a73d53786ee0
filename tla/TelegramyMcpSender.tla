------------------------- MODULE TelegramyMcpSender -------------------------
(***************************************************************************)
(* TelegramyMCPSender                                                      *)
(* (relaypi/infrastructure/adapters/telegramy_mcp_sender.py) and the MCP   *)
(* server it talks to.  One sender object serves the handler tasks of all  *)
(* chats; the first send does the MCP handshake (initialize, then the      *)
(* initialized notification), and the session id it yields is committed    *)
(* and used by every later send.                                           *)
(*                                                                         *)
(* Each POST is an exchange of two steps, handled by the server and        *)
(* answered to the caller; it may fail before or after it is handled.  The *)
(* server (telegramy, not in the repository) serves calls of a session     *)
(* whose notification it has got and answers any other with an error; an   *)
(* accepted initialize names the session; a restart makes the server       *)
(* forget its sessions.                                                    *)
(*                                                                         *)
(* _call() takes every 2xx without an "error" member for a success.  Such  *)
(* an answer is "ok" when it is the result of the tool, and "hollow" when  *)
(* it is not: a result with isError, a body without a data line (_parse()  *)
(* gives {}), a first data line that is another event.                     *)
(***************************************************************************)
EXTENDS Integers

CONSTANTS
    Callers,      \* handler tasks that send
    MaxSessions,  \* bound: sessions the server opens
    MaxFaults,    \* bound: exchanges that fail or are answered hollow
    MaxRestarts   \* bound: restarts of the server

ASSUME SenderAssumption ==
    /\ MaxSessions \in Nat \ {0}
    /\ MaxFaults \in Nat
    /\ MaxRestarts \in Nat

VARIABLES
    sessionId,  \* _session_id, 0 for None
    pc,         \* for each caller: the exchange it awaits, or "idle"
    http,       \* for each caller: its exchange and the session id on it
    last,       \* for each caller: how its last send ended (the answer it returned on,
                \* "failed", or "unsent" if it failed before its call was posted)
    delivered,  \* for each caller: times the message of its last send was delivered
    sessions,   \* the server's sessions
    faults,     \* exchanges that have failed or were answered hollow
    restarts    \* restarts of the server

vars == <<sessionId, pc, http, last, delivered, sessions, faults, restarts>>

Session == 1..MaxSessions

\* Every variable holds a value of the kind the code keeps in it, and one
\* send_message() has its message delivered once at most.
TypeOK ==
    /\ sessionId \in 0..MaxSessions
    /\ pc \in [Callers -> {"idle", "initialize", "notify", "call"}]
    /\ http \in [Callers -> [st : {"none", "sent", "ok", "hollow", "error"}, sid : 0..MaxSessions]]
    /\ last \in [Callers -> {"none", "ok", "hollow", "failed", "unsent"}]
    /\ delivered \in [Callers -> {0, 1}]
    /\ sessions \in [Session -> {"free", "new", "ready", "gone"}]
    /\ faults \in 0..MaxFaults
    /\ restarts \in 0..MaxRestarts

NoExchange == [st |-> "none", sid |-> 0]

Init ==
    /\ sessionId = 0
    /\ pc = [s \in Callers |-> "idle"]
    /\ http = [s \in Callers |-> NoExchange]
    /\ last = [s \in Callers |-> "none"]
    /\ delivered = [s \in Callers |-> 0]
    /\ sessions = [n \in Session |-> "free"]
    /\ faults = 0
    /\ restarts = 0

-----------------------------------------------------------------------------
(* The sender; each step runs from one await to the next. *)

\* The caller posts a request with a session id in its header (0: none).
Posts(s, request, sid) ==
    /\ pc' = [pc EXCEPT ![s] = request]
    /\ http' = [http EXCEPT ![s] = [st |-> "sent", sid |-> sid]]

\* send_message() leaves, normally or with an exception.
Leaves(s, result) ==
    /\ pc' = [pc EXCEPT ![s] = "idle"]
    /\ http' = [http EXCEPT ![s] = NoExchange]
    /\ last' = [last EXCEPT ![s] = result]

Answered(s, request, st) == pc[s] = request /\ http[s].st = st

Failure(s) == IF pc[s] = "call" THEN "failed" ELSE "unsent"

\* An exchange goes wrong, within the bound.
Fault == faults < MaxFaults /\ faults' = faults + 1

\* send_message() up to its first await: a committed session skips the handshake.
Sends(s) ==
    /\ pc[s] = "idle"
    /\ IF sessionId # 0 THEN Posts(s, "call", sessionId) ELSE Posts(s, "initialize", 0)
    /\ delivered' = [delivered EXCEPT ![s] = 0]
    /\ UNCHANGED <<sessionId, last, sessions, faults, restarts>>

\* Mutant: the session id is committed before the notification.
CommitsEarly(s) ==
    /\ Answered(s, "initialize", "ok")
    /\ sessionId' = http[s].sid
    /\ Posts(s, "notify", http[s].sid)
    /\ UNCHANGED <<last, delivered, sessions, faults, restarts>>

\* The answer to initialize carries the id the notification must carry.
Initialized(s) ==
    /\ Answered(s, "initialize", "ok")
    /\ Posts(s, "notify", http[s].sid)
    /\ UNCHANGED <<sessionId, last, delivered, sessions, faults, restarts>>

\* The notification was accepted: the id is committed and the call posted.
Notified(s) ==
    /\ Answered(s, "notify", "ok")
    /\ sessionId' = http[s].sid
    /\ Posts(s, "call", http[s].sid)
    /\ UNCHANGED <<last, delivered, sessions, faults, restarts>>

\* Mutant: an error is taken for the result of the tool.
ReturnsAnyway(s) ==
    /\ pc[s] = "call" /\ http[s].st \in {"ok", "hollow", "error"}
    /\ Leaves(s, IF http[s].st = "hollow" THEN "hollow" ELSE "ok")
    /\ UNCHANGED <<sessionId, delivered, sessions, faults, restarts>>

\* A 2xx without an error member: the result is returned, and nobody looks at it.
Returns(s) ==
    /\ Answered(s, "call", "ok") \/ Answered(s, "call", "hollow")
    /\ Leaves(s, http[s].st)
    /\ UNCHANGED <<sessionId, delivered, sessions, faults, restarts>>

\* raise_for_status(), or an error in the JSON-RPC answer.
Refused(s) ==
    /\ http[s].st = "error"
    /\ Leaves(s, Failure(s))
    /\ UNCHANGED <<sessionId, delivered, sessions, faults, restarts>>

\* Mutant: a failed exchange is posted again.
PostsAgain(s) ==
    /\ http[s].st # "none"
    /\ Fault
    /\ Posts(s, pc[s], http[s].sid)
    /\ UNCHANGED <<sessionId, last, delivered, sessions, restarts>>

\* The exchange fails on the way there or back: a timeout, a lost connection, a
\* transient 5xx, a body that is not JSON.
ExchangeFails(s) ==
    /\ http[s].st # "none"
    /\ Fault
    /\ Leaves(s, Failure(s))
    /\ UNCHANGED <<sessionId, delivered, sessions, restarts>>

CallerStep(s) == Initialized(s) \/ Notified(s) \/ Returns(s) \/ Refused(s)

-----------------------------------------------------------------------------
(* The server *)

Answers(s, st, sid) == http' = [http EXCEPT ![s] = [st |-> st, sid |-> sid]]

ServesInitialize(s) ==
    /\ Answered(s, "initialize", "sent")
    /\ \E n \in Session :
         /\ sessions[n] = "free"
         /\ \A m \in 1..(n - 1) : sessions[m] # "free"
         /\ sessions' = [sessions EXCEPT ![n] = "new"]
         /\ Answers(s, "ok", n)
    /\ UNCHANGED <<sessionId, pc, last, delivered, faults, restarts>>

ServesNotify(s) ==
    /\ Answered(s, "notify", "sent")
    /\ LET n == http[s].sid IN
         IF sessions[n] = "gone"
           THEN Answers(s, "error", n) /\ UNCHANGED sessions
           ELSE Answers(s, "ok", n) /\ sessions' = [sessions EXCEPT ![n] = "ready"]
    /\ UNCHANGED <<sessionId, pc, last, delivered, faults, restarts>>

\* The tool runs and its result comes back, or the answer is hollow and the
\* message may have been delivered or not.
ServesCall(s) ==
    /\ Answered(s, "call", "sent")
    /\ LET n == http[s].sid
           Delivers == delivered' = [delivered EXCEPT ![s] = @ + 1]
       IN  \/ /\ sessions[n] # "ready"
              /\ Answers(s, "error", n)
              /\ UNCHANGED <<delivered, faults>>
           \/ /\ sessions[n] = "ready"
              /\ Answers(s, "ok", n)
              /\ Delivers
              /\ UNCHANGED faults
           \/ /\ sessions[n] = "ready"
              /\ Fault
              /\ Answers(s, "hollow", n)
              /\ Delivers \/ UNCHANGED delivered
    /\ UNCHANGED <<sessionId, pc, last, sessions, restarts>>

Serves(s) == ServesInitialize(s) \/ ServesNotify(s) \/ ServesCall(s)

Restarts ==
    /\ restarts < MaxRestarts
    /\ restarts' = restarts + 1
    /\ sessions' = [n \in Session |-> IF sessions[n] = "free" THEN "free" ELSE "gone"]
    /\ UNCHANGED <<sessionId, pc, http, last, delivered, faults>>

Next ==
    \/ \E s \in Callers : Sends(s) \/ CallerStep(s) \/ ExchangeFails(s) \/ Serves(s)
    \/ Restarts

Spec == Init /\ [][Next]_vars

\* Messages keep coming, tasks run and the server answers what reaches it.
FairSpec ==
    Spec /\ \A s \in Callers : WF_vars(Sends(s)) /\ WF_vars(CallerStep(s)) /\ WF_vars(Serves(s))

-----------------------------------------------------------------------------
(* Properties *)

\* A committed session is one the server has initialized (it may have forgotten
\* it since): a handshake that breaks off half-way, or that another caller does
\* at the same time, never leaves the sender with an id the server does not
\* serve (_ensure_initialized commits after the notification).
CommittedIsInitialized == sessionId # 0 => sessions[sessionId] \in {"ready", "gone"}

\* What a send reports fits what became of its message: delivered if it returns on
\* the result of the tool, not delivered if the handshake failed it.  The rest is
\* open: a call that fails may have been served, and one that returns on a hollow
\* answer, which _call() takes for a success, may not have been.
OutcomeFits ==
    \A s \in Callers :
        pc[s] = "idle" => /\ last[s] = "ok" => delivered[s] = 1
                          /\ last[s] = "unsent" => delivered[s] = 0

Forgotten == sessionId # 0 /\ sessions[sessionId] = "gone"

\* However handshakes and calls break off or are answered hollow, every caller gets
\* messages delivered again, unless the server has forgotten the committed session.
RecoversUnlessForgotten ==
    \A s \in Callers : <>[]Forgotten \/ []<>(pc[s] = "idle" /\ last[s] = "ok")

\* A reachable server is all the sender needs to deliver again.  The code does
\* not do this after a restart of the server: no answer clears _session_id.
Recovers == \A s \in Callers : []<>(pc[s] = "idle" /\ last[s] = "ok")
=============================================================================
