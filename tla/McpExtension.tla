---------------------------- MODULE McpExtension ----------------------------
(***************************************************************************)
(* The extension hal/.pi/extensions/telegramy.ts, by which PI reaches the  *)
(* MCP server of telegramy itself (media, files): McpHttpClient and the    *)
(* session_start handler that connects it and registers the tools.         *)
(*                                                                         *)
(* JavaScript runs one callback at a time; a step is one callback, or the  *)
(* code from one await to the next.  PI emits session_start for one        *)
(* session after the other and runs tool calls at any time.  A slot stands *)
(* for a request that is of interest to somebody or on the network, and is *)
(* used again when it is neither (the code numbers requests for ever).     *)
(* The entry of a request in the pending map, its timer and its abort      *)
(* listener are made together and removed together by cleanup(): kept.     *)
(*                                                                         *)
(* sendHttp() makes a success of every 2xx that holds no JSON-RPC error.   *)
(* Such an answer is "ok" when it holds the result, and "hollow" when it   *)
(* does not: without a data line sendHttp() invents the result {}, and a   *)
(* first data line that is another event has none.                         *)
(***************************************************************************)
EXTENDS Integers

CONSTANTS
    Slots,        \* bound: requests at the same time
    MaxSessions,  \* bound: sessions the server opens
    MaxFaults,    \* bound: exchanges that fail, are refused, get lost or are hollow
    MaxRestarts   \* bound: restarts of the server

ASSUME ExtensionAssumption ==
    /\ MaxSessions \in Nat \ {0}
    /\ MaxFaults \in Nat
    /\ MaxRestarts \in Nat

VARIABLES
    handler,    \* the session_start handler: what it awaits, or "idle"
    exchange,   \* the exchange of its handshake and the session id on it
    sessionId,  \* 0 for null
    connected,
    listed,     \* the last session_start got the list of tools
    tools,      \* the tools are registered
    request,    \* for each slot, its request
    sessions,   \* the server's sessions
    faults,     \* faults so far
    restarts    \* restarts of the server

clientVars == <<handler, exchange, sessionId, connected, listed, tools>>
serverVars == <<sessions, faults, restarts>>
vars == <<clientVars, request, serverVars>>

Session == 1..MaxSessions

\* What sendHttp() resolves to, and what of it the caller takes for a success.
Answer == {"ok", "hollow", "rpc_error"}
Success == {"resolved", "hollow"}

Request == [kind : {"list", "listed", "call"}, sid : 0..MaxSessions,
            net : {"sent", "ok", "hollow", "rpc_error", "failed", "lost", "over"},
            promise : {"pending", "resolved", "hollow", "rejected"},
            kept : BOOLEAN, served : BOOLEAN]

\* Every variable holds a value of the kind the code keeps in it.
TypeOK ==
    /\ handler \in {"idle", "initialize", "notify", "list"}
    /\ exchange \in [st : {"none", "sent", "ok", "error"}, sid : 0..MaxSessions]
    /\ sessionId \in 0..MaxSessions
    /\ connected \in BOOLEAN
    /\ listed \in BOOLEAN
    /\ tools \in BOOLEAN
    /\ request \in [Slots -> Request]
    /\ sessions \in [Session -> {"free", "new", "ready", "refused", "gone"}]
    /\ faults \in 0..MaxFaults
    /\ restarts \in 0..MaxRestarts

NoExchange == [st |-> "none", sid |-> 0]
NoRequest == [kind |-> "call", sid |-> 0, net |-> "over", promise |-> "rejected",
              kept |-> FALSE, served |-> FALSE]

Init ==
    /\ handler = "idle"
    /\ exchange = NoExchange
    /\ sessionId = 0
    /\ connected = FALSE
    /\ listed = FALSE
    /\ tools = FALSE
    /\ request = [r \in Slots |-> NoRequest]
    /\ sessions = [n \in Session |-> "free"]
    /\ faults = 0
    /\ restarts = 0

-----------------------------------------------------------------------------
(* request() *)

Usable(r) ==
    /\ request[r].net \in {"over", "lost"} /\ ~request[r].kept /\ request[r].promise # "pending"
    /\ ~(request[r].kind = "list" /\ handler = "list")

\* The request is entered in the map, with a timer, and posted with the session
\* id of the moment.
Requests(r, kind) ==
    /\ Usable(r)
    /\ request' = [request EXCEPT ![r] = [kind |-> kind, sid |-> sessionId, net |-> "sent",
                                          promise |-> "pending", kept |-> TRUE, served |-> FALSE]]

\* cleanup(), then resolve or reject: what is settled already stays as it is.
Settles(r, as) ==
    request' = [request EXCEPT ![r].kept = FALSE, ![r].net = IF @ \in Answer THEN "over" ELSE @,
                               ![r].promise = IF @ = "pending" THEN as ELSE @]

\* Mutant: a JSON-RPC answer is handed on as it came, an error too.
HandsOn(r) ==
    /\ request[r].net \in Answer
    /\ request' = [request EXCEPT ![r].net = "over", ![r].kept = FALSE,
                                  ![r].promise = IF request[r].kept THEN request[r].net ELSE @]
    /\ UNCHANGED <<clientVars, serverVars>>

\* The answer is parsed, and the promise rejected with the error in it or resolved
\* with the rest, be it empty; nobody is told when the entry is gone.
AnswerArrives(r) ==
    /\ request[r].net \in Answer
    /\ IF request[r].kept
         THEN Settles(r, CASE request[r].net = "ok" -> "resolved"
                           [] request[r].net = "hollow" -> "hollow"
                           [] request[r].net = "rpc_error" -> "rejected")
         ELSE request' = [request EXCEPT ![r].net = "over"]
    /\ UNCHANGED <<clientVars, serverVars>>

\* Mutants: a failure removes the entry and rejects nothing; the status of the
\* answer is not looked at.
ForgetsRequest(r) ==
    /\ request[r].net = "failed"
    /\ request' = [request EXCEPT ![r].net = "over", ![r].kept = FALSE]
    /\ UNCHANGED <<clientVars, serverVars>>

TakesAnyStatus(r) ==
    /\ request[r].net = "failed"
    /\ request' = [request EXCEPT ![r].net = "over", ![r].kept = FALSE,
                                  ![r].promise = IF request[r].kept THEN "resolved" ELSE @]
    /\ UNCHANGED <<clientVars, serverVars>>

\* sendHttp() has thrown: the promise is rejected, without cleanup().
FailureArrives(r) ==
    /\ request[r].net = "failed"
    /\ request' = [request EXCEPT ![r].net = "over",
                                  ![r].promise = IF request[r].kept /\ @ = "pending" THEN "rejected" ELSE @]
    /\ UNCHANGED <<clientVars, serverVars>>

Fault == faults < MaxFaults /\ faults' = faults + 1

\* Mutant: the request is rejected and nothing is cleaned up.
OnlyRejects(r) ==
    /\ request[r].kept
    /\ request' = [request EXCEPT ![r].promise = IF @ = "pending" THEN "rejected" ELSE @]
    /\ UNCHANGED clientVars

\* cleanup() and reject(), by the timer or the abort listener; the exchange goes on.
GivesUp(r) ==
    /\ request[r].kept
    /\ request' = [request EXCEPT ![r].kept = FALSE,
                                  ![r].promise = IF @ = "pending" THEN "rejected" ELSE @]
    /\ UNCHANGED clientVars

\* The timeout of the method has passed and no answer is on its way ...
TimesOut(r) == request[r].net \in {"over", "lost"} /\ GivesUp(r) /\ UNCHANGED serverVars

\* ... or one is, and will be late (bound: a fault).
TimesOutEarly(r) ==
    /\ request[r].net \notin {"over", "lost"}
    /\ GivesUp(r) /\ Fault
    /\ UNCHANGED <<sessions, restarts>>

\* PI aborts a tool call (the relay's abort, for one).
Aborts(r) == request[r].kind = "call" /\ GivesUp(r) /\ UNCHANGED serverVars

-----------------------------------------------------------------------------
(* session_start *)

Posts(what, sid) == handler' = what /\ exchange' = [st |-> "sent", sid |-> sid]
Answered(what, st) == handler = what /\ exchange.st = st

\* A session starts: a client that is not connected shakes hands ...
StartsHandshake ==
    /\ handler = "idle"
    /\ ~connected
    /\ Posts("initialize", 0)
    /\ listed' = FALSE
    /\ UNCHANGED <<sessionId, connected, tools, request, serverVars>>

\* ... a connected one asks for the tools at once.
StartsListing(r) ==
    /\ handler = "idle"
    /\ connected
    /\ handler' = "list"
    /\ listed' = FALSE
    /\ Requests(r, "list")
    /\ UNCHANGED <<exchange, sessionId, connected, tools, serverVars>>

\* Mutant: the client counts as connected before the notification.
ConnectsEarly ==
    /\ Answered("initialize", "ok")
    /\ sessionId' = exchange.sid
    /\ connected' = TRUE
    /\ Posts("notify", exchange.sid)
    /\ UNCHANGED <<listed, tools, request, serverVars>>

\* initialize is answered: its session id is kept, and goes on the notification.
Initialized ==
    /\ Answered("initialize", "ok")
    /\ sessionId' = exchange.sid
    /\ Posts("notify", exchange.sid)
    /\ UNCHANGED <<connected, listed, tools, request, serverVars>>

\* The notification is answered, whatever the status (a refusal is only logged).
Notified(r) ==
    /\ handler = "notify" /\ exchange.st \in {"ok", "error"}
    /\ connected' = TRUE
    /\ handler' = "list"
    /\ exchange' = NoExchange
    /\ Requests(r, "list")
    /\ UNCHANGED <<sessionId, listed, tools, serverVars>>

\* start() throws, on a status of initialize that is not ok or on a failing fetch
\* (of the body too, the session id kept by then): the handler tells and leaves.
HandshakeFails ==
    /\ exchange.st # "none"
    /\ Fault
    /\ handler' = "idle"
    /\ exchange' = NoExchange
    /\ sessionId' \in {sessionId} \cup IF Answered("initialize", "ok") THEN {exchange.sid} ELSE {}
    /\ UNCHANGED <<connected, listed, tools, request, sessions, restarts>>

\* The list has come and its tools are registered, of a hollow answer none; or the
\* handler gives up.
Listed(r) ==
    /\ handler = "list"
    /\ request[r].kind = "list" /\ request[r].promise # "pending"
    /\ handler' = "idle"
    /\ listed' = (request[r].promise = "resolved")
    /\ tools' = (tools \/ request[r].promise = "resolved")
    /\ request' = [request EXCEPT ![r].kind = "listed"]
    /\ UNCHANGED <<exchange, sessionId, connected, serverVars>>

\* execute(): PI runs a registered tool; a call whose signal is aborted already is
\* rejected before it is sent and changes nothing.  Bound: a slot is left for the
\* handler.
Calls(r) ==
    /\ tools
    /\ handler = "list" \/ \E s \in Slots \ {r} : Usable(s)
    /\ Requests(r, "call")
    /\ UNCHANGED <<clientVars, serverVars>>

-----------------------------------------------------------------------------
(* The server and the network *)

ServesInitialize ==
    /\ Answered("initialize", "sent")
    /\ \E n \in Session :
         /\ sessions[n] = "free"
         /\ \A m \in 1..(n - 1) : sessions[m] # "free"
         /\ sessions' = [sessions EXCEPT ![n] = "new"]
         /\ exchange' = [st |-> "ok", sid |-> n]
    /\ UNCHANGED <<handler, sessionId, connected, listed, tools, request, faults, restarts>>

ServesNotify ==
    /\ Answered("notify", "sent")
    /\ \/ /\ sessions[exchange.sid] = "new"
          /\ sessions' = [sessions EXCEPT ![exchange.sid] = "ready"]
          /\ exchange' = [exchange EXCEPT !.st = "ok"]
          /\ UNCHANGED faults
       \/ /\ sessions[exchange.sid] = "new" /\ Fault
          /\ sessions' = [sessions EXCEPT ![exchange.sid] = "refused"]
          /\ exchange' = [exchange EXCEPT !.st = "error"]
       \/ /\ sessions[exchange.sid] = "gone"
          /\ exchange' = [exchange EXCEPT !.st = "error"]
          /\ UNCHANGED <<sessions, faults>>
    /\ UNCHANGED <<handler, sessionId, connected, listed, tools, request, restarts>>

\* A request of a session that is not ready is answered with an error, of HTTP or
\* JSON-RPC; any other is served, or answered with a JSON-RPC error, or the answer
\* is hollow and the request may have been served or not.
Serves(r) ==
    /\ request[r].net = "sent"
    /\ LET answered(net, served) == request' = [request EXCEPT ![r].net = net, ![r].served = served]
           ready == sessions[request[r].sid] = "ready"
       IN  \/ ~ready /\ UNCHANGED faults /\ \E net \in {"failed", "rpc_error"} : answered(net, FALSE)
           \/ ready /\ UNCHANGED faults /\ answered("ok", TRUE)
           \/ ready /\ Fault /\ answered("rpc_error", FALSE)
           \/ ready /\ Fault /\ \E served \in BOOLEAN : answered("hollow", served)
    /\ UNCHANGED <<clientVars, sessions, restarts>>

\* The exchange of a request fails on the way, or no answer ever comes.
ExchangeFails(r) ==
    /\ request[r].net \in {"sent"} \cup Answer
    /\ Fault
    /\ \E how \in {"failed", "lost"} : request' = [request EXCEPT ![r].net = how]
    /\ UNCHANGED <<clientVars, sessions, restarts>>

Restarts ==
    /\ restarts < MaxRestarts
    /\ restarts' = restarts + 1
    /\ sessions' = [n \in Session |-> IF sessions[n] = "free" THEN "free" ELSE "gone"]
    /\ UNCHANGED <<clientVars, request, faults>>

-----------------------------------------------------------------------------
StartStep == \/ StartsHandshake \/ Initialized
             \/ \E r \in Slots : StartsListing(r) \/ Notified(r) \/ Listed(r)

Arrives(r) == AnswerArrives(r) \/ FailureArrives(r)

Next ==
    \/ StartStep \/ HandshakeFails \/ ServesInitialize \/ ServesNotify \/ Restarts
    \/ \E r \in Slots : Calls(r) \/ Arrives(r) \/ TimesOut(r) \/ TimesOutEarly(r) \/ Aborts(r)
                          \/ Serves(r) \/ ExchangeFails(r)

Spec == Init /\ [][Next]_vars

\* Sessions keep starting, callbacks run, timers fire, and the server answers what
\* is not lost.
FairSpec ==
    /\ Spec
    /\ WF_vars(StartStep) /\ WF_vars(ServesInitialize \/ ServesNotify)
    /\ \A r \in Slots : WF_vars(Arrives(r)) /\ WF_vars(TimesOut(r)) /\ WF_vars(Serves(r))

-----------------------------------------------------------------------------
(* Properties *)

\* A caller that waits has an entry with a timer, so something will settle it: no
\* failure, late answer, timeout or abort removes the one without the other.
WaiterIsKept == \A r \in Slots : request[r].promise = "pending" => request[r].kept

\* A result is reported only for a request the server has served, and a success at
\* all, an empty one included, only for a request of a session the server had
\* initialized (it may have forgotten it since).  Whether the request behind an
\* empty success, a failure or a cancellation was served is open.
SuccessFits ==
    \A r \in Slots :
        /\ request[r].promise = "resolved" => request[r].served
        /\ request[r].promise \in Success => sessions[request[r].sid] \in {"ready", "gone"}

\* A connected client has told the server so: its session has got the notification,
\* or the server has refused it or forgotten the session (start()).
ConnectedHasNotified == connected => sessions[sessionId] \in {"ready", "refused", "gone"}

\* No entry, timer or listener stays for ever, that of a failed request, which
\* nothing but the timer or an abort removes, included.
EntriesGo == \A r \in Slots : request[r].kept ~> ~request[r].kept

\* The session is one the server will not serve, and the client will not leave.
Lost == connected /\ sessions[sessionId] \in {"refused", "gone"}

\* Sessions keep getting their tools, however handshakes and requests fail, unless
\* the client is stuck with a session that was refused or forgotten.
ListsUnlessLost == <>[]Lost \/ []<>listed
=============================================================================
