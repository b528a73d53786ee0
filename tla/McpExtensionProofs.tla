------------------------- MODULE McpExtensionProofs -------------------------
(***************************************************************************)
(* Theorems about McpExtension, for every number of slots, sessions,       *)
(* faults and restarts.                                                    *)
(***************************************************************************)
EXTENDS McpExtension, TLAPS

(* The requests *)

\* What a request is at any time: a caller that waits has an entry, a success ends it,
\* and a result is answered and reported only for what the server has served.
Sound(q) ==
    /\ q \in Request
    /\ q.promise = "pending" => q.kept
    /\ q.promise \in Success => q.net = "over"
    /\ q.promise = "resolved" \/ q.net = "ok" => q.served

\* What the server knows of it: it belongs to a session, which was ready when it was
\* answered with a success.
Backed(q) ==
    /\ q.net = "sent" => q.sid \in Session
    /\ q.promise \in Success \/ q.net \in {"ok", "hollow"}
         => q.sid \in Session /\ sessions[q.sid] \in {"ready", "gone"}

SlotInv ==
    /\ request \in [Slots -> Request]
    /\ \A r \in Slots : Sound(request[r]) /\ Backed(request[r])

\* The request of a slot moves on, the others stay.
LEMMA SlotMoves ==
  ASSUME SlotInv, NEW r \in Slots, NEW q, Sound(q), Backed(q), UNCHANGED sessions,
         request' = [request EXCEPT ![r] = q]
  PROVE  SlotInv'
BY DEF SlotInv, Sound, Backed

\* A new request waits, with an entry.
LEMMA RequestsSound ==
  ASSUME SlotInv, sessionId \in Session, NEW r \in Slots, NEW kind \in {"list", "call"},
         Requests(r, kind), UNCHANGED sessions
  PROVE  SlotInv'
<1> DEFINE q == [kind |-> kind, sid |-> sessionId, net |-> "sent", promise |-> "pending",
                 kept |-> TRUE, served |-> FALSE]
<1>1. Sound(q) /\ Backed(q)
  BY ExtensionAssumption DEF Sound, Backed, Request, Session, Success
<1> QED
  BY <1>1, SlotMoves DEF Requests

\* The entry goes, and whoever waits is told.
LEMMA GivesUpSound ==
  ASSUME SlotInv, NEW r \in Slots, GivesUp(r), UNCHANGED sessions
  PROVE  SlotInv'
<1> DEFINE q == [request[r] EXCEPT !.kept = FALSE,
                                   !.promise = IF @ = "pending" THEN "rejected" ELSE @]
<1>1. Sound(q) /\ Backed(q)
  BY DEF SlotInv, Sound, Backed, Request, Success
<1>2. request' = [request EXCEPT ![r] = q]
  BY DEF GivesUp
<1> QED
  BY <1>1, <1>2, SlotMoves

\* An answer or a failure arrives.
LEMMA ArrivesSound ==
  ASSUME SlotInv, NEW r \in Slots, Arrives(r)
  PROVE  SlotInv'
<1>0. UNCHANGED sessions
  BY DEF Arrives, AnswerArrives, FailureArrives, serverVars
<1>1. CASE AnswerArrives(r)
  <2> DEFINE as == CASE request[r].net = "ok" -> "resolved"
                     [] request[r].net = "hollow" -> "hollow"
                     [] request[r].net = "rpc_error" -> "rejected"
             q == IF request[r].kept
                    THEN [request[r] EXCEPT !.kept = FALSE,
                                            !.net = IF @ \in Answer THEN "over" ELSE @,
                                            !.promise = IF @ = "pending" THEN as ELSE @]
                    ELSE [request[r] EXCEPT !.net = "over"]
  <2>1. as \in {"resolved", "hollow", "rejected"} /\ (as = "resolved" => request[r].net = "ok")
        /\ (as \in Success => request[r].net \in {"ok", "hollow"}) /\ request[r].net \in Answer
    BY <1>1 DEF AnswerArrives, Answer, Success
  <2>2. request[r] \in Request /\ Sound(request[r]) /\ Backed(request[r])
    BY DEF SlotInv
  <2> HIDE DEF as
  <2>3. Sound(q) /\ Backed(q)
    BY <2>1, <2>2 DEF Sound, Backed, Request, Success, Answer
  <2>4. request' = [request EXCEPT ![r] = q]
    BY <1>1 DEF AnswerArrives, Settles, as
  <2> QED
    BY <1>0, <2>3, <2>4, SlotMoves
<1>2. CASE FailureArrives(r)
  <2> DEFINE q == [request[r] EXCEPT !.net = "over",
                     !.promise = IF request[r].kept /\ @ = "pending" THEN "rejected" ELSE @]
  <2>1. Sound(q) /\ Backed(q)
    BY DEF SlotInv, Sound, Backed, Request, Success
  <2>2. request' = [request EXCEPT ![r] = q]
    BY <1>2 DEF FailureArrives
  <2> QED
    BY <1>0, <2>1, <2>2, SlotMoves
<1> QED
  BY <1>1, <1>2 DEF Arrives

\* The server and the network decide what will arrive.
LEMMA ServesSound ==
  ASSUME SlotInv, NEW r \in Slots, Serves(r) \/ ExchangeFails(r)
  PROVE  SlotInv'
<1>0. UNCHANGED sessions /\ request[r] \in Request /\ Sound(request[r]) /\ Backed(request[r])
  BY DEF Serves, ExchangeFails, SlotInv
<1>1. PICK net \in {"ok", "hollow", "rpc_error", "failed", "lost"}, served \in BOOLEAN :
        /\ request' = [request EXCEPT ![r] = [request[r] EXCEPT !.net = net, !.served = served]]
        /\ net = "ok" => served
        /\ net \in {"ok", "hollow"} => request[r].sid \in Session /\ sessions[request[r].sid] = "ready"
  <2>1. CASE Serves(r)
    <3>1. request[r].net = "sent" /\ request[r].sid \in Session
      BY <1>0, <2>1 DEF Serves, Backed
    <3>2. CASE sessions[request[r].sid] # "ready"
      <4>1. PICK net \in {"failed", "rpc_error"} :
              request' = [request EXCEPT ![r] = [request[r] EXCEPT !.net = net, !.served = FALSE]]
        BY <2>1, <3>2 DEF Serves
      <4> QED
        BY <4>1
    <3>3. CASE sessions[request[r].sid] = "ready"
      <4>1. PICK net \in {"ok", "rpc_error", "hollow"}, served \in BOOLEAN :
              /\ request' = [request EXCEPT ![r] = [request[r] EXCEPT !.net = net, !.served = served]]
              /\ net = "ok" => served
        BY <2>1, <3>3 DEF Serves
      <4> QED
        BY <3>1, <3>3, <4>1
    <3> QED
      BY <3>2, <3>3
  <2>2. CASE ExchangeFails(r)
    <3>1. PICK how \in {"failed", "lost"} : request' = [request EXCEPT ![r].net = how]
      BY <2>2 DEF ExchangeFails
    <3>2. request' = [request EXCEPT ![r] = [request[r] EXCEPT !.net = how, !.served = request[r].served]]
      BY <1>0, <3>1 DEF SlotInv, Request
    <3> QED
      BY <1>0, <3>2 DEF Request
  <2> QED
    BY <2>1, <2>2
<1>2. request[r].promise \notin Success
  BY <1>0 DEF Serves, ExchangeFails, Answer, Sound
<1>3. Sound([request[r] EXCEPT !.net = net, !.served = served])
  BY <1>0, <1>1, <1>2 DEF Sound, Request, Success
<1>4. Backed([request[r] EXCEPT !.net = net, !.served = served])
  BY <1>0, <1>1, <1>2 DEF Backed, Request
<1> QED
  BY <1>0, <1>1, <1>3, <1>4, SlotMoves

-----------------------------------------------------------------------------
(* The handshake *)

\* The session of the handshake has been opened, and what the server did with the
\* notification is known when it is answered; a client that is connected is past
\* the handshake and keeps its session; and only a connected one has tools or asks
\* for them.
HandshakeInv ==
    /\ exchange.st # "none" => handler \in {"initialize", "notify"} /\ ~connected
    /\ handler \in {"initialize", "notify"} => ~connected
    /\ Answered("initialize", "ok") => exchange.sid \in Session /\ sessions[exchange.sid] # "free"
    /\ handler = "notify" => /\ sessionId = exchange.sid
                             /\ sessionId \in Session /\ sessions[sessionId] # "free"
                             /\ exchange.st # "sent"
                                  => sessions[sessionId] \in {"ready", "refused", "gone"}
    /\ connected => sessionId \in Session /\ sessions[sessionId] \in {"ready", "refused", "gone"}
    /\ handler = "list" \/ tools => connected

IInv == TypeOK /\ SlotInv /\ HandshakeInv

\* The steps of start() and of the handler.
LEMMA StartKeeps ==
  ASSUME IInv, StartStep \/ HandshakeFails
  PROVE  IInv'
<1> USE DEF IInv
<1>0. 0 \in 0..MaxSessions
  BY ExtensionAssumption
<1>1. CASE StartsHandshake \/ Initialized
  <2>1. exchange.sid \in 0..MaxSessions
    BY DEF TypeOK
  <2>4. PICK what \in {"initialize", "notify"}, sid \in 0..MaxSessions :
          handler' = what /\ exchange' = [st |-> "sent", sid |-> sid]
    BY <1>0, <1>1, <2>1 DEF StartsHandshake, Initialized, Posts
  <2>5. TypeOK'
    <3>1. exchange' \in [st : {"none", "sent", "ok", "error"}, sid : 0..MaxSessions]
      BY <2>4
    <3>2. sessionId' \in 0..MaxSessions /\ listed' \in BOOLEAN
      BY <1>1, <2>1 DEF TypeOK, StartsHandshake, Initialized
    <3>3. UNCHANGED <<connected, tools, request, sessions, faults, restarts>>
      BY <1>1 DEF StartsHandshake, Initialized, serverVars
    <3> QED
      BY <2>4, <3>1, <3>2, <3>3 DEF TypeOK
  <2>2. HandshakeInv'
    BY <1>1 DEF TypeOK, StartsHandshake, Initialized, Posts, serverVars, HandshakeInv, Answered
  <2>3. SlotInv'
    BY <1>1 DEF StartsHandshake, Initialized, serverVars, SlotInv, Backed
  <2> QED
    BY <2>2, <2>3, <2>5
<1>2. ASSUME NEW r \in Slots, StartsListing(r) \/ Notified(r) PROVE IInv'
  <2>1. SlotInv'
    BY <1>2, RequestsSound DEF StartsListing, Notified, HandshakeInv, serverVars
  <2>2. TypeOK'
    <3>1. exchange' \in [st : {"none", "sent", "ok", "error"}, sid : 0..MaxSessions]
      BY <1>0, <1>2 DEF TypeOK, StartsListing, Notified, NoExchange
    <3>2. connected' \in BOOLEAN /\ listed' \in BOOLEAN /\ handler' = "list"
      BY <1>2 DEF TypeOK, StartsListing, Notified
    <3>3. UNCHANGED <<sessionId, tools, sessions, faults, restarts>>
      BY <1>2 DEF StartsListing, Notified, serverVars
    <3> QED
      BY <2>1, <3>1, <3>2, <3>3 DEF TypeOK, SlotInv
  <2>3. HandshakeInv'
    BY <1>2 DEF StartsListing, Notified, NoExchange, serverVars, HandshakeInv, Answered
  <2> QED
    BY <2>1, <2>2, <2>3
<1>3. ASSUME NEW r \in Slots, Listed(r) PROVE IInv'
  <2>1. Sound([request[r] EXCEPT !.kind = "listed"]) /\ Backed([request[r] EXCEPT !.kind = "listed"])
    BY DEF SlotInv, Sound, Backed, Request
  <2>2. SlotInv'
    <3>1. request' = [request EXCEPT ![r] = [request[r] EXCEPT !.kind = "listed"]] /\ UNCHANGED sessions
      BY <1>3 DEF Listed, serverVars
    <3> QED
      BY <2>1, <3>1, SlotMoves
  <2>3. TypeOK'
    <3>1. listed' \in BOOLEAN /\ tools' \in BOOLEAN
      BY <1>3, Zenon DEF Listed
    <3> QED
      BY <1>3, <2>2, <3>1 DEF TypeOK, Listed, serverVars, SlotInv
  <2>4. HandshakeInv'
    BY <1>3 DEF Listed, serverVars, HandshakeInv, Answered
  <2> QED
    BY <2>2, <2>3, <2>4
<1>4. CASE HandshakeFails
  <2>1. TypeOK'
    BY <1>4, ExtensionAssumption DEF TypeOK, HandshakeFails, Fault, NoExchange, serverVars
  <2>2. HandshakeInv'
    BY <1>4 DEF HandshakeFails, Fault, NoExchange, serverVars, HandshakeInv, Answered
  <2>3. SlotInv'
    BY <1>4 DEF HandshakeFails, SlotInv, Backed
  <2> QED
    BY <2>1, <2>2, <2>3
<1> QED
  BY <1>1, <1>2, <1>3, <1>4 DEF StartStep

\* The server's part of the handshake.
LEMMA ServerKeeps ==
  ASSUME IInv, ServesInitialize \/ ServesNotify \/ Restarts
  PROVE  IInv'
<1> USE DEF IInv
<1>1. SlotInv'
  <2>1. UNCHANGED request
    BY DEF ServesInitialize, ServesNotify, Restarts, clientVars
  <2>2. \A n \in Session : sessions[n] \in {"ready", "gone"} => sessions'[n] \in {"ready", "gone"}
    BY DEF ServesInitialize, ServesNotify, Restarts, TypeOK
  <2>3. ASSUME NEW r \in Slots PROVE Sound(request[r])' /\ Backed(request[r])'
    BY <2>1, <2>2 DEF SlotInv, Sound, Backed
  <2> QED
    BY <2>1, <2>3 DEF SlotInv
<1>2. CASE ServesInitialize
  <2>1. PICK n \in Session : /\ sessions[n] = "free"
                             /\ sessions' = [sessions EXCEPT ![n] = "new"]
                             /\ exchange' = [st |-> "ok", sid |-> n]
    BY <1>2 DEF ServesInitialize
  <2>2. handler = "initialize" /\ ~connected
        /\ UNCHANGED <<handler, sessionId, connected, listed, tools, request, faults, restarts>>
    BY <1>2 DEF ServesInitialize, Answered, HandshakeInv
  <2>3. TypeOK'
    BY <2>1, <2>2, ExtensionAssumption DEF TypeOK, Session
  <2>4. HandshakeInv'
    BY <2>1, <2>2 DEF TypeOK, HandshakeInv, Answered
  <2> QED
    BY <1>1, <2>3, <2>4
<1>3. CASE ServesNotify
  <2>1. PICK st \in {"ok", "error"}, got \in {"ready", "refused", "gone"} :
          /\ exchange' = [exchange EXCEPT !.st = st]
          /\ sessions' = [sessions EXCEPT ![exchange.sid] = got]
          /\ faults' \in 0..MaxFaults
    <3>1. sessions[exchange.sid] = "gone" => sessions = [sessions EXCEPT ![exchange.sid] = "gone"]
      BY DEF TypeOK
    <3> QED
      BY <1>3, <3>1, ExtensionAssumption DEF ServesNotify, Fault, TypeOK
  <2>2. handler = "notify" /\ ~connected /\ sessionId = exchange.sid /\ sessionId \in Session
        /\ UNCHANGED <<handler, sessionId, connected, listed, tools, request, restarts>>
    BY <1>3 DEF ServesNotify, Answered, HandshakeInv
  <2>3. TypeOK'
    BY <2>1, <2>2 DEF TypeOK
  <2>4. HandshakeInv'
    BY <2>1, <2>2 DEF TypeOK, HandshakeInv, Answered
  <2> QED
    BY <1>1, <2>3, <2>4
<1>4. CASE Restarts
  <2>1. TypeOK'
    BY <1>4, ExtensionAssumption DEF TypeOK, Restarts, clientVars
  <2>2. \A n \in Session : sessions[n] # "free" => sessions'[n] = "gone"
    BY <1>4 DEF Restarts
  <2>3. HandshakeInv'
    BY <1>4, <2>2 DEF Restarts, clientVars, HandshakeInv, Answered
  <2> QED
    BY <1>1, <2>1, <2>3
<1> QED
  BY <1>2, <1>3, <1>4

\* The steps of the requests.
LEMMA RequestKeeps ==
  ASSUME IInv, NEW r \in Slots,
         Calls(r) \/ Arrives(r) \/ TimesOut(r) \/ TimesOutEarly(r) \/ Aborts(r) \/ Serves(r)
           \/ ExchangeFails(r)
  PROVE  IInv'
<1> USE DEF IInv
<1>1. UNCHANGED <<clientVars, sessions, restarts>>
  BY DEF Calls, Arrives, AnswerArrives, FailureArrives, TimesOut, TimesOutEarly, Aborts, GivesUp,
     Serves, ExchangeFails, serverVars
<1>2. SlotInv'
  BY <1>1, RequestsSound, GivesUpSound, ArrivesSound, ServesSound
     DEF Calls, TimesOut, TimesOutEarly, Aborts, HandshakeInv
<1>3. faults' \in 0..MaxFaults
  BY ExtensionAssumption DEF Calls, Arrives, AnswerArrives, FailureArrives, TimesOut, TimesOutEarly,
     Aborts, GivesUp, Serves, ExchangeFails, Fault, serverVars, TypeOK
<1>4. TypeOK'
  BY <1>1, <1>2, <1>3 DEF TypeOK, SlotInv, clientVars
<1>5. HandshakeInv'
  BY <1>1 DEF HandshakeInv, clientVars, Answered
<1> QED
  BY <1>2, <1>4, <1>5

-----------------------------------------------------------------------------
(* The theorems *)

\* The invariant holds in every state.
LEMMA ExtensionInvariant == Spec => []IInv
<1>1. Init => IInv
  <2> SUFFICES ASSUME Init PROVE IInv
    OBVIOUS
  <2>1. Sound(NoRequest) /\ Backed(NoRequest)
    BY ExtensionAssumption DEF Sound, Backed, NoRequest, Request, Success
  <2>2. SlotInv
    BY <2>1 DEF Init, SlotInv, Sound
  <2>3. 0 \in 0..MaxSessions /\ 0 \in 0..MaxFaults /\ 0 \in 0..MaxRestarts
    BY ExtensionAssumption
  <2>4. TypeOK
    BY <2>2, <2>3 DEF Init, TypeOK, SlotInv, NoExchange
  <2>5. HandshakeInv
    BY DEF Init, HandshakeInv, NoExchange, Answered
  <2> QED
    BY <2>2, <2>4, <2>5 DEF IInv
<1>2. IInv /\ [Next]_vars => IInv'
  <2> SUFFICES ASSUME IInv, [Next]_vars PROVE IInv'
    OBVIOUS
  <2>1. CASE UNCHANGED vars
    BY <2>1 DEF vars, clientVars, serverVars, IInv, TypeOK, SlotInv, Backed, HandshakeInv, Answered
  <2> QED
    BY <2>1, StartKeeps, ServerKeeps, RequestKeeps DEF Next
<1> QED
  BY <1>1, <1>2, PTL DEF Spec

\* The variables hold values of the kinds the code keeps in them.
THEOREM ExtensionTypeCorrect == Spec => []TypeOK
<1>1. IInv => TypeOK
  BY DEF IInv
<1> QED
  BY <1>1, ExtensionInvariant, PTL

\* However answers, failures, timeouts and aborts of requests race each other, a caller
\* that waits still has the entry and the timer that will settle it.
THEOREM WaitersAreKept == Spec => []WaiterIsKept
<1>1. IInv => WaiterIsKept
  BY DEF IInv, SlotInv, Sound, WaiterIsKept
<1> QED
  BY <1>1, ExtensionInvariant, PTL

\* A result is reported only for a request the server has served, and a success at all
\* only for one of a session it had initialized, whatever answers, failures, timeouts,
\* refusals and restarts race each other.
THEOREM SuccessesFit == Spec => []SuccessFits
<1>1. IInv => SuccessFits
  BY DEF IInv, SlotInv, Sound, Backed, SuccessFits
<1> QED
  BY <1>1, ExtensionInvariant, PTL

\* Wherever a handshake breaks off, a client that counts as connected has notified the
\* server of its session.
THEOREM ConnectedHasShakenHands == Spec => []ConnectedHasNotified
<1>1. IInv => ConnectedHasNotified
  BY DEF IInv, HandshakeInv, ConnectedHasNotified
<1> QED
  BY <1>1, ExtensionInvariant, PTL
=============================================================================
