---------------------- MODULE TelegramyMcpSenderProofs ----------------------
(***************************************************************************)
(* Theorems about TelegramyMcpSender, for every number of callers,         *)
(* sessions, faults and restarts.                                          *)
(***************************************************************************)
EXTENDS TelegramyMcpSender, TLAPS

\* What holds of a caller s: its exchange is one of a send, the session it carries
\* has been opened, and initialized once the notification is answered; and its
\* message is delivered by the call if at all, and surely if the tool's result
\* comes back.
CallerInv(s) ==
    /\ pc[s] = "idle" <=> http[s].st = "none"
    /\ pc[s] \in {"notify", "call"} \/ Answered(s, "initialize", "ok")
         => http[s].sid \in Session /\ sessions[http[s].sid] # "free"
    /\ http[s].st = "hollow" => pc[s] = "call"
    /\ Answered(s, "notify", "ok") => sessions[http[s].sid] \in {"ready", "gone"}
    /\ http[s].st = "sent" \/ pc[s] \in {"initialize", "notify"} => delivered[s] = 0
    /\ Answered(s, "call", "ok") \/ (pc[s] = "idle" /\ last[s] = "ok") => delivered[s] = 1
    /\ pc[s] = "idle" /\ last[s] = "unsent" => delivered[s] = 0

\* The committed session and the callers agree with the server.
IInv ==
    /\ TypeOK
    /\ CommittedIsInitialized
    /\ \A s \in Callers : CallerInv(s)

\* A step of caller s that leaves the sessions and everybody else alone.
Own(s) ==
    /\ UNCHANGED sessions
    /\ \A t \in Callers \ {s} : /\ pc'[t] = pc[t] /\ http'[t] = http[t]
                                /\ last'[t] = last[t] /\ delivered'[t] = delivered[t]

\* The other callers do not notice such a step.
LEMMA OthersKeep ==
  ASSUME NEW s \in Callers, Own(s), \A t \in Callers : CallerInv(t)
  PROVE  \A t \in Callers \ {s} : CallerInv(t)'
BY DEF Own, CallerInv, Answered

-----------------------------------------------------------------------------
(* The steps of the sender *)

\* The beginning of a send: a committed session is one the server has opened.
LEMMA SendsKeeps ==
  ASSUME IInv, NEW s \in Callers, Sends(s)
  PROVE  IInv'
<1> USE DEF IInv
<1>1. PICK request \in {"initialize", "call"}, sid \in 0..MaxSessions :
        /\ pc' = [pc EXCEPT ![s] = request]
        /\ http' = [http EXCEPT ![s] = [st |-> "sent", sid |-> sid]]
        /\ request = "call" => sid = sessionId /\ sid # 0
  BY SenderAssumption DEF Sends, Posts, TypeOK
<1>2. UNCHANGED <<sessionId, last, sessions, faults, restarts>>
      /\ delivered' = [delivered EXCEPT ![s] = 0]
  BY DEF Sends
<1>3. TypeOK'
  BY <1>1, <1>2 DEF TypeOK
<1>4. CommittedIsInitialized'
  BY <1>2 DEF CommittedIsInitialized
<1>5. CallerInv(s)'
  <2>1. pc'[s] = request /\ http'[s] = [st |-> "sent", sid |-> sid] /\ delivered'[s] = 0
    BY <1>1, <1>2 DEF TypeOK
  <2>2. request = "call" => sid \in Session /\ sessions'[sid] # "free"
    BY <1>1, <1>2, SenderAssumption DEF CommittedIsInitialized, Session
  <2> QED
    BY <1>1, <2>1, <2>2 DEF CallerInv, Answered
<1>6. Own(s)
  BY <1>1, <1>2 DEF Own, TypeOK
<1> QED
  BY <1>3, <1>4, <1>5, <1>6, OthersKeep

\* The answers of the handshake: the id is committed after the notification.
LEMMA HandshakeKeeps ==
  ASSUME IInv, NEW s \in Callers, Initialized(s) \/ Notified(s)
  PROVE  IInv'
<1> USE DEF IInv
<1>1. /\ pc' = [pc EXCEPT ![s] = IF Initialized(s) THEN "notify" ELSE "call"]
      /\ http' = [http EXCEPT ![s] = [st |-> "sent", sid |-> http[s].sid]]
      /\ UNCHANGED <<last, delivered, sessions, faults, restarts>>
  BY DEF Initialized, Notified, Posts, Answered
<1>2. http[s].sid \in Session /\ sessions[http[s].sid] # "free" /\ delivered[s] = 0
  BY DEF Initialized, Notified, Answered, CallerInv
<1>3. sessionId' = sessionId \/ (sessionId' = http[s].sid /\ sessions[http[s].sid] \in {"ready", "gone"})
  BY DEF Initialized, Notified, Answered, CallerInv
<1>4. TypeOK'
  BY <1>1, <1>2, <1>3, SenderAssumption DEF TypeOK, Session
<1>5. CommittedIsInitialized'
  BY <1>1, <1>3 DEF CommittedIsInitialized
<1>6. CallerInv(s)'
  <2>1. pc'[s] \in {"notify", "call"} /\ http'[s] = [st |-> "sent", sid |-> http[s].sid]
        /\ delivered'[s] = 0
    BY <1>1, <1>2 DEF TypeOK
  <2> QED
    BY <1>1, <1>2, <2>1 DEF CallerInv, Answered
<1>7. Own(s)
  BY <1>1 DEF Own, TypeOK
<1> QED
  BY <1>4, <1>5, <1>6, <1>7, OthersKeep

\* The end of a send, with an answer or without one.
LEMMA EndKeeps ==
  ASSUME IInv, NEW s \in Callers, Returns(s) \/ Refused(s) \/ ExchangeFails(s)
  PROVE  IInv'
<1> USE DEF IInv
<1>1. PICK result \in {"ok", "hollow", "failed", "unsent"} :
        /\ pc' = [pc EXCEPT ![s] = "idle"]
        /\ http' = [http EXCEPT ![s] = NoExchange]
        /\ last' = [last EXCEPT ![s] = result]
        /\ result = "ok" => delivered[s] = 1
        /\ result = "unsent" => delivered[s] = 0
  <2>1. CASE Returns(s)
    BY <2>1 DEF Returns, Leaves, CallerInv, Answered
  <2>2. CASE Refused(s) \/ ExchangeFails(s)
    <3>1. http[s].st # "none" /\ Leaves(s, Failure(s))
      BY <2>2 DEF Refused, ExchangeFails
    <3>2. Failure(s) = "unsent" => delivered[s] = 0
      BY <3>1 DEF Failure, CallerInv, TypeOK
    <3> QED
      BY <3>1, <3>2 DEF Leaves, Failure
  <2> QED
    BY <2>1, <2>2
<1>2. UNCHANGED <<sessionId, delivered, sessions, restarts>> /\ faults' \in 0..MaxFaults
  BY SenderAssumption DEF Returns, Refused, ExchangeFails, Fault, TypeOK
<1>3. TypeOK'
  BY <1>1, <1>2, SenderAssumption DEF TypeOK, NoExchange
<1>4. CommittedIsInitialized'
  BY <1>2 DEF CommittedIsInitialized
<1>5. CallerInv(s)'
  <2>1. pc'[s] = "idle" /\ http'[s].st = "none" /\ last'[s] = result
    BY <1>1 DEF TypeOK, NoExchange
  <2> QED
    BY <1>1, <1>2, <2>1 DEF CallerInv, Answered
<1>6. Own(s)
  BY <1>1, <1>2 DEF Own, TypeOK
<1> QED
  BY <1>3, <1>4, <1>5, <1>6, OthersKeep

-----------------------------------------------------------------------------
(* The steps of the server *)

\* The server opens a session that nobody has got yet.
LEMMA InitializeKeeps ==
  ASSUME IInv, NEW s \in Callers, ServesInitialize(s)
  PROVE  IInv'
<1> USE DEF IInv
<1>1. PICK n \in Session : /\ sessions[n] = "free"
                           /\ sessions' = [sessions EXCEPT ![n] = "new"]
                           /\ http' = [http EXCEPT ![s] = [st |-> "ok", sid |-> n]]
  BY DEF ServesInitialize, Answers
<1>2. pc[s] = "initialize" /\ http[s].st = "sent"
      /\ UNCHANGED <<sessionId, pc, last, delivered, faults, restarts>>
  BY DEF ServesInitialize, Answered
<1>3. TypeOK'
  BY <1>1, <1>2, SenderAssumption DEF TypeOK, Session
<1>4. CommittedIsInitialized'
  BY <1>1, <1>2, SenderAssumption DEF CommittedIsInitialized, TypeOK, Session
<1>5. ASSUME NEW t \in Callers PROVE CallerInv(t)'
  <2>1. \A m \in Session : sessions[m] # "free" => sessions'[m] = sessions[m]
    BY <1>1 DEF TypeOK
  <2>2. sessions'[n] = "new"
    BY <1>1 DEF TypeOK
  <2>3. t = s => http'[t] = [st |-> "ok", sid |-> n]
    BY <1>1 DEF TypeOK
  <2>4. t # s => http'[t] = http[t]
    BY <1>1 DEF TypeOK
  <2>5. CASE t = s
    BY <1>2, <2>2, <2>3, <2>5 DEF CallerInv, Answered
  <2>6. CASE t # s
    BY <1>2, <2>1, <2>4, <2>6 DEF CallerInv, Answered
  <2> QED
    BY <2>5, <2>6
<1> QED
  BY <1>3, <1>4, <1>5

\* A session goes on to ready, and no session goes back.
LEMMA NotifyKeeps ==
  ASSUME IInv, NEW s \in Callers, ServesNotify(s)
  PROVE  IInv'
<1> USE DEF IInv
<1> DEFINE n == http[s].sid
<1>1. pc[s] = "notify" /\ http[s].st = "sent"
      /\ UNCHANGED <<sessionId, pc, last, delivered, faults, restarts>>
  BY DEF ServesNotify, Answered
<1>2. n \in Session /\ n \in 0..MaxSessions
  BY <1>1 DEF CallerInv, TypeOK
<1>3. PICK st \in {"ok", "error"} :
        /\ http' = [http EXCEPT ![s] = [st |-> st, sid |-> n]]
        /\ st = "ok" => sessions' = [sessions EXCEPT ![n] = "ready"]
        /\ st = "error" => UNCHANGED sessions
  BY DEF ServesNotify, Answers
<1>4. TypeOK'
  BY <1>1, <1>2, <1>3 DEF TypeOK
<1>5. \A m \in Session : sessions'[m] = sessions[m] \/ sessions'[m] = "ready"
  BY <1>3 DEF TypeOK
<1>6. CommittedIsInitialized'
  BY <1>1, <1>5, SenderAssumption DEF CommittedIsInitialized, TypeOK, Session
<1>7. ASSUME NEW t \in Callers PROVE CallerInv(t)'
  <2>1. t = s => http'[t] = [st |-> st, sid |-> n]
    BY <1>3 DEF TypeOK
  <2>2. t # s => http'[t] = http[t]
    BY <1>3 DEF TypeOK
  <2>3. st = "ok" => sessions'[n] = "ready"
    BY <1>2, <1>3 DEF TypeOK
  <2>4. CASE t = s
    BY <1>1, <1>2, <1>5, <2>1, <2>3, <2>4 DEF CallerInv, Answered
  <2>5. CASE t # s
    BY <1>1, <1>5, <2>2, <2>5 DEF CallerInv, Answered
  <2> QED
    BY <2>4, <2>5
<1> QED
  BY <1>4, <1>6, <1>7

\* A call is delivered when its result comes back, and not before it is served.
LEMMA CallKeeps ==
  ASSUME IInv, NEW s \in Callers, ServesCall(s)
  PROVE  IInv'
<1> USE DEF IInv
<1> DEFINE n == http[s].sid
<1>1. pc[s] = "call" /\ http[s].st = "sent" /\ delivered[s] = 0
      /\ UNCHANGED <<sessionId, pc, last, sessions, restarts>> /\ faults' \in 0..MaxFaults
  BY SenderAssumption DEF ServesCall, Answered, CallerInv, Fault, TypeOK
<1>2. n \in Session /\ n \in 0..MaxSessions /\ sessions[n] # "free"
  BY <1>1 DEF CallerInv, TypeOK
<1>3. PICK st \in {"ok", "hollow", "error"}, d \in {0, 1} :
        /\ http' = [http EXCEPT ![s] = [st |-> st, sid |-> n]]
        /\ delivered' = [delivered EXCEPT ![s] = d]
        /\ st = "ok" => d = 1
  <2>1. delivered[s] + 1 = 1 /\ (UNCHANGED delivered => delivered' = [delivered EXCEPT ![s] = 0])
    BY <1>1 DEF TypeOK
  <2> QED
    BY <1>1, <2>1 DEF ServesCall, Answers
<1>4. TypeOK'
  BY <1>1, <1>2, <1>3 DEF TypeOK
<1>5. CommittedIsInitialized'
  BY <1>1 DEF CommittedIsInitialized
<1>6. CallerInv(s)'
  <2>1. http'[s] = [st |-> st, sid |-> n] /\ delivered'[s] = d
    BY <1>3 DEF TypeOK
  <2> QED
    BY <1>1, <1>2, <1>3, <2>1 DEF CallerInv, Answered
<1>7. Own(s)
  BY <1>1, <1>3 DEF Own, TypeOK
<1> QED
  BY <1>4, <1>5, <1>6, <1>7, OthersKeep

\* A restart takes no session back to where it was not initialized.
LEMMA RestartKeeps ==
  ASSUME IInv, Restarts
  PROVE  IInv'
<1> USE DEF IInv
<1>1. UNCHANGED <<sessionId, pc, http, last, delivered, faults>> /\ restarts' \in 0..MaxRestarts
  BY SenderAssumption DEF Restarts, TypeOK
<1>2. sessions' = [m \in Session |-> IF sessions[m] = "free" THEN "free" ELSE "gone"]
  BY DEF Restarts
<1>3. TypeOK'
  BY <1>1, <1>2 DEF TypeOK
<1>4. \A m \in Session : sessions[m] # "free" => sessions'[m] = "gone"
  BY <1>2
<1>5. CommittedIsInitialized'
  BY <1>1, <1>4, SenderAssumption DEF CommittedIsInitialized, TypeOK, Session
<1>6. \A t \in Callers : CallerInv(t)'
  BY <1>1, <1>4 DEF CallerInv, Answered
<1> QED
  BY <1>3, <1>5, <1>6

-----------------------------------------------------------------------------
(* The theorems *)

\* The invariant holds in every state.
LEMMA SenderInvariant == Spec => []IInv
<1>1. Init => IInv
  BY SenderAssumption DEF Init, IInv, TypeOK, CommittedIsInitialized, CallerInv, Answered, NoExchange
<1>2. IInv /\ [Next]_vars => IInv'
  <2> SUFFICES ASSUME IInv, [Next]_vars PROVE IInv'
    OBVIOUS
  <2>1. CASE UNCHANGED vars
    BY <2>1 DEF vars, IInv, TypeOK, CommittedIsInitialized, CallerInv, Answered
  <2>2. CASE Restarts
    BY <2>2, RestartKeeps
  <2>3. ASSUME NEW s \in Callers, Sends(s) \/ CallerStep(s) \/ ExchangeFails(s) \/ Serves(s)
        PROVE  IInv'
    BY <2>3, SendsKeeps, HandshakeKeeps, EndKeeps, InitializeKeeps, NotifyKeeps, CallKeeps
       DEF CallerStep, Serves
  <2> QED
    BY <2>1, <2>2, <2>3 DEF Next
<1> QED
  BY <1>1, <1>2, PTL DEF Spec

\* The variables hold values of the kinds the code keeps in them; in particular one
\* send_message() never has its message delivered twice.
THEOREM SenderTypeCorrect == Spec => []TypeOK
<1>1. IInv => TypeOK
  BY DEF IInv
<1> QED
  BY <1>1, SenderInvariant, PTL

\* However many tasks do the handshake at the same time, and wherever it breaks off,
\* _session_id is a session that the server has initialized.
THEOREM CommitsInitialized == Spec => []CommittedIsInitialized
<1>1. IInv => CommittedIsInitialized
  BY DEF IInv
<1> QED
  BY <1>1, SenderInvariant, PTL

\* A send_message() that returns on the tool's result has delivered its message,
\* exactly once; one that fails in the handshake has not delivered it.
THEOREM OutcomesFit == Spec => []OutcomeFits
<1>1. IInv => OutcomeFits
  BY DEF IInv, CallerInv, OutcomeFits
<1> QED
  BY <1>1, SenderInvariant, PTL
=============================================================================
