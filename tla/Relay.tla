-------------------------------- MODULE Relay --------------------------------
(***************************************************************************)
(* Relay (relaypi/core/application/relay.py) over the per-chat router, and *)
(* the life of the process around it (main() of relaypi/main.py).          *)
(*                                                                         *)
(* run() pulls events and starts one asyncio task per accepted message;    *)
(* the task takes the lock of its chat, gets a client from the router,     *)
(* collects the turn and sends the reply.  A step runs from one await that *)
(* suspends to the next.  A turn is the port AgentClient: it returns a     *)
(* text or fails.  A send returns or fails; neither says whether the       *)
(* message was delivered (TelegramyMcpSender models why).                  *)
(***************************************************************************)
EXTENDS PerChatSessionRouter

CONSTANTS
    MaxMessages,  \* bound: messages accepted
    HungChats     \* chats whose turns need not return

ASSUME RelayAssumption ==
    /\ MaxMessages \in Nat
    /\ HungChats \subseteq Chats

VARIABLES
    tasks,     \* the handler tasks in the order of their creation
    locks,     \* for each chat, the tasks at its lock: the holder, then the waiters
    sent,      \* the replies each chat has got: the task and what it said
    main,      \* where main() is, see Phase
    cut,       \* what cut stop() short, "nothing" when it runs to its end
    senderOpen

relayVars == <<tasks, locks, sent, main, cut, senderOpen>>
vars == <<routerVars, relayVars>>

Phase == {"run", "gather", "stop_all", "close_sender", "exited"}
Cut == {"nothing", "interrupt", "raise"}

Step == {"created",        \* the task has not run yet
         "locking",        \* at the lock of its chat
         "spawning",       \* in the client factory
         "turn",           \* in prompt_and_collect()
         "sending",        \* in send_message() with the text
         "sending_error",  \* in _safe_send_error()
         "done"}

\* Every variable holds a value of the kind the code keeps in it.
TypeOK ==
    /\ RouterTypeOK
    /\ tasks \in Seq([chat : Chats, st : Step])
    /\ locks \in [Chats -> Seq(1..MaxMessages)]
    /\ sent \in [Chats -> Seq([task : 1..MaxMessages, what : {"text", "error"}])]
    /\ main \in Phase
    /\ cut \in Cut
    /\ senderOpen \in BOOLEAN

Init ==
    /\ RouterInit
    /\ tasks = <<>>
    /\ locks = [c \in Chats |-> <<>>]
    /\ sent = [c \in Chats |-> <<>>]
    /\ main = "run"
    /\ cut = "nothing"
    /\ senderOpen = TRUE

-----------------------------------------------------------------------------
(* run() *)

\* A message that parses and is allowed gets a task of its own; any other event
\* changes nothing (Admission models which is which).
Dispatches(c) ==
    /\ main = "run"
    /\ Len(tasks) < MaxMessages
    /\ tasks' = Append(tasks, [chat |-> c, st |-> "created"])
    /\ UNCHANGED <<routerVars, locks, sent, main, cut, senderOpen>>

\* The source ends or raises, the admission raises, or Ctrl+C cancels main():
\* each way stop() is next (Deployment tells the ways apart).
RunEnds ==
    /\ main = "run"
    /\ main' = "gather"
    /\ UNCHANGED <<routerVars, tasks, locks, sent, cut, senderOpen>>

-----------------------------------------------------------------------------
(* _handle(), one task per message *)

AtStep(i, st) == i \in DOMAIN tasks /\ tasks[i].st = st
GoesTo(i, st) == tasks' = [tasks EXCEPT ![i].st = st]
ChatOf(i) == tasks[i].chat

\* Mutant: tasks begin in any order.
BeginsInAnyOrder(i) ==
    /\ AtStep(i, "created")
    /\ GoesTo(i, "locking")
    /\ locks' = [locks EXCEPT ![ChatOf(i)] = Append(@, i)]
    /\ UNCHANGED <<routerVars, sent, main, cut, senderOpen>>

\* asyncio begins tasks in the order of their creation; the new task joins the
\* lock of its chat, whose waiters are served first come, first served.
Begins(i) ==
    /\ AtStep(i, "created")
    /\ \A j \in 1..(i - 1) : tasks[j].st # "created"
    /\ GoesTo(i, "locking")
    /\ locks' = [locks EXCEPT ![ChatOf(i)] = Append(@, i)]
    /\ UNCHANGED <<routerVars, sent, main, cut, senderOpen>>

\* Mutant: no lock.
HoldsNothing(i) == AtStep(i, "locking")

HoldsLock(i) == AtStep(i, "locking") /\ Head(locks[ChatOf(i)]) = i

\* With the lock and a live client the turn starts at once ...
Prompts(i) ==
    /\ HoldsLock(i)
    /\ HasLive(ChatOf(i))
    /\ GoesTo(i, "turn")
    /\ UNCHANGED <<routerVars, locks, sent, main, cut, senderOpen>>

\* ... without one the factory is awaited.
StartsClient(i) ==
    /\ HoldsLock(i)
    /\ ~HasLive(ChatOf(i))
    /\ GoesTo(i, "spawning")
    /\ UNCHANGED <<routerVars, locks, sent, main, cut, senderOpen>>

ClientStarted(i) ==
    /\ AtStep(i, "spawning")
    /\ Registers(ChatOf(i))
    /\ GoesTo(i, "turn")
    /\ UNCHANGED <<locks, sent, main, cut, senderOpen>>

\* The PI binary is missing, or the session directory cannot be made.
StartFails(i) ==
    /\ AtStep(i, "spawning")
    /\ GoesTo(i, "sending_error")
    /\ UNCHANGED <<routerVars, locks, sent, main, cut, senderOpen>>

TurnReturns(i) ==
    /\ AtStep(i, "turn")
    /\ GoesTo(i, "sending")
    /\ UNCHANGED <<routerVars, locks, sent, main, cut, senderOpen>>

\* Mutant: an exception leaves _handle() without releasing the lock.
FailsWithLock(i) ==
    /\ AtStep(i, "turn")
    /\ GoesTo(i, "done")
    /\ UNCHANGED <<routerVars, locks, sent, main, cut, senderOpen>>

\* AgentError or any other exception.
TurnFails(i) ==
    /\ AtStep(i, "turn")
    /\ GoesTo(i, "sending_error")
    /\ UNCHANGED <<routerVars, locks, sent, main, cut, senderOpen>>

Delivers(i, what) == sent' = [sent EXCEPT ![ChatOf(i)] = Append(@, [task |-> i, what |-> what])]

\* The task leaves the lock and is done.
Releases(i) ==
    /\ GoesTo(i, "done")
    /\ locks' = [locks EXCEPT ![ChatOf(i)] = Tail(@)]

Sends(i) ==
    /\ AtStep(i, "sending")
    /\ senderOpen
    /\ Delivers(i, "text") \/ UNCHANGED sent
    /\ Releases(i)
    /\ UNCHANGED <<routerVars, main, cut, senderOpen>>

\* An error on the way may come before or after the delivery.
SendFails(i) ==
    /\ AtStep(i, "sending")
    /\ GoesTo(i, "sending_error")
    /\ \/ senderOpen /\ Delivers(i, "text")
       \/ UNCHANGED sent
    /\ UNCHANGED <<routerVars, locks, main, cut, senderOpen>>

\* _safe_send_error() swallows a failure of its own.
SendsError(i) ==
    /\ AtStep(i, "sending_error")
    /\ \/ senderOpen /\ Delivers(i, "error")
       \/ UNCHANGED sent
    /\ Releases(i)
    /\ UNCHANGED <<routerVars, main, cut, senderOpen>>

HandlerStep(i) ==
    \/ Begins(i) \/ Prompts(i) \/ StartsClient(i) \/ ClientStarted(i) \/ StartFails(i)
    \/ Sends(i) \/ SendFails(i) \/ SendsError(i)

TurnStep(i) == TurnReturns(i) \/ TurnFails(i)

-----------------------------------------------------------------------------
(* stop() and the end of main() *)

AllDone == \A i \in DOMAIN tasks : tasks[i].st = "done"

\* Mutant: stop() does not wait for the tasks.
GathersNothing ==
    /\ main = "gather"
    /\ main' = "stop_all"
    /\ UNCHANGED <<routerVars, tasks, locks, sent, cut, senderOpen>>

\* gather() over the tasks has returned.
Gathered ==
    /\ main = "gather"
    /\ AllDone
    /\ main' = "stop_all"
    /\ UNCHANGED <<routerVars, tasks, locks, sent, cut, senderOpen>>

StopsOne ==
    /\ main = "stop_all"
    /\ \E c \in ToStop : StopsClient(c)
    /\ UNCHANGED <<clients, relayVars>>

\* client.stop() raises, with the process gone: stop_all() and stop() end there,
\* the clients that are left run on and the sender stays open.
StopRaises ==
    /\ main = "stop_all"
    /\ \E c \in ToStop : StopsClient(c)
    /\ main' = "exited"
    /\ cut' = "raise"
    /\ UNCHANGED <<clients, tasks, locks, sent, senderOpen>>

ClearsClients ==
    /\ main = "stop_all"
    /\ ToStop = {}
    /\ clients' = [c \in Chats |-> 0]
    /\ main' = "close_sender"
    /\ UNCHANGED <<spawned, tasks, locks, sent, cut, senderOpen>>

ClosesSender ==
    /\ main = "close_sender"
    /\ senderOpen' = FALSE
    /\ main' = "exited"
    /\ UNCHANGED <<routerVars, tasks, locks, sent, cut>>

\* Ctrl+C while stop() is under way: gather() cancels the tasks it waits for, or
\* the await in stop_all() is cancelled; the rest of stop() does not run.
Impatient ==
    /\ main \in {"gather", "stop_all", "close_sender"}
    /\ main' = "exited"
    /\ cut' = "interrupt"
    /\ tasks' = [i \in DOMAIN tasks |-> [tasks[i] EXCEPT !.st = "done"]]
    /\ locks' = [c \in Chats |-> <<>>]
    /\ UNCHANGED <<routerVars, sent, senderOpen>>

StopStep == Gathered \/ StopsOne \/ StopRaises \/ ClearsClients \/ ClosesSender

Next ==
    \/ \E c \in Chats : Dispatches(c)
    \/ RunEnds
    \/ \E i \in 1..MaxMessages : HandlerStep(i) \/ TurnStep(i)
    \/ StopStep \/ Impatient
    \/ main # "exited" /\ ClientNext /\ UNCHANGED relayVars

Spec == Init /\ [][Next]_vars

\* Tasks that can run do run and sends end (the HTTP client has a timeout); a
\* turn returns but for the chats in HungChats; stop() goes on.
Fairness ==
    /\ \A i \in 1..MaxMessages : /\ WF_vars(HandlerStep(i))
                                 /\ WF_vars(TurnStep(i) /\ ChatOf(i) \notin HungChats)
    /\ WF_vars(StopStep)

FairSpec == Spec /\ Fairness

-----------------------------------------------------------------------------
(* Properties *)

PastLock(i) == i \in DOMAIN tasks /\ tasks[i].st \notin {"created", "locking", "done"}

\* Two messages of one chat are never handled at the same time, so a PI that
\* streams is never prompted and a chat never starts two clients at once (the
\* lock of _handle).
OneTurnPerChat ==
    \A i, j \in 1..MaxMessages : PastLock(i) /\ PastLock(j) /\ ChatOf(i) = ChatOf(j) => i = j

\* No lock is left behind: whoever is in the queue of a lock, its holder first of
\* all, is an unfinished task of that chat, so the lock is passed on when the task
\* ends, in whichever way it does (async with in _handle).
NoLockLeftBehind ==
    \A c \in Chats : \A k \in DOMAIN locks[c] :
        /\ locks[c][k] \in DOMAIN tasks
        /\ ChatOf(locks[c][k]) = c
        /\ tasks[locks[c][k]].st \notin {"created", "done"}

\* The replies a chat sees come in the order of its messages, and a message gets
\* one text at most, which only an error can follow (a send that failed after
\* the delivery).
RepliesInOrder ==
    \A c \in Chats : \A m, n \in DOMAIN sent[c] :
        m < n => \/ sent[c][m].task < sent[c][n].task
                 \/ /\ sent[c][m].task = sent[c][n].task
                    /\ sent[c][m].what = "text" /\ sent[c][n].what = "error"

\* When the relay has exited, every accepted message was finished, the sender is
\* closed and no PI process it started is running, but for the orphans whose client
\* was replaced: stop_all() no longer knows them.  It does stop a client that lost
\* its reader and was not replaced.  An interrupt or a client.stop() that raises,
\* each cutting stop() short, is the only excuse, and even then no turn is left
\* under way.
CleanExit ==
    main = "exited"
        => /\ AllDone
           /\ cut = "nothing"
                => ~senderOpen /\ \A k \in DOMAIN spawned : spawned[k].running => Replaced(k)

Unfinished == {i \in DOMAIN tasks : tasks[i].st # "done" /\ ChatOf(i) \notin HungChats}

\* Every accepted message is finished, answered as far as the sender allows; a
\* chat whose turn never returns holds up no other chat.  (The messages are bounded:
\* one that is never finished would keep the set from becoming empty.)
EveryMessageFinishes == Unfinished # {} ~> Unfinished = {}

\* stop() returns, unless it waits for a turn that never returns.
ShutdownEnds ==
    main = "gather" ~> \/ main = "exited"
                       \/ \E i \in 1..MaxMessages : AtStep(i, "turn") /\ ChatOf(i) \in HungChats

\* The messages of a chat that are not finished.
Backlog(c) == {i \in DOMAIN tasks : tasks[i].chat = c /\ tasks[i].st # "done"}

Service == INSTANCE PerChatService WITH
    accepted <- Len(tasks),
    backlog <- [c \in Chats |-> Backlog(c)],
    working <- {i \in 1..MaxMessages : PastLock(i)}

\* The tasks and locks give every chat its messages one at a time and in order.
ImplementsPerChatService == Service!Spec
=============================================================================
