----------------------------- MODULE RelayProofs -----------------------------
(***************************************************************************)
(* Proofs about Relay: its types, the lock that keeps the turns of a chat  *)
(* apart, the table of clients and the ownership of the sessions that rest *)
(* on it, and the order of stop().                                         *)
(***************************************************************************)
EXTENDS Relay, SequenceTheorems, TLAPS

(* Types *)

Task == [chat : Chats, st : Step]
Reply == [task : 1..MaxMessages, what : {"text", "error"}]

\* A task that moves on stays a task, and no task appears or disappears.
LEMMA GoesToTypes ==
  ASSUME TypeOK, NEW i \in DOMAIN tasks, NEW st \in Step, GoesTo(i, st)
  PROVE  /\ tasks' \in Seq(Task)
         /\ DOMAIN tasks' = DOMAIN tasks
         /\ tasks'[i].st = st /\ tasks'[i].chat = tasks[i].chat
         /\ \A j \in DOMAIN tasks : j # i => tasks'[j] = tasks[j]
<1>1. tasks \in Seq(Task)
  BY DEF TypeOK, Task
<1>2. tasks[i] \in Task
  BY <1>1, ElementOfSeq
<1>3. [tasks[i] EXCEPT !.st = st] \in Task
  BY <1>2 DEF Task
<1>4. tasks' = [tasks EXCEPT ![i] = [tasks[i] EXCEPT !.st = st]]
  BY DEF GoesTo
<1>5. tasks' \in Seq(Task)
  BY <1>1, <1>3, <1>4, ExceptSeq
<1>6. DOMAIN tasks' = DOMAIN tasks
  BY <1>4
<1>7. tasks'[i].st = st /\ tasks'[i].chat = tasks[i].chat
  BY <1>2, <1>4 DEF Task
<1> QED
  BY <1>4, <1>5, <1>6, <1>7

\* What is outside tasks: the part of TypeOK a step of a handler rarely touches.
LEMMA KeepsTypes ==
  ASSUME TypeOK, tasks' \in Seq(Task), UNCHANGED <<clients, spawned, locks, sent, main, cut, senderOpen>>
  PROVE  TypeOK'
  BY DEF TypeOK, RouterTypeOK, Task

\* A task that leaves its lock, or joins it, leaves a queue of tasks behind.
LEMMA LockTypes ==
  ASSUME TypeOK, NEW c \in Chats
  PROVE  /\ \A i \in 1..MaxMessages :
              [locks EXCEPT ![c] = Append(@, i)] \in [Chats -> Seq(1..MaxMessages)]
         /\ locks[c] # <<>> =>
              [locks EXCEPT ![c] = Tail(@)] \in [Chats -> Seq(1..MaxMessages)]
<1>1. locks[c] \in Seq(1..MaxMessages)
  BY DEF TypeOK
<1>2. \A i \in 1..MaxMessages : Append(locks[c], i) \in Seq(1..MaxMessages)
  BY <1>1, AppendProperties
<1>3. locks[c] # <<>> => Tail(locks[c]) \in Seq(1..MaxMessages)
  BY <1>1, HeadTailProperties
<1> QED
  BY <1>2, <1>3 DEF TypeOK

-----------------------------------------------------------------------------
(* The lock *)

\* A task past its lock is at the head of the lock's queue; a task that waits is
\* somewhere in it.
LockInv ==
    /\ \A i \in DOMAIN tasks :
         PastLock(i) => locks[ChatOf(i)] # <<>> /\ Head(locks[ChatOf(i)]) = i
    /\ \A i \in DOMAIN tasks :
         tasks[i].st = "locking" => \E k \in DOMAIN locks[ChatOf(i)] : locks[ChatOf(i)][k] = i

IInv == TypeOK /\ LockInv

PastSteps == {"spawning", "turn", "sending", "sending_error"}

\* The chat of a task is a chat, and its lock has a queue of tasks.
LEMMA ChatFacts ==
  ASSUME TypeOK, NEW i \in DOMAIN tasks
  PROVE  /\ tasks[i] \in Task
         /\ ChatOf(i) \in Chats
         /\ locks[ChatOf(i)] \in Seq(1..MaxMessages)
<1>1. tasks \in Seq(Task)
  BY DEF TypeOK, Task
<1>2. tasks[i] \in Task
  BY <1>1, ElementOfSeq
<1> QED
  BY <1>2 DEF TypeOK, ChatOf, Task

\* A delivery is recorded for the chat of a task.
LEMMA DeliveryTypes ==
  ASSUME TypeOK, NEW i \in 1..MaxMessages, i \in DOMAIN tasks, NEW what \in {"text", "error"},
         Delivers(i, what)
  PROVE  sent' \in [Chats -> Seq(Reply)]
<1>1. sent \in [Chats -> Seq(Reply)]
  BY DEF TypeOK, Reply
<1>2. [task |-> i, what |-> what] \in Reply
  BY DEF Reply
<1>3. ChatOf(i) \in Chats
  BY ChatFacts
<1>4. Append(sent[ChatOf(i)], [task |-> i, what |-> what]) \in Seq(Reply)
  BY <1>1, <1>2, <1>3, AppendProperties
<1> QED
  BY <1>1, <1>4 DEF Delivers

\* The holder of a lock is at the head of a queue that is not empty.
LEMMA HolderAtHead ==
  ASSUME IInv, NEW i \in DOMAIN tasks, PastLock(i) \/ HoldsLock(i)
  PROVE  locks[ChatOf(i)] # <<>> /\ Head(locks[ChatOf(i)]) = i
<1>1. CASE PastLock(i)
  BY <1>1 DEF IInv, LockInv
<1>2. CASE HoldsLock(i)
  <2>1. \E k \in DOMAIN locks[ChatOf(i)] : locks[ChatOf(i)][k] = i
    BY <1>2 DEF IInv, LockInv, HoldsLock, AtStep
  <2> QED
    BY <1>2, <2>1 DEF HoldsLock
<1> QED
  BY <1>1, <1>2

\* A task that holds its lock goes on without leaving it.
LEMMA MovesOn ==
  ASSUME IInv, NEW i \in DOMAIN tasks, NEW st \in PastSteps, GoesTo(i, st),
         PastLock(i) \/ HoldsLock(i), UNCHANGED locks
  PROVE  tasks' \in Seq(Task) /\ LockInv'
<1> USE DEF IInv
<1>1. st \in Step
  BY DEF PastSteps, Step
<1>2. /\ tasks' \in Seq(Task)
      /\ DOMAIN tasks' = DOMAIN tasks
      /\ tasks'[i].st = st /\ tasks'[i].chat = tasks[i].chat
      /\ \A j \in DOMAIN tasks : j # i => tasks'[j] = tasks[j]
  BY <1>1, GoesToTypes
<1>3. locks[ChatOf(i)] # <<>> /\ Head(locks[ChatOf(i)]) = i
  BY HolderAtHead
<1>4. tasks'[i].st # "locking"
  BY <1>2 DEF PastSteps
<1>5. \A j \in DOMAIN tasks : ChatOf(j)' = ChatOf(j)
  BY <1>2 DEF ChatOf
<1>6. ASSUME NEW j \in DOMAIN tasks', PastLock(j)'
      PROVE  locks'[ChatOf(j)'] # <<>> /\ Head(locks'[ChatOf(j)']) = j
  <2>1. CASE j = i
    BY <1>2, <1>3, <1>5, <2>1
  <2>2. CASE j # i
    BY <1>2, <1>5, <1>6, <2>2 DEF LockInv, PastLock
  <2> QED
    BY <2>1, <2>2
<1>7. ASSUME NEW j \in DOMAIN tasks', tasks'[j].st = "locking"
      PROVE  \E k \in DOMAIN locks'[ChatOf(j)'] : locks'[ChatOf(j)'][k] = j
  BY <1>2, <1>4, <1>5, <1>7 DEF LockInv
<1> QED
  BY <1>2, <1>6, <1>7 DEF LockInv

\* The holder of a lock leaves it: whoever else waits for it is still in its queue.
LEMMA LeavesLock ==
  ASSUME IInv, NEW i \in DOMAIN tasks, PastLock(i), Releases(i)
  PROVE  /\ tasks' \in Seq(Task)
         /\ locks' \in [Chats -> Seq(1..MaxMessages)]
         /\ LockInv'
<1> USE DEF IInv
<1> DEFINE c == ChatOf(i)
<1>1. "done" \in Step /\ GoesTo(i, "done")
  BY DEF Step, Releases
<1>2. /\ tasks' \in Seq(Task)
      /\ DOMAIN tasks' = DOMAIN tasks
      /\ tasks'[i].st = "done" /\ tasks'[i].chat = tasks[i].chat
      /\ \A j \in DOMAIN tasks : j # i => tasks'[j] = tasks[j]
  BY <1>1, GoesToTypes
<1>3. c \in Chats /\ locks[c] \in Seq(1..MaxMessages)
  BY ChatFacts
<1>4. locks[c] # <<>> /\ Head(locks[c]) = i
  BY HolderAtHead
<1>5. locks' = [locks EXCEPT ![c] = Tail(@)]
  BY DEF Releases
<1>6. locks' \in [Chats -> Seq(1..MaxMessages)]
  BY <1>3, <1>4, <1>5, LockTypes
<1>7. locks'[c] = Tail(locks[c]) /\ \A d \in Chats : d # c => locks'[d] = locks[d]
  BY <1>3, <1>5 DEF TypeOK
<1>8. ASSUME NEW j \in DOMAIN tasks', PastLock(j)'
      PROVE  locks'[ChatOf(j)'] # <<>> /\ Head(locks'[ChatOf(j)']) = j
  <2>1. j # i /\ j \in DOMAIN tasks /\ tasks'[j] = tasks[j] /\ ChatOf(j)' = ChatOf(j)
    BY <1>2, <1>8 DEF PastLock, ChatOf
  <2>2. PastLock(j)
    BY <1>8, <2>1 DEF PastLock
  <2>3. locks[ChatOf(j)] # <<>> /\ Head(locks[ChatOf(j)]) = j
    BY <2>1, <2>2, HolderAtHead
  <2>4. ChatOf(j) # c /\ ChatOf(j) \in Chats
    BY <1>4, <2>1, <2>3, ChatFacts
  <2> QED
    BY <1>7, <2>1, <2>3, <2>4
<1>9. ASSUME NEW j \in DOMAIN tasks', tasks'[j].st = "locking"
      PROVE  \E k \in DOMAIN locks'[ChatOf(j)'] : locks'[ChatOf(j)'][k] = j
  <2>1. j # i /\ j \in DOMAIN tasks /\ tasks'[j] = tasks[j] /\ ChatOf(j)' = ChatOf(j)
    BY <1>2, <1>9 DEF ChatOf
  <2>2. PICK k \in DOMAIN locks[ChatOf(j)] : locks[ChatOf(j)][k] = j
    BY <1>9, <2>1 DEF LockInv
  <2>3. CASE ChatOf(j) # c
    BY <1>7, <2>1, <2>2, <2>3, ChatFacts
  <2>4. CASE ChatOf(j) = c
    <3>1. k \in 1..Len(locks[c]) /\ k # 1
      BY <1>3, <1>4, <2>1, <2>2, <2>4
    <3>2. k - 1 \in 1..Len(Tail(locks[c])) /\ Tail(locks[c])[k - 1] = locks[c][k]
      BY <1>3, <1>4, <3>1, HeadTailProperties
    <3>3. k - 1 \in DOMAIN Tail(locks[c])
      BY <1>3, <1>4, <3>2, HeadTailProperties
    <3> QED
      BY <1>7, <2>1, <2>2, <2>4, <3>2, <3>3
  <2> QED
    BY <2>3, <2>4
<1> QED
  BY <1>2, <1>6, <1>8, <1>9 DEF LockInv

\* A task that begins joins the queue of its lock at the end.
LEMMA JoinsLock ==
  ASSUME IInv, NEW i \in 1..MaxMessages, Begins(i)
  PROVE  /\ tasks' \in Seq(Task)
         /\ locks' \in [Chats -> Seq(1..MaxMessages)]
         /\ LockInv'
<1> USE DEF IInv
<1> DEFINE c == ChatOf(i)
<1>1. i \in DOMAIN tasks /\ GoesTo(i, "locking") /\ "locking" \in Step
  BY DEF Begins, AtStep, Step
<1>2. /\ tasks' \in Seq(Task)
      /\ DOMAIN tasks' = DOMAIN tasks
      /\ tasks'[i].st = "locking" /\ tasks'[i].chat = tasks[i].chat
      /\ \A j \in DOMAIN tasks : j # i => tasks'[j] = tasks[j]
  BY <1>1, GoesToTypes
<1>3. c \in Chats /\ locks[c] \in Seq(1..MaxMessages)
  BY <1>1, ChatFacts
<1>4. locks' = [locks EXCEPT ![c] = Append(@, i)]
  BY DEF Begins
<1>5. locks' \in [Chats -> Seq(1..MaxMessages)]
  BY <1>3, <1>4, LockTypes
<1>6. locks'[c] = Append(locks[c], i) /\ \A d \in Chats : d # c => locks'[d] = locks[d]
  BY <1>3, <1>4 DEF TypeOK
<1>7. /\ Append(locks[c], i) # <<>>
      /\ DOMAIN Append(locks[c], i) = 1..(Len(locks[c]) + 1)
      /\ Append(locks[c], i)[Len(locks[c]) + 1] = i
      /\ \A k \in DOMAIN locks[c] : Append(locks[c], i)[k] = locks[c][k]
      /\ locks[c] # <<>> => Head(Append(locks[c], i)) = Head(locks[c])
  BY <1>3, AppendProperties
<1>8. ASSUME NEW j \in DOMAIN tasks', PastLock(j)'
      PROVE  locks'[ChatOf(j)'] # <<>> /\ Head(locks'[ChatOf(j)']) = j
  <2>1. j # i /\ j \in DOMAIN tasks /\ tasks'[j] = tasks[j] /\ ChatOf(j)' = ChatOf(j)
    BY <1>2, <1>8 DEF PastLock, ChatOf
  <2>2. PastLock(j)
    BY <1>8, <2>1 DEF PastLock
  <2>3. locks[ChatOf(j)] # <<>> /\ Head(locks[ChatOf(j)]) = j /\ ChatOf(j) \in Chats
    BY <2>1, <2>2, HolderAtHead, ChatFacts
  <2> QED
    BY <1>6, <1>7, <2>1, <2>3
<1>9. ASSUME NEW j \in DOMAIN tasks', tasks'[j].st = "locking"
      PROVE  \E k \in DOMAIN locks'[ChatOf(j)'] : locks'[ChatOf(j)'][k] = j
  <2>1. CASE j = i
    <3>1. ChatOf(j)' = c
      BY <1>2, <2>1 DEF ChatOf
    <3>2. Len(locks[c]) + 1 \in DOMAIN Append(locks[c], i)
      BY <1>3, <1>7
    <3> QED
      BY <1>6, <1>7, <2>1, <3>1, <3>2
  <2>2. CASE j # i
    <3>1. j \in DOMAIN tasks /\ tasks'[j] = tasks[j] /\ ChatOf(j)' = ChatOf(j)
      BY <1>2, <2>2 DEF ChatOf
    <3>2. PICK k \in DOMAIN locks[ChatOf(j)] : locks[ChatOf(j)][k] = j
      BY <1>9, <3>1 DEF LockInv
    <3>3. ChatOf(j) \in Chats /\ (ChatOf(j) = c => k \in DOMAIN Append(locks[c], i))
      BY <1>3, <1>7, <3>1, <3>2, ChatFacts
    <3> QED
      BY <1>6, <1>7, <3>1, <3>2, <3>3
  <2> QED
    BY <2>1, <2>2
<1> QED
  BY <1>2, <1>5, <1>8, <1>9 DEF LockInv

\* A new task is at no lock, and its creation moves no other task.
LEMMA NewTask ==
  ASSUME IInv, NEW c \in Chats, Dispatches(c)
  PROVE  tasks' \in Seq(Task) /\ LockInv'
<1> USE DEF IInv
<1>1. tasks \in Seq(Task)
  BY DEF TypeOK, Task
<1>2. [chat |-> c, st |-> "created"] \in Task
  BY DEF Task, Step
<1>3. /\ tasks' \in Seq(Task)
      /\ Len(tasks') = Len(tasks) + 1
      /\ \A j \in 1..Len(tasks) : tasks'[j] = tasks[j]
      /\ tasks'[Len(tasks) + 1].st = "created"
  BY <1>1, <1>2, AppendProperties DEF Dispatches
<1>4. \A j \in DOMAIN tasks' : \/ j \in DOMAIN tasks /\ tasks'[j] = tasks[j]
                              \/ tasks'[j].st = "created"
  BY <1>1, <1>3
<1>5. locks' = locks
  BY DEF Dispatches
<1> QED
  BY <1>3, <1>4, <1>5 DEF LockInv, PastLock, ChatOf

\* An interrupted stop() ends every task and empties every lock.
LEMMA GivesUp ==
  ASSUME IInv, Impatient
  PROVE  /\ tasks' \in Seq(Task)
         /\ locks' \in [Chats -> Seq(1..MaxMessages)]
         /\ LockInv'
<1> USE DEF IInv
<1>1. tasks \in Seq(Task)
  BY DEF TypeOK, Task
<1>2. tasks' = [i \in 1..Len(tasks) |-> [tasks[i] EXCEPT !.st = "done"]]
  BY <1>1 DEF Impatient
<1>3. \A i \in 1..Len(tasks) : [tasks[i] EXCEPT !.st = "done"] \in Task
  <2> SUFFICES ASSUME NEW i \in 1..Len(tasks) PROVE [tasks[i] EXCEPT !.st = "done"] \in Task
    OBVIOUS
  <2>1. tasks[i] \in Task
    BY <1>1, ElementOfSeq
  <2> QED
    BY <2>1 DEF Task, Step
<1>4. tasks' \in Seq(Task)
  BY <1>1, <1>2, <1>3
<1>5. \A i \in DOMAIN tasks' : tasks'[i].st = "done"
  <2> SUFFICES ASSUME NEW i \in DOMAIN tasks' PROVE tasks'[i].st = "done"
    OBVIOUS
  <2>1. i \in 1..Len(tasks) /\ tasks[i] \in Task
    BY <1>1, <1>2, ElementOfSeq
  <2> QED
    BY <1>2, <2>1 DEF Task
<1>6. locks' \in [Chats -> Seq(1..MaxMessages)]
  BY DEF Impatient
<1> QED
  BY <1>4, <1>5, <1>6 DEF LockInv, PastLock

\* Steps of the clients keep the types of the router, and so does a new client.
LEMMA RouterTypes ==
  ASSUME RouterTypeOK,
         ClientNext \/ (\E c \in Chats : Registers(c))
           \/ ((\E c \in ToStop : StopsClient(c)) /\ UNCHANGED clients)
  PROVE  RouterTypeOK'
<1> USE DEF RouterTypeOK
<1>1. ASSUME NEW k \in 1..Len(spawned), NEW e \in Client
      PROVE  /\ [spawned EXCEPT ![k] = e] \in Seq(Client)
             /\ Len([spawned EXCEPT ![k] = e]) = Len(spawned)
  BY <1>1, ExceptSeq
<1>2. CASE ClientNext
  <2>1. PICK k \in DOMAIN spawned : ProcessExits(k) \/ ReaderSeesExit(k) \/ ReaderCrashes(k)
    BY <1>2 DEF ClientNext
  <2>2. k \in 1..Len(spawned) /\ spawned[k] \in Client
    BY <2>1, ElementOfSeq
  <2>3. PICK e \in Client : spawned' = [spawned EXCEPT ![k] = e]
    <3>1. [spawned[k] EXCEPT !.running = FALSE] \in Client
      BY <2>2 DEF Client
    <3>2. [spawned[k] EXCEPT !.alive = FALSE] \in Client
      BY <2>2 DEF Client
    <3> QED
      BY <2>1, <3>1, <3>2 DEF ProcessExits, ReaderSeesExit, ReaderCrashes
  <2>4. clients' = clients
    BY <2>1 DEF ProcessExits, ReaderSeesExit, ReaderCrashes
  <2> QED
    BY <1>1, <2>2, <2>3, <2>4
<1>3. CASE \E c \in Chats : Registers(c)
  <2>1. PICK c \in Chats : Registers(c)
    BY <1>3
  <2>2. [chat |-> c, alive |-> TRUE, running |-> TRUE] \in Client
    BY DEF Client
  <2>3. spawned' \in Seq(Client) /\ Len(spawned') = Len(spawned) + 1
    BY <2>1, <2>2, AppendProperties DEF Registers
  <2>4. clients' = [clients EXCEPT ![c] = Len(spawned) + 1]
    BY <2>1 DEF Registers
  <2>5. Len(spawned) \in Nat /\ clients \in [Chats -> 0..Len(spawned)]
    BY LenProperties
  <2>6. \A d \in Chats : clients'[d] \in 0..(Len(spawned) + 1)
    BY <2>4, <2>5
  <2>7. clients' \in [Chats -> 0..Len(spawned')]
    BY <2>3, <2>4, <2>5, <2>6
  <2> QED
    BY <2>3, <2>7
<1>4. CASE (\E c \in ToStop : StopsClient(c)) /\ UNCHANGED clients
  <2>1. PICK c \in ToStop : StopsClient(c)
    BY <1>4
  <2>2. c \in Chats /\ clients[c] \in 1..Len(spawned)
    BY <2>1 DEF ToStop
  <2>3. [chat |-> c, alive |-> FALSE, running |-> FALSE] \in Client
    BY <2>2 DEF Client
  <2> QED
    BY <1>1, <1>4, <2>1, <2>2, <2>3 DEF StopsClient
<1> QED
  BY <1>2, <1>3, <1>4

\* Where nothing but tasks, locks and replies can change.
LEMMA HandlerTypes ==
  ASSUME TypeOK, RouterTypeOK', tasks' \in Seq(Task), sent' \in [Chats -> Seq(Reply)],
         locks' \in [Chats -> Seq(1..MaxMessages)], UNCHANGED <<main, cut, senderOpen>>
  PROVE  TypeOK'
  BY DEF TypeOK, Task, Reply

\* A step of a handler, one case per action.
LEMMA HandlerKeeps ==
  ASSUME IInv, NEW i \in 1..MaxMessages, HandlerStep(i) \/ TurnStep(i)
  PROVE  IInv'
<1> USE DEF IInv
<1>1. /\ locks \in [Chats -> Seq(1..MaxMessages)]
      /\ sent \in [Chats -> Seq(Reply)]
      /\ (UNCHANGED routerVars => RouterTypeOK')
  BY DEF TypeOK, RouterTypeOK, Reply, routerVars
<1>2. CASE Begins(i)
  BY <1>1, <1>2, JoinsLock, HandlerTypes DEF Begins
<1>3. CASE Prompts(i) \/ StartsClient(i)
  <2>1. PICK st \in PastSteps : GoesTo(i, st)
    BY <1>3 DEF Prompts, StartsClient, PastSteps
  <2>2. i \in DOMAIN tasks /\ HoldsLock(i) /\ UNCHANGED locks
    BY <1>3 DEF Prompts, StartsClient, HoldsLock, AtStep
  <2>3. tasks' \in Seq(Task) /\ LockInv'
    BY <2>1, <2>2, MovesOn
  <2>4. UNCHANGED <<routerVars, sent, main, cut, senderOpen>>
    BY <1>3 DEF Prompts, StartsClient
  <2> QED
    BY <1>1, <2>2, <2>3, <2>4, HandlerTypes
<1>4. CASE ClientStarted(i)
  <2>1. i \in DOMAIN tasks /\ PastLock(i) /\ GoesTo(i, "turn") /\ UNCHANGED locks
    BY <1>4 DEF ClientStarted, AtStep, PastLock
  <2>2. tasks' \in Seq(Task) /\ LockInv'
    BY <2>1, MovesOn DEF PastSteps
  <2>3. RouterTypeOK'
    BY <1>4, <2>1, RouterTypes, ChatFacts DEF ClientStarted, TypeOK
  <2>4. UNCHANGED <<sent, main, cut, senderOpen>>
    BY <1>4 DEF ClientStarted
  <2> QED
    BY <1>1, <2>1, <2>2, <2>3, <2>4, HandlerTypes
<1>5. CASE StartFails(i) \/ TurnReturns(i) \/ TurnFails(i) \/ SendFails(i)
  <2>1. PICK st \in PastSteps : GoesTo(i, st)
    BY <1>5 DEF StartFails, TurnReturns, TurnFails, SendFails, PastSteps
  <2>2. i \in DOMAIN tasks /\ PastLock(i) /\ UNCHANGED locks
    BY <1>5 DEF StartFails, TurnReturns, TurnFails, SendFails, AtStep, PastLock
  <2>3. tasks' \in Seq(Task) /\ LockInv'
    BY <2>1, <2>2, MovesOn
  <2>4. sent' \in [Chats -> Seq(Reply)]
    BY <1>1, <1>5, <2>2, DeliveryTypes DEF StartFails, TurnReturns, TurnFails, SendFails
  <2>5. UNCHANGED <<routerVars, main, cut, senderOpen>>
    BY <1>5 DEF StartFails, TurnReturns, TurnFails, SendFails
  <2> QED
    BY <1>1, <2>2, <2>3, <2>4, <2>5, HandlerTypes
<1>6. CASE Sends(i) \/ SendsError(i)
  <2>1. i \in DOMAIN tasks /\ PastLock(i) /\ Releases(i)
    BY <1>6 DEF Sends, SendsError, AtStep, PastLock
  <2>2. tasks' \in Seq(Task) /\ locks' \in [Chats -> Seq(1..MaxMessages)] /\ LockInv'
    BY <2>1, LeavesLock
  <2>3. sent' \in [Chats -> Seq(Reply)]
    BY <1>1, <1>6, <2>1, DeliveryTypes DEF Sends, SendsError
  <2>4. UNCHANGED <<routerVars, main, cut, senderOpen>>
    BY <1>6 DEF Sends, SendsError
  <2> QED
    BY <1>1, <2>2, <2>3, <2>4, HandlerTypes
<1> QED
  BY <1>2, <1>3, <1>4, <1>5, <1>6 DEF HandlerStep, TurnStep

\* Steps that leave tasks and locks alone leave the lock's invariant alone.
LEMMA LockUntouched ==
  ASSUME LockInv, UNCHANGED <<tasks, locks>>
  PROVE  LockInv'
  BY DEF LockInv, PastLock, ChatOf

\* The initial state: no task, no lock, no client.
LEMMA RelayInit == Init => IInv
<1> SUFFICES ASSUME Init PROVE IInv
  OBVIOUS
<1>1. RouterTypeOK
  BY EmptySeq DEF Init, RouterInit, RouterTypeOK
<1>2. TypeOK
  BY <1>1, RelayAssumption, EmptySeq DEF Init, TypeOK, Phase, Cut
<1>3. LockInv
  BY DEF Init, LockInv
<1> QED
  BY <1>2, <1>3 DEF IInv

\* Types and lock together are inductive, one case per action.
LEMMA RelayStep ==
  ASSUME IInv, [Next]_vars
  PROVE  IInv'
<1> USE DEF IInv
<1>1. CASE \E c \in Chats : Dispatches(c)
  <2>1. PICK c \in Chats : Dispatches(c)
    BY <1>1
  <2>2. tasks' \in Seq(Task) /\ LockInv'
    BY <2>1, NewTask
  <2>3. TypeOK'
    BY <2>1, <2>2, RelayAssumption
       DEF Dispatches, TypeOK, RouterTypeOK, Task, routerVars
  <2> QED
    BY <2>2, <2>3
<1>2. CASE RunEnds
  <2>1. TypeOK'
    BY <1>2 DEF RunEnds, TypeOK, RouterTypeOK, Phase, Cut, routerVars
  <2> QED
    BY <1>2, <2>1, LockUntouched DEF RunEnds
<1>3. CASE \E i \in 1..MaxMessages : HandlerStep(i) \/ TurnStep(i)
  BY <1>3, HandlerKeeps
<1>4. CASE Gathered \/ ClosesSender
  <2>1. TypeOK'
    BY <1>4 DEF Gathered, ClosesSender, TypeOK, RouterTypeOK, Phase, routerVars
  <2> QED
    BY <1>4, <2>1, LockUntouched DEF Gathered, ClosesSender
<1>5. CASE StopsOne \/ StopRaises
  <2>1. RouterTypeOK'
    BY <1>5, RouterTypes DEF StopsOne, StopRaises, TypeOK
  <2> QED
    BY <1>5, <2>1, LockUntouched DEF StopsOne, StopRaises, TypeOK, relayVars, Phase, Cut
<1>6. CASE ClearsClients
  <2>1. RouterTypeOK'
    BY <1>6, LenProperties DEF ClearsClients, TypeOK, RouterTypeOK
  <2> QED
    BY <1>6, <2>1, LockUntouched DEF ClearsClients, TypeOK, Phase
<1>7. CASE Impatient
  <2>1. tasks' \in Seq(Task) /\ locks' \in [Chats -> Seq(1..MaxMessages)] /\ LockInv'
    BY <1>7, GivesUp
  <2> QED
    BY <1>7, <2>1 DEF Impatient, TypeOK, RouterTypeOK, Task, Phase, Cut, routerVars
<1>8. CASE ClientNext /\ UNCHANGED relayVars
  <2>1. RouterTypeOK'
    BY <1>8, RouterTypes DEF TypeOK
  <2> QED
    BY <1>8, <2>1, LockUntouched DEF TypeOK, relayVars
<1>9. CASE UNCHANGED vars
  BY <1>9, LockUntouched DEF vars, relayVars, routerVars, TypeOK, RouterTypeOK
<1> QED
  BY <1>1, <1>2, <1>3, <1>4, <1>5, <1>6, <1>7, <1>8, <1>9 DEF Next, StopStep

\* The invariant holds in every state.
LEMMA RelayInvariant == Spec => []IInv
  BY RelayInit, RelayStep, PTL DEF Spec

\* The relay's variables always hold values of the kinds the code keeps in them.
THEOREM RelayTypeCorrect == Spec => []TypeOK
<1>1. IInv => TypeOK
  BY DEF IInv
<1> QED
  BY <1>1, RelayInvariant, PTL

\* No two messages of one chat are handled at the same time, whatever tasks begin,
\* fail, are given up or wait: the lock of _handle() keeps the turns apart.
THEOREM TurnsOfAChatAreSerial == Spec => []OneTurnPerChat
<1>1. IInv => OneTurnPerChat
  BY HolderAtHead DEF IInv, OneTurnPerChat, PastLock
<1> QED
  BY <1>1, RelayInvariant, PTL

-----------------------------------------------------------------------------
(* The live client of a chat *)

\* The table holds every client that is alive; a task that is starting a client
\* found none alive.
LiveInv ==
    /\ LiveIsReachable
    /\ \A i \in DOMAIN tasks : tasks[i].st = "spawning" => ~HasLive(ChatOf(i))

\* A new client takes a chat none of whose clients is alive.
LEMMA NewLive ==
  ASSUME IInv, LiveInv, NEW i \in 1..MaxMessages, ClientStarted(i)
  PROVE  LiveInv'
<1> USE DEF IInv
<1> DEFINE c == ChatOf(i)
           n == Len(spawned) + 1
<1>1. i \in DOMAIN tasks /\ tasks[i].st = "spawning" /\ c \in Chats /\ ~HasLive(c)
  BY ChatFacts DEF ClientStarted, AtStep, LiveInv
<1>2. spawned \in Seq(Client) /\ clients \in [Chats -> 0..Len(spawned)]
  BY DEF TypeOK, RouterTypeOK
<1>3. /\ DOMAIN spawned' = 1..n
      /\ spawned'[n] = [chat |-> c, alive |-> TRUE, running |-> TRUE]
      /\ \A k \in 1..Len(spawned) : spawned'[k] = spawned[k]
  <2>1. [chat |-> c, alive |-> TRUE, running |-> TRUE] \in Client
    BY <1>1 DEF Client
  <2> QED
    BY <1>2, <2>1, AppendProperties, LenProperties DEF ClientStarted, Registers
<1>4. clients'[c] = n /\ \A d \in Chats : d # c => clients'[d] = clients[d]
  BY <1>1, <1>2 DEF ClientStarted, Registers
<1>5. Len(spawned) \in Nat /\ DOMAIN spawned = 1..Len(spawned)
  BY <1>2, LenProperties
<1>6. ASSUME NEW k \in DOMAIN spawned', spawned'[k].alive
      PROVE  clients'[spawned'[k].chat] = k
  <2>1. CASE k = n
    BY <1>3, <1>4, <2>1
  <2>2. CASE k \in 1..Len(spawned)
    <3>1. spawned'[k] = spawned[k] /\ spawned[k] \in Client
      BY <1>2, <1>3, <2>2, ElementOfSeq
    <3>2. clients[spawned[k].chat] = k
      BY <1>5, <1>6, <2>2, <3>1 DEF LiveInv, LiveIsReachable
    <3>3. spawned[k].chat # c
      BY <1>1, <1>5, <1>6, <2>2, <3>1, <3>2 DEF HasLive
    <3> QED
      BY <1>4, <3>1, <3>2, <3>3 DEF Client
  <2> QED
    BY <1>3, <1>5, <2>1, <2>2
<1>7. ASSUME NEW j \in DOMAIN tasks', tasks'[j].st = "spawning"
      PROVE  ~HasLive(ChatOf(j))'
  <2>1. "turn" \in Step /\ GoesTo(i, "turn")
    BY DEF Step, ClientStarted
  <2>2. j \in DOMAIN tasks /\ j # i /\ tasks'[j] = tasks[j] /\ ChatOf(j)' = ChatOf(j)
    BY <1>1, <1>7, <2>1, GoesToTypes DEF ChatOf
  <2>3. PastLock(i) /\ PastLock(j)
    BY <1>1, <1>7, <2>2 DEF PastLock
  <2>4. ChatOf(j) # c /\ ChatOf(j) \in Chats
    BY <1>1, <2>2, <2>3, HolderAtHead, ChatFacts
  <2>5. clients'[ChatOf(j)] = clients[ChatOf(j)]
    BY <1>4, <2>4
  <2>6. clients[ChatOf(j)] # 0 => spawned'[clients[ChatOf(j)]] = spawned[clients[ChatOf(j)]]
    BY <1>2, <1>3, <1>5, <2>4
  <2>7. ~HasLive(ChatOf(j))
    BY <1>7, <2>2 DEF LiveInv, LiveIsReachable
  <2> QED
    BY <2>2, <2>5, <2>6, <2>7 DEF HasLive
<1> QED
  BY <1>6, <1>7 DEF LiveInv, LiveIsReachable

\* What a client does by itself, or when it is stopped, never makes it alive.
LEMMA LiveLoses ==
  ASSUME IInv, LiveInv, UNCHANGED <<tasks, clients>>,
         NEW k \in DOMAIN spawned, NEW e, spawned' = [spawned EXCEPT ![k] = e],
         e.alive => spawned[k].alive /\ e.chat = spawned[k].chat
  PROVE  LiveInv'
<1>1. spawned \in Seq(Client) /\ clients \in [Chats -> 0..Len(spawned)]
  BY DEF IInv, TypeOK, RouterTypeOK
<1>2. DOMAIN spawned' = DOMAIN spawned /\ spawned'[k] = e
  BY <1>1
<1>3. \A j \in DOMAIN spawned : j # k => spawned'[j] = spawned[j]
  BY <1>1
<1>4. ASSUME NEW j \in DOMAIN spawned', spawned'[j].alive
      PROVE  clients'[spawned'[j].chat] = j
  BY <1>2, <1>3, <1>4 DEF LiveInv, LiveIsReachable
<1>5. ASSUME NEW i \in DOMAIN tasks', tasks'[i].st = "spawning"
      PROVE  ~HasLive(ChatOf(i))'
  <2>1. ~HasLive(ChatOf(i)) /\ ChatOf(i)' = ChatOf(i) /\ ChatOf(i) \in Chats
    BY <1>5, ChatFacts DEF LiveInv, LiveIsReachable, ChatOf, IInv
  <2>2. clients[ChatOf(i)] # 0 => clients[ChatOf(i)] \in DOMAIN spawned
    BY <1>1, <2>1, LenProperties
  <2> QED
    BY <1>2, <1>3, <2>1, <2>2 DEF HasLive
<1> QED
  BY <1>4, <1>5 DEF LiveInv, LiveIsReachable

\* Where the table and the clients stay as they are, only a task that starts to
\* start a client matters.
LEMMA LiveUntouched ==
  ASSUME LiveInv, UNCHANGED routerVars,
         \A i \in DOMAIN tasks' : tasks'[i].st = "spawning" =>
             \/ i \in DOMAIN tasks /\ tasks[i].st = "spawning" /\ tasks'[i].chat = tasks[i].chat
             \/ ~HasLive(tasks'[i].chat)
  PROVE  LiveInv'
  BY DEF LiveInv, LiveIsReachable, routerVars, HasLive, ChatOf

\* A handler goes on: only a task that found no live client starts one.
LEMMA LiveHandler ==
  ASSUME IInv, LiveInv, NEW i \in 1..MaxMessages, HandlerStep(i) \/ TurnStep(i)
  PROVE  LiveInv'
<1> USE DEF IInv
<1>1. CASE ClientStarted(i)
  BY <1>1, NewLive
<1>2. CASE StartsClient(i)
  <2>1. i \in DOMAIN tasks /\ "spawning" \in Step /\ GoesTo(i, "spawning")
    BY <1>2 DEF StartsClient, HoldsLock, AtStep, Step
  <2>2. ~HasLive(tasks'[i].chat) /\ DOMAIN tasks' = DOMAIN tasks
    BY <1>2, <2>1, GoesToTypes DEF StartsClient, ChatOf
  <2>3. \A j \in DOMAIN tasks' : j # i => tasks'[j] = tasks[j]
    BY <2>1, GoesToTypes
  <2> QED
    BY <1>2, <2>2, <2>3, LiveUntouched DEF StartsClient
<1>3. CASE ~ClientStarted(i) /\ ~StartsClient(i)
  <2>1. PICK st \in Step \ {"spawning"} : GoesTo(i, st)
    BY <1>3 DEF HandlerStep, TurnStep, Begins, Prompts, StartFails, Sends, SendFails,
       SendsError, TurnReturns, TurnFails, Releases, Step
  <2>2. i \in DOMAIN tasks /\ UNCHANGED routerVars
    BY <1>3 DEF HandlerStep, TurnStep, Begins, Prompts, StartFails, Sends, SendFails,
       SendsError, TurnReturns, TurnFails, HoldsLock, AtStep
  <2>3. /\ DOMAIN tasks' = DOMAIN tasks /\ tasks'[i].st # "spawning"
        /\ \A j \in DOMAIN tasks : j # i => tasks'[j] = tasks[j]
    BY <2>1, <2>2, GoesToTypes
  <2> QED
    BY <2>2, <2>3, LiveUntouched
<1> QED
  BY <1>1, <1>2, <1>3

\* A client exits, loses its reader after its process, or is stopped.
LEMMA LiveClient ==
  ASSUME IInv, LiveInv, (ClientNext /\ UNCHANGED relayVars) \/ StopsOne \/ StopRaises
  PROVE  LiveInv'
<1>1. spawned \in Seq(Client) /\ clients \in [Chats -> 0..Len(spawned)]
  BY DEF IInv, TypeOK, RouterTypeOK
<1>2. CASE ClientNext /\ UNCHANGED relayVars
  <2>1. PICK k \in DOMAIN spawned : ProcessExits(k) \/ ReaderSeesExit(k) \/ ReaderCrashes(k)
    BY <1>2 DEF ClientNext
  <2>2. spawned[k] \in Client
    BY <1>1, <2>1, ElementOfSeq
  <2>3. UNCHANGED <<tasks, clients>>
    BY <1>2, <2>1 DEF relayVars, ProcessExits, ReaderSeesExit, ReaderCrashes
  <2>4. CASE ProcessExits(k)
    <3> DEFINE e == [spawned[k] EXCEPT !.running = FALSE]
    <3>1. e.alive = spawned[k].alive /\ e.chat = spawned[k].chat
      BY <2>2 DEF Client
    <3>2. spawned' = [spawned EXCEPT ![k] = e]
      BY <2>4 DEF ProcessExits
    <3> HIDE DEF e
    <3> QED
      BY <2>3, <3>1, <3>2, LiveLoses
  <2>5. CASE ReaderSeesExit(k) \/ ReaderCrashes(k)
    <3> DEFINE e == [spawned[k] EXCEPT !.alive = FALSE]
    <3>1. ~e.alive
      BY <2>2 DEF Client
    <3>2. spawned' = [spawned EXCEPT ![k] = e]
      BY <2>5 DEF ReaderSeesExit, ReaderCrashes
    <3> HIDE DEF e
    <3> QED
      BY <2>3, <3>1, <3>2, LiveLoses
  <2> QED
    BY <2>1, <2>4, <2>5
<1>3. CASE StopsOne \/ StopRaises
  <2>1. PICK c \in ToStop : StopsClient(c)
    BY <1>3 DEF StopsOne, StopRaises
  <2>2. clients[c] \in DOMAIN spawned
    BY <1>1, <2>1, LenProperties DEF StopsClient, ToStop
  <2> DEFINE e == [chat |-> c, alive |-> FALSE, running |-> FALSE]
  <2>3. ~e.alive
    OBVIOUS
  <2>4. spawned' = [spawned EXCEPT ![clients[c]] = e]
    BY <2>1 DEF StopsClient
  <2>5. UNCHANGED <<tasks, clients>>
    BY <1>3 DEF StopsOne, StopRaises, relayVars
  <2> HIDE DEF e
  <2> QED
    BY <2>2, <2>3, <2>4, <2>5, LiveLoses
<1> QED
  BY <1>2, <1>3

\* It is inductive, given types and lock.
LEMMA LiveStep ==
  ASSUME IInv, LiveInv, [Next]_vars
  PROVE  LiveInv'
<1> USE DEF IInv
<1>1. CASE \E c \in Chats : Dispatches(c)
  <2>1. PICK c \in Chats : Dispatches(c)
    BY <1>1
  <2>2. tasks \in Seq(Task) /\ [chat |-> c, st |-> "created"] \in Task
    BY DEF TypeOK, Task, Step
  <2>3. \A i \in DOMAIN tasks' : \/ i \in DOMAIN tasks /\ tasks'[i] = tasks[i]
                                \/ tasks'[i].st = "created"
    BY <2>1, <2>2, AppendProperties, LenProperties DEF Dispatches
  <2> QED
    BY <2>1, <2>3, LiveUntouched DEF Dispatches
<1>2. CASE RunEnds \/ Gathered \/ ClosesSender
  BY <1>2, LiveUntouched DEF RunEnds, Gathered, ClosesSender
<1>3. CASE \E i \in 1..MaxMessages : HandlerStep(i) \/ TurnStep(i)
  BY <1>3, LiveHandler
<1>4. CASE (ClientNext /\ UNCHANGED relayVars) \/ StopsOne \/ StopRaises
  BY <1>4, LiveClient
<1>5. CASE ClearsClients
  <2>1. spawned \in Seq(Client) /\ spawned' = spawned /\ tasks' = tasks
    BY <1>5 DEF ClearsClients, TypeOK, RouterTypeOK
  <2>2. ASSUME NEW k \in DOMAIN spawned PROVE ~spawned[k].alive
    <3>1. spawned[k] \in Client /\ k # 0
      BY <2>1, <2>2, ElementOfSeq
    <3>2. spawned[k].alive => spawned[k].chat \in ToStop
      BY <2>2, <3>1 DEF LiveInv, LiveIsReachable, ToStop, Client
    <3> QED
      BY <1>5, <3>2 DEF ClearsClients
  <2>3. \A i \in DOMAIN tasks : ~HasLive(ChatOf(i))'
    BY <1>5, <2>1, ChatFacts DEF ClearsClients, HasLive, ChatOf
  <2> QED
    BY <2>1, <2>2, <2>3 DEF LiveInv, LiveIsReachable
<1>6. CASE Impatient
  <2>1. tasks \in Seq(Task)
    BY DEF TypeOK, Task
  <2>2. ASSUME NEW i \in DOMAIN tasks' PROVE tasks'[i].st = "done"
    <3>1. i \in 1..Len(tasks) /\ tasks[i] \in Task
      BY <1>6, <2>1, <2>2, ElementOfSeq DEF Impatient
    <3> QED
      BY <1>6, <2>1, <3>1 DEF Impatient, Task
  <2> QED
    BY <1>6, <2>2, LiveUntouched DEF Impatient
<1>7. CASE UNCHANGED vars
  BY <1>7, LiveUntouched DEF vars, relayVars
<1> QED
  BY <1>1, <1>2, <1>3, <1>4, <1>5, <1>6, <1>7 DEF Next, StopStep

\* A client that is alive is the one the table holds for its chat: no live client is
\* ever replaced or forgotten, whatever crashes, because the router starts one only
\* under the lock of the chat and only when it finds none alive.
THEOREM LiveClientsAreReachable == Spec => []LiveIsReachable
<1>1. Init => LiveInv
  BY DEF Init, RouterInit, LiveInv, LiveIsReachable
<1>2. IInv /\ LiveInv /\ [Next]_vars => LiveInv'
  BY LiveStep
<1>3. LiveInv => LiveIsReachable
  BY DEF LiveInv
<1> QED
  BY <1>1, <1>2, <1>3, RelayInvariant, PTL DEF Spec

-----------------------------------------------------------------------------
(* The owner of a session *)

\* A client that was replaced was not alive then, and never is again.
NoneReplacedAlive == \A j \in DOMAIN spawned : Replaced(j) => ~spawned[j].alive

\* Until stop_all() forgets the clients, the table holds the newest of each chat.
HoldsNewest ==
    main \notin {"close_sender", "exited"}
        => \A j \in DOMAIN spawned : ~Replaced(j) => clients[spawned[j].chat] = j

\* The table holds a client of the chat itself.
HoldsOwn == \A c \in Chats : clients[c] # 0 => spawned[clients[c]].chat = c

TableInv == NoneReplacedAlive /\ HoldsNewest /\ HoldsOwn

OwnerInv == LiveInv /\ TableInv

\* The new client of a chat replaces the others of the chat, none of which is alive.
LEMMA NewOwner ==
  ASSUME IInv, OwnerInv, NEW i \in 1..MaxMessages, ClientStarted(i)
  PROVE  TableInv'
<1> USE DEF IInv, OwnerInv, TableInv
<1> DEFINE c == ChatOf(i)
           n == Len(spawned) + 1
<1>1. i \in DOMAIN tasks /\ c \in Chats /\ ~HasLive(c)
  BY ChatFacts DEF ClientStarted, AtStep, LiveInv
<1>2. spawned \in Seq(Client) /\ clients \in [Chats -> 0..Len(spawned)]
  BY DEF TypeOK, RouterTypeOK
<1>3. /\ DOMAIN spawned' = 1..n /\ spawned'[n].chat = c
      /\ \A k \in 1..Len(spawned) : spawned'[k] = spawned[k]
  <2>1. [chat |-> c, alive |-> TRUE, running |-> TRUE] \in Client
    BY <1>1 DEF Client
  <2> QED
    BY <1>2, <2>1, AppendProperties, LenProperties DEF ClientStarted, Registers
<1>4. clients'[c] = n /\ \A d \in Chats : d # c => clients'[d] = clients[d]
  BY <1>1, <1>2 DEF ClientStarted, Registers
<1>5. Len(spawned) \in Nat /\ DOMAIN spawned = 1..Len(spawned)
  BY <1>2, LenProperties
<1>6. ASSUME NEW j \in 1..Len(spawned)
      PROVE  /\ spawned'[j] = spawned[j] /\ spawned[j].chat \in Chats
             /\ Replaced(j)' <=> (Replaced(j) \/ spawned[j].chat = c)
             /\ spawned[j].chat = c => ~spawned[j].alive
  <2>1. spawned'[j] = spawned[j] /\ spawned[j] \in Client
    BY <1>2, <1>3, ElementOfSeq
  <2>2. Replaced(j)' <=> \E k \in 1..n : j < k /\ spawned[j].chat = spawned'[k].chat
    BY <1>3, <2>1 DEF Replaced
  <2>3. Replaced(j) <=> \E k \in 1..Len(spawned) : j < k /\ spawned[j].chat = spawned'[k].chat
    BY <1>3, <1>5 DEF Replaced
  <2>4. \A k : k \in 1..n <=> (k \in 1..Len(spawned) \/ k = n)
    BY <1>5
  <2>5. j < n
    BY <1>5
  <2>6. spawned[j].alive => clients[spawned[j].chat] = j
    BY <1>5 DEF LiveInv, LiveIsReachable
  <2>7. spawned[j].chat = c => ~spawned[j].alive
    BY <1>1, <1>5, <2>6 DEF HasLive
  <2> QED
    BY <1>3, <2>1, <2>2, <2>3, <2>4, <2>5, <2>7 DEF Client
<1>7. ASSUME NEW j \in DOMAIN spawned', Replaced(j)' PROVE j \in 1..Len(spawned)
  <2>1. PICK k \in 1..n : j < k
    BY <1>3, <1>7 DEF Replaced
  <2> QED
    BY <1>3, <1>5, <2>1
<1>8. ASSUME NEW j \in DOMAIN spawned', Replaced(j)' PROVE ~spawned'[j].alive
  <2>1. j \in 1..Len(spawned)
    BY <1>7, <1>8
  <2> QED
    BY <1>5, <1>6, <1>8, <2>1 DEF NoneReplacedAlive
<1>9. ASSUME NEW j \in DOMAIN spawned', ~Replaced(j)', main \notin {"close_sender", "exited"}
      PROVE  clients'[spawned'[j].chat] = j
  <2>1. CASE j = n
    BY <1>3, <1>4, <2>1
  <2>2. CASE j \in 1..Len(spawned)
    BY <1>4, <1>5, <1>6, <1>9, <2>2 DEF HoldsNewest
  <2> QED
    BY <1>3, <1>5, <2>1, <2>2
<1>10. main' = main
  BY DEF ClientStarted
<1>11. ASSUME NEW d \in Chats, clients'[d] # 0 PROVE spawned'[clients'[d]].chat = d
  <2>1. CASE d = c
    BY <1>3, <1>4, <2>1
  <2>2. CASE d # c
    BY <1>2, <1>4, <1>5, <1>6, <1>11, <2>2 DEF HoldsOwn
  <2> QED
    BY <2>1, <2>2
<1> QED
  BY <1>8, <1>9, <1>10, <1>11 DEF NoneReplacedAlive, HoldsNewest, HoldsOwn

\* What a client does by itself, or when it is stopped, replaces nobody.
LEMMA OwnerLoses ==
  ASSUME IInv, OwnerInv, NEW k \in DOMAIN spawned, NEW e, spawned' = [spawned EXCEPT ![k] = e],
         e.chat = spawned[k].chat, e.alive => spawned[k].alive, UNCHANGED clients,
         main' \notin {"close_sender", "exited"} => main \notin {"close_sender", "exited"}
  PROVE  TableInv'
<1>1. DOMAIN spawned' = DOMAIN spawned
  BY DEF IInv, TypeOK, RouterTypeOK
<1>2. ASSUME NEW j \in DOMAIN spawned
      PROVE  spawned'[j].chat = spawned[j].chat /\ (spawned'[j].alive => spawned[j].alive)
  BY DEF IInv, TypeOK, RouterTypeOK
<1>3. \A j \in DOMAIN spawned : Replaced(j)' <=> Replaced(j)
  BY <1>1, <1>2 DEF Replaced
<1>4. \A c \in Chats : clients[c] # 0 => clients[c] \in DOMAIN spawned
  BY LenProperties DEF IInv, TypeOK, RouterTypeOK
<1> QED
  BY <1>1, <1>2, <1>3, <1>4 DEF OwnerInv, TableInv, NoneReplacedAlive, HoldsNewest, HoldsOwn

\* Where the clients stay as they are, only their clearing changes the table.
LEMMA OwnerUntouched ==
  ASSUME OwnerInv, UNCHANGED spawned,
         \/ UNCHANGED clients /\ (main' \notin {"close_sender", "exited"}
                                     => main \notin {"close_sender", "exited"})
         \/ main' = "close_sender" /\ clients' = [c \in Chats |-> 0]
  PROVE  TableInv'
  BY DEF OwnerInv, TableInv, NoneReplacedAlive, HoldsNewest, HoldsOwn, Replaced

\* Ownership is inductive, given types and lock, one case per kind of step.
LEMMA OwnerStep ==
  ASSUME IInv, OwnerInv, [Next]_vars
  PROVE  OwnerInv'
<1>1. LiveInv'
  BY LiveStep DEF OwnerInv
<1>2. spawned \in Seq(Client) /\ clients \in [Chats -> 0..Len(spawned)]
  BY DEF IInv, TypeOK, RouterTypeOK
<1>3. CASE \E i \in 1..MaxMessages : ClientStarted(i)
  BY <1>1, <1>3, NewOwner DEF OwnerInv
<1>4. CASE ClientNext /\ UNCHANGED relayVars
  <2>1. PICK k \in DOMAIN spawned : ProcessExits(k) \/ ReaderSeesExit(k) \/ ReaderCrashes(k)
    BY <1>4 DEF ClientNext
  <2>2. spawned[k] \in Client
    BY <1>2, <2>1, ElementOfSeq
  <2>3. /\ [spawned[k] EXCEPT !.running = FALSE].chat = spawned[k].chat
        /\ [spawned[k] EXCEPT !.running = FALSE].alive = spawned[k].alive
        /\ [spawned[k] EXCEPT !.alive = FALSE].chat = spawned[k].chat
        /\ ~[spawned[k] EXCEPT !.alive = FALSE].alive
    BY <2>2 DEF Client
  <2>4. PICK e : /\ spawned' = [spawned EXCEPT ![k] = e]
                 /\ e.chat = spawned[k].chat /\ (e.alive => spawned[k].alive)
    BY <2>1, <2>3 DEF ProcessExits, ReaderSeesExit, ReaderCrashes
  <2>5. UNCHANGED <<clients, main>>
    BY <1>4, <2>1 DEF relayVars, ProcessExits, ReaderSeesExit, ReaderCrashes
  <2> QED
    BY <1>1, <2>4, <2>5, OwnerLoses DEF OwnerInv
<1>5. CASE StopsOne \/ StopRaises
  <2>1. PICK c \in ToStop : StopsClient(c)
    BY <1>5 DEF StopsOne, StopRaises
  <2> DEFINE e == [chat |-> c, alive |-> FALSE, running |-> FALSE]
  <2>2. /\ clients[c] \in DOMAIN spawned /\ spawned' = [spawned EXCEPT ![clients[c]] = e]
        /\ c \in Chats
    BY <1>2, <2>1, LenProperties DEF StopsClient, ToStop
  <2>3. /\ main = "stop_all" /\ UNCHANGED clients
    BY <1>5 DEF StopsOne, StopRaises
  <2>4. spawned[clients[c]].chat = c
    BY <2>1, <2>2 DEF OwnerInv, TableInv, HoldsOwn, StopsClient
  <2> QED
    BY <1>1, <2>2, <2>3, <2>4, OwnerLoses DEF OwnerInv
<1>6. CASE UNCHANGED routerVars /\ (main' \notin {"close_sender", "exited"}
                                     => main \notin {"close_sender", "exited"})
  BY <1>1, <1>6, OwnerUntouched DEF OwnerInv, routerVars
<1>7. CASE ClearsClients
  BY <1>1, <1>7, OwnerUntouched DEF OwnerInv, ClearsClients
<1> QED
  BY <1>3, <1>4, <1>5, <1>6, <1>7
     DEF Next, vars, relayVars, Dispatches, RunEnds, HandlerStep, TurnStep, Begins, Prompts,
         StartsClient, StartFails, Sends, SendFails, SendsError, TurnReturns, TurnFails, StopStep,
         Gathered, ClosesSender, Impatient

\* Whatever exits, crashes, is replaced or stopped: the only second owner a session
\* file can have is an orphan, a process whose reader ended before it and whose client
\* was then replaced.  Where no reader crashes there is one owner at most.
THEOREM OnlyOrphansShareASession == Spec => []OnlyOrphansShare
<1>1. Init => OwnerInv
  BY DEF Init, RouterInit, OwnerInv, LiveInv, LiveIsReachable, TableInv, NoneReplacedAlive,
         HoldsNewest, HoldsOwn
<1>2. IInv /\ OwnerInv /\ [Next]_vars => OwnerInv'
  BY OwnerStep
<1>3. OwnerInv => OnlyOrphansShare
  BY DEF OwnerInv, TableInv, NoneReplacedAlive, OnlyOrphansShare
<1> QED
  BY <1>1, <1>2, <1>3, RelayInvariant, PTL DEF Spec

-----------------------------------------------------------------------------
(* The end of the relay *)

\* From stop_all() on every task is done; from the close of the sender on only
\* orphans run that were replaced; each unless stop() was cut short.
ExitInv ==
    /\ main \in {"stop_all", "close_sender", "exited"} => AllDone
    /\ main \in {"close_sender", "exited"} /\ cut = "nothing"
         => \A k \in DOMAIN spawned : spawned[k].running => Replaced(k)
    /\ main = "exited" /\ cut = "nothing" => ~senderOpen

\* A task that takes a step is not done, so stop() is not past gather().
LEMMA ExitHandler ==
  ASSUME IInv, ExitInv, NEW i \in 1..MaxMessages, HandlerStep(i) \/ TurnStep(i)
  PROVE  ExitInv'
<1>1. i \in DOMAIN tasks /\ tasks[i].st # "done" /\ UNCHANGED <<main, cut, senderOpen>>
  BY DEF HandlerStep, TurnStep, Begins, Prompts, StartsClient, ClientStarted, StartFails, Sends,
     SendFails, SendsError, TurnReturns, TurnFails, HoldsLock, AtStep
<1>2. main \notin {"stop_all", "close_sender", "exited"}
  BY <1>1 DEF ExitInv, AllDone
<1> QED
  BY <1>1, <1>2 DEF ExitInv

\* A client that exits or loses its reader does not start to run.
LEMMA ExitClient ==
  ASSUME IInv, ExitInv, ClientNext, UNCHANGED relayVars
  PROVE  ExitInv'
<1>1. spawned \in Seq(Client)
  BY DEF IInv, TypeOK, RouterTypeOK
<1>2. PICK k \in DOMAIN spawned : ProcessExits(k) \/ ReaderSeesExit(k) \/ ReaderCrashes(k)
  BY DEF ClientNext
<1>3. spawned[k] \in Client /\ k \in 1..Len(spawned)
  BY <1>1, <1>2, ElementOfSeq
<1>4. /\ DOMAIN spawned' = DOMAIN spawned
      /\ \A j \in DOMAIN spawned : /\ spawned'[j].running => spawned[j].running
                                   /\ spawned'[j].chat = spawned[j].chat
  BY <1>1, <1>2, <1>3 DEF ProcessExits, ReaderSeesExit, ReaderCrashes, Client
<1>5. UNCHANGED <<main, cut, senderOpen, AllDone>>
  BY DEF relayVars, AllDone
<1>6. \A j \in DOMAIN spawned : Replaced(j) => Replaced(j)'
  BY <1>4 DEF Replaced
<1> QED
  BY <1>4, <1>5, <1>6 DEF ExitInv

\* The order of stop() is inductive, given types, lock and owners.
LEMMA ExitStep ==
  ASSUME IInv, OwnerInv, ExitInv, [Next]_vars
  PROVE  ExitInv'
<1>1. CASE (\E c \in Chats : Dispatches(c)) \/ RunEnds
  BY <1>1 DEF Dispatches, RunEnds, ExitInv
<1>2. CASE \E i \in 1..MaxMessages : HandlerStep(i) \/ TurnStep(i)
  BY <1>2, ExitHandler
<1>3. CASE Gathered \/ StopsOne
  <2>1. AllDone /\ AllDone' /\ main' = "stop_all"
    BY <1>3 DEF Gathered, StopsOne, relayVars, AllDone, ExitInv
  <2> QED
    BY <2>1 DEF ExitInv
<1>4. CASE StopRaises
  BY <1>4 DEF StopRaises, ExitInv, AllDone
<1>5. CASE ClearsClients
  <2>1. spawned \in Seq(Client) /\ spawned' = spawned /\ AllDone' /\ main' = "close_sender"
    BY <1>5 DEF ClearsClients, IInv, TypeOK, RouterTypeOK, ExitInv, AllDone
  <2>2. ASSUME NEW k \in DOMAIN spawned, ~Replaced(k) PROVE ~spawned[k].running
    <3>1. spawned[k] \in Client /\ k # 0
      BY <2>1, <2>2, ElementOfSeq
    <3>2. clients[spawned[k].chat] = k
      BY <1>5, <2>2 DEF OwnerInv, TableInv, HoldsNewest, ClearsClients
    <3>3. spawned[k].running => spawned[k].chat \in ToStop
      BY <3>1, <3>2 DEF ToStop, Client
    <3> QED
      BY <1>5, <3>3 DEF ClearsClients
  <2> QED
    BY <2>1, <2>2 DEF ExitInv, Replaced
<1>6. CASE ClosesSender
  BY <1>6 DEF ClosesSender, ExitInv, AllDone, routerVars, Replaced
<1>7. CASE Impatient
  <2>1. tasks \in Seq(Task)
    BY DEF IInv, TypeOK, Task
  <2>2. ASSUME NEW i \in DOMAIN tasks' PROVE tasks'[i].st = "done"
    <3>1. i \in 1..Len(tasks) /\ tasks[i] \in Task
      BY <1>7, <2>1, <2>2, ElementOfSeq DEF Impatient
    <3> QED
      BY <1>7, <2>1, <3>1 DEF Impatient, Task
  <2> QED
    BY <1>7, <2>2 DEF Impatient, ExitInv, AllDone
<1>8. CASE ClientNext /\ UNCHANGED relayVars
  BY <1>8, ExitClient
<1>9. CASE UNCHANGED vars
  BY <1>9 DEF vars, relayVars, routerVars, ExitInv, AllDone, Replaced
<1> QED
  BY <1>1, <1>2, <1>3, <1>4, <1>5, <1>6, <1>7, <1>8, <1>9 DEF Next, StopStep

\* stop() that runs to its end leaves every message finished, the sender closed and no
\* PI process running but the orphans whose client was replaced, whatever crashed before
\* or crashes meanwhile; one that an interrupt or a raising client.stop() cuts short
\* still leaves no turn under way.
THEOREM RelayExitsClean == Spec => []CleanExit
<1>1. Init => OwnerInv /\ ExitInv
  BY DEF Init, RouterInit, OwnerInv, LiveInv, LiveIsReachable, TableInv, NoneReplacedAlive,
         HoldsNewest, HoldsOwn, ExitInv
<1>2. IInv /\ OwnerInv /\ ExitInv /\ [Next]_vars => OwnerInv' /\ ExitInv'
  BY OwnerStep, ExitStep
<1>3. ExitInv => CleanExit
  BY DEF ExitInv, CleanExit
<1> QED
  BY <1>1, <1>2, <1>3, RelayInvariant, PTL DEF Spec
=============================================================================
