-------------------------- MODULE RelayOrderProofs --------------------------
(***************************************************************************)
(* The order of replies in Relay, on top of the lock's invariant of        *)
(* RelayProofs: tasks begin in the order of their creation, so the queue   *)
(* of a lock is sorted, and its holder is the first unfinished task of its *)
(* chat.  The relay therefore implements PerChatService, and every lock is *)
(* passed on.                                                              *)
(***************************************************************************)
EXTENDS RelayProofs

\* Tasks that have not begun come after those that have.
TaskOrder ==
    \A i, j \in DOMAIN tasks : tasks[i].st = "created" /\ i < j => tasks[j].st = "created"

\* The queue of a lock consists of tasks that have begun, in the order of creation.
QueueOrder ==
    \A c \in Chats :
        /\ \A k \in DOMAIN locks[c] :
             locks[c][k] \in DOMAIN tasks /\ tasks[locks[c][k]].st # "created"
        /\ \A k, l \in DOMAIN locks[c] : k < l => locks[c][k] < locks[c][l]

\* Task j may still reply after reply r.
Follows(r, j) == r.task < j \/ (r.task = j /\ r.what = "text" /\ tasks[j].st = "sending_error")

\* Whatever an unfinished task of the chat may still say follows what was said.
SentOrder ==
    \A c \in Chats : \A m \in DOMAIN sent[c] :
        /\ sent[c][m].task \in DOMAIN tasks
        /\ \A j \in DOMAIN tasks :
             tasks[j].st # "done" /\ ChatOf(j) = c => Follows(sent[c][m], j)

OrderInv == TaskOrder /\ QueueOrder /\ SentOrder /\ RepliesInOrder

\* The holder of the lock is the first unfinished task of its chat.
LEMMA HolderIsFirst ==
  ASSUME IInv, TaskOrder, QueueOrder, NEW i \in DOMAIN tasks, PastLock(i) \/ HoldsLock(i),
         NEW j \in DOMAIN tasks, tasks[j].st # "done", ChatOf(j) = ChatOf(i), j # i
  PROVE  i < j
<1> DEFINE c == ChatOf(i)
<1>1. c \in Chats /\ locks[c] \in Seq(1..MaxMessages) /\ tasks \in Seq(Task)
  BY ChatFacts DEF IInv, TypeOK, Task
<1>2. locks[c] # <<>> /\ Head(locks[c]) = i
  BY HolderAtHead
<1>3. i \in Nat /\ j \in Nat
  BY <1>1
<1>4. CASE tasks[j].st = "created"
  BY <1>3, <1>4 DEF TaskOrder, PastLock, HoldsLock, AtStep
<1>5. CASE tasks[j].st = "locking"
  <2>1. PICK k \in DOMAIN locks[c] : locks[c][k] = j
    BY <1>5 DEF IInv, LockInv
  <2>2. 1 \in DOMAIN locks[c] /\ locks[c][1] = i /\ k \in 1..Len(locks[c]) /\ k # 1
    BY <1>1, <1>2, <2>1
  <2>3. 1 < k
    BY <1>1, <2>2
  <2> QED
    BY <1>1, <2>1, <2>2, <2>3 DEF QueueOrder
<1>6. CASE PastLock(j)
  BY <1>2, <1>6, HolderAtHead
<1> QED
  BY <1>4, <1>5, <1>6 DEF PastLock

\* A task that has begun goes on, or the next one begins: nobody says anything.
LEMMA MoveKeepsOrder ==
  ASSUME IInv, OrderInv, NEW i \in DOMAIN tasks, NEW st \in Step \ {"created"}, GoesTo(i, st),
         tasks[i].st # "created" \/ \A j \in 1..(i - 1) : tasks[j].st # "created",
         tasks[i].st # "sending_error" \/ st = "done",
         tasks[i].st # "done"
  PROVE  /\ DOMAIN tasks' = DOMAIN tasks
         /\ \A j \in DOMAIN tasks : tasks'[j].chat = tasks[j].chat
         /\ tasks'[i].st = st /\ \A j \in DOMAIN tasks : j # i => tasks'[j] = tasks[j]
         /\ TaskOrder'
         /\ sent' = sent => SentOrder' /\ RepliesInOrder'
<1> USE DEF OrderInv
<1>1. /\ DOMAIN tasks' = DOMAIN tasks
      /\ tasks'[i].st = st /\ tasks'[i].chat = tasks[i].chat
      /\ \A j \in DOMAIN tasks : j # i => tasks'[j] = tasks[j]
  BY GoesToTypes DEF IInv
<1>2. \A j \in DOMAIN tasks : tasks'[j].chat = tasks[j].chat
  BY <1>1
<1>3. tasks \in Seq(Task) /\ DOMAIN tasks = 1..Len(tasks) /\ Len(tasks) \in Nat
  BY LenProperties DEF IInv, TypeOK, Task
<1>4. TaskOrder'
  <2> SUFFICES ASSUME NEW a \in DOMAIN tasks, NEW b \in DOMAIN tasks,
                      tasks'[a].st = "created", a < b
               PROVE  tasks'[b].st = "created"
    BY <1>1 DEF TaskOrder
  <2>1. a # i /\ tasks[a].st = "created" /\ tasks[b].st = "created"
    BY <1>1 DEF TaskOrder
  <2>2. b # i
    BY <1>3, <2>1
  <2> QED
    BY <1>1, <2>1, <2>2
<1>5. ASSUME sent' = sent PROVE SentOrder' /\ RepliesInOrder'
  <2>1. RepliesInOrder'
    BY <1>5 DEF RepliesInOrder
  <2>2. ASSUME NEW c \in Chats, NEW m \in DOMAIN sent[c], NEW j \in DOMAIN tasks,
               tasks'[j].st # "done", tasks'[j].chat = c
        PROVE  sent[c][m].task < j \/ (sent[c][m].task = j /\ sent[c][m].what = "text"
                                        /\ tasks'[j].st = "sending_error")
    <3>1. ChatOf(j) = c /\ tasks[j].st # "done"
      BY <1>1, <1>2, <2>2 DEF ChatOf
    <3>2. Follows(sent[c][m], j)
      BY <2>2, <3>1 DEF SentOrder
    <3> QED
      BY <1>1, <2>2, <3>2 DEF Follows
  <2>3. \A c \in Chats : \A m \in DOMAIN sent[c] : sent[c][m].task \in DOMAIN tasks
    BY DEF SentOrder
  <2> QED
    BY <1>1, <1>5, <2>1, <2>2, <2>3 DEF SentOrder, Follows, ChatOf
<1> QED
  BY <1>1, <1>2, <1>4, <1>5

\* Task i speaks as it moves on: it holds the lock, so it is the first of its chat.
LEMMA DeliveryKeepsOrder ==
  ASSUME IInv, OrderInv, NEW i \in DOMAIN tasks, NEW st \in {"sending_error", "done"}, GoesTo(i, st),
         NEW what \in {"text", "error"}, Delivers(i, what),
         \/ tasks[i].st = "sending" /\ what = "text"
         \/ tasks[i].st = "sending_error" /\ what = "error" /\ st = "done"
  PROVE  SentOrder' /\ RepliesInOrder'
<1> USE DEF OrderInv
<1> DEFINE r == [task |-> i, what |-> what]
           c == ChatOf(i)
           n == Len(sent[c]) + 1
<1>0. st \in Step /\ PastLock(i)
  BY DEF Step, PastLock
<1>1. /\ DOMAIN tasks' = DOMAIN tasks
      /\ tasks'[i].st = st /\ tasks'[i].chat = tasks[i].chat
      /\ \A j \in DOMAIN tasks : j # i => tasks'[j] = tasks[j]
  BY <1>0, GoesToTypes DEF IInv
<1>2. \A j \in DOMAIN tasks : tasks'[j].chat = ChatOf(j)
  BY <1>1 DEF ChatOf
<1>3. /\ tasks \in Seq(Task) /\ DOMAIN tasks = 1..Len(tasks) /\ i \in Nat
      /\ sent \in [Chats -> Seq(Reply)] /\ c \in Chats
  <2>1. tasks \in Seq(Task) /\ sent \in [Chats -> Seq(Reply)]
    BY DEF IInv, TypeOK, Task, Reply
  <2>2. c \in Chats
    BY ChatFacts DEF IInv
  <2> QED
    BY <2>1, <2>2, LenProperties
<1>4. r \in Reply
  <2>1. i \in 1..MaxMessages
    <3>1. ChatOf(i) \in Chats /\ locks[ChatOf(i)] \in Seq(1..MaxMessages)
      BY ChatFacts DEF IInv
    <3>2. locks[ChatOf(i)] # <<>> /\ Head(locks[ChatOf(i)]) = i
      BY <1>0, HolderAtHead
    <3> QED
      BY <3>1, <3>2, HeadTailProperties
  <2> QED
    BY <2>1 DEF Reply
<1>5. /\ \A d \in Chats : d # c => sent'[d] = sent[d]
      /\ DOMAIN sent'[c] = DOMAIN sent[c] \cup {n}
      /\ \A m \in DOMAIN sent[c] : sent'[c][m] = sent[c][m] /\ m < n
      /\ sent'[c][n] = r
      /\ n \in Nat
  <2>1. sent' = [sent EXCEPT ![c] = Append(sent[c], r)]
    BY DEF Delivers
  <2>2. sent[c] \in Seq(Reply) /\ sent'[c] = Append(sent[c], r)
    BY <1>3, <2>1
  <2> QED
    BY <1>3, <1>4, <2>1, <2>2, AppendProperties, LenProperties
<1>6. ASSUME NEW m \in DOMAIN sent[c]
      PROVE  /\ sent[c][m].task \in DOMAIN tasks
             /\ sent[c][m].task < i \/ (sent[c][m].task = i /\ sent[c][m].what = "text"
                                         /\ what = "error")
  <2>1. Follows(sent[c][m], i)
    BY <1>0, <1>3, <1>6 DEF SentOrder, PastLock
  <2> QED
    BY <1>3, <1>6, <2>1 DEF Follows, SentOrder
<1>7. RepliesInOrder'
  <2> SUFFICES ASSUME NEW d \in Chats, NEW k \in DOMAIN sent'[d], NEW m \in DOMAIN sent'[d], k < m
               PROVE  \/ sent'[d][k].task < sent'[d][m].task
                      \/ /\ sent'[d][k].task = sent'[d][m].task
                         /\ sent'[d][k].what = "text" /\ sent'[d][m].what = "error"
    BY DEF RepliesInOrder
  <2>1. CASE d # c
    BY <1>5, <2>1 DEF RepliesInOrder
  <2>2. CASE d = c
    <3>1. k \in DOMAIN sent[c]
      <4>1. DOMAIN sent[c] = 1..Len(sent[c]) /\ Len(sent[c]) \in Nat
        BY <1>3, LenProperties
      <4>2. k \in 1..n /\ m \in 1..n
        BY <1>5, <2>2, <4>1
      <4>3. k # n
        BY <1>5, <4>2
      <4> QED
        BY <1>5, <2>2, <4>3
    <3>2. CASE m \in DOMAIN sent[c]
      BY <1>3, <1>5, <2>2, <3>1, <3>2 DEF RepliesInOrder
    <3>3. CASE m = n
      BY <1>5, <1>6, <2>2, <3>1, <3>3
    <3> QED
      BY <1>5, <2>2, <3>2, <3>3
  <2> QED
    BY <2>1, <2>2
<1>8. SentOrder'
  <2> DEFINE StillFollows(q, j) ==
        q.task < j \/ (q.task = j /\ q.what = "text" /\ tasks'[j].st = "sending_error")
  <2> SUFFICES ASSUME NEW d \in Chats, NEW m \in DOMAIN sent'[d]
               PROVE  /\ sent'[d][m].task \in DOMAIN tasks
                      /\ \A j \in DOMAIN tasks :
                           tasks'[j].st # "done" /\ tasks'[j].chat = d
                             => StillFollows(sent'[d][m], j)
    BY <1>1 DEF SentOrder, ChatOf, Follows
  <2>1. CASE m \in DOMAIN sent[d]
    <3>1. sent'[d][m] = sent[d][m] /\ sent[d][m].task \in DOMAIN tasks
      BY <1>5, <2>1 DEF SentOrder
    <3>2. ASSUME NEW j \in DOMAIN tasks, tasks'[j].st # "done", tasks'[j].chat = d
          PROVE  StillFollows(sent[d][m], j)
      <4>1. Follows(sent[d][m], j)
        BY <1>0, <1>1, <1>2, <2>1, <3>2 DEF SentOrder, PastLock
      <4>2. j = i => sent[d][m].task < i \/ st = "done"
        BY <4>1 DEF Follows
      <4> QED
        BY <1>1, <3>2, <4>1, <4>2 DEF Follows
    <3> QED
      BY <3>1, <3>2
  <2>2. CASE m \notin DOMAIN sent[d]
    <3>1. d = c /\ sent'[d][m] = r
      BY <1>5, <2>2
    <3>2. ASSUME NEW j \in DOMAIN tasks, tasks'[j].st # "done", tasks'[j].chat = d
          PROVE  StillFollows(r, j)
      <4>1. CASE j = i
        BY <1>1, <3>2, <4>1 DEF Follows
      <4>2. CASE j # i
        BY <1>0, <1>1, <1>2, <3>1, <3>2, <4>2, HolderIsFirst
      <4> QED
        BY <4>1, <4>2
    <3> QED
      BY <3>1, <3>2
  <2> QED
    BY <2>1, <2>2
<1> QED
  BY <1>7, <1>8

-----------------------------------------------------------------------------
(* The queues of the locks *)

\* A task that begins is the last of those that have begun.
LEMMA JoinKeepsQueues ==
  ASSUME IInv, OrderInv, NEW i \in 1..MaxMessages, Begins(i)
  PROVE  QueueOrder'
<1> USE DEF OrderInv
<1> DEFINE c == ChatOf(i)
<1>1. i \in DOMAIN tasks /\ tasks[i].st = "created" /\ GoesTo(i, "locking") /\ "locking" \in Step
  BY DEF Begins, AtStep, Step
<1>2. /\ DOMAIN tasks' = DOMAIN tasks /\ tasks'[i].st = "locking"
      /\ \A j \in DOMAIN tasks : j # i => tasks'[j] = tasks[j]
  BY <1>1, GoesToTypes DEF IInv
<1>3. /\ tasks \in Seq(Task) /\ DOMAIN tasks = 1..Len(tasks)
      /\ c \in Chats /\ locks[c] \in Seq(1..MaxMessages)
  BY <1>1, ChatFacts, LenProperties DEF IInv, TypeOK, Task
<1>4. locks'[c] = Append(locks[c], i) /\ \A d \in Chats : d # c => locks'[d] = locks[d]
  BY <1>3 DEF Begins, IInv, TypeOK
<1>5. /\ DOMAIN locks'[c] = DOMAIN locks[c] \cup {Len(locks[c]) + 1}
      /\ \A k \in DOMAIN locks[c] : locks'[c][k] = locks[c][k] /\ k < Len(locks[c]) + 1
      /\ locks'[c][Len(locks[c]) + 1] = i
      /\ DOMAIN locks[c] = 1..Len(locks[c]) /\ Len(locks[c]) \in Nat
  BY <1>3, <1>4, AppendProperties, LenProperties
<1>6. \A k \in DOMAIN locks[c] : locks[c][k] < i
  <2> SUFFICES ASSUME NEW k \in DOMAIN locks[c] PROVE locks[c][k] < i
    OBVIOUS
  <2>1. locks[c][k] \in DOMAIN tasks /\ tasks[locks[c][k]].st # "created"
    BY <1>3 DEF QueueOrder
  <2>2. ~(i < locks[c][k]) /\ locks[c][k] # i
    BY <1>1, <2>1 DEF TaskOrder
  <2> QED
    BY <1>1, <1>3, <2>1, <2>2
<1>7. ASSUME NEW d \in Chats
      PROVE  /\ \A k \in DOMAIN locks'[d] :
                  locks'[d][k] \in DOMAIN tasks' /\ tasks'[locks'[d][k]].st # "created"
             /\ \A k, l \in DOMAIN locks'[d] : k < l => locks'[d][k] < locks'[d][l]
  <2>1. CASE d # c
    BY <1>2, <1>4, <2>1 DEF QueueOrder
  <2>2. CASE d = c
    <3>1. ASSUME NEW k \in DOMAIN locks'[c]
          PROVE  locks'[c][k] \in DOMAIN tasks' /\ tasks'[locks'[c][k]].st # "created"
      <4>1. CASE k \in DOMAIN locks[c]
        <5>1. locks[c][k] \in DOMAIN tasks /\ tasks[locks[c][k]].st # "created"
          BY <1>3, <4>1 DEF QueueOrder
        <5>2. locks[c][k] # i
          BY <1>1, <5>1
        <5> QED
          BY <1>2, <1>5, <4>1, <5>1, <5>2
      <4>2. CASE k = Len(locks[c]) + 1
        BY <1>1, <1>2, <1>5, <4>2
      <4> QED
        BY <1>5, <3>1, <4>1, <4>2
    <3>2. ASSUME NEW k \in DOMAIN locks'[c], NEW l \in DOMAIN locks'[c], k < l
          PROVE  locks'[c][k] < locks'[c][l]
      <4>1. k \in DOMAIN locks[c]
        BY <1>5, <3>2
      <4> QED
        BY <1>3, <1>5, <1>6, <3>2, <4>1 DEF QueueOrder
    <3> QED
      BY <2>2, <3>1, <3>2
  <2> QED
    BY <2>1, <2>2
<1> QED
  BY <1>7 DEF QueueOrder

\* The holder leaves at the head, and what is left keeps its order.
LEMMA LeaveKeepsQueues ==
  ASSUME IInv, OrderInv, NEW i \in DOMAIN tasks, PastLock(i), Releases(i)
  PROVE  QueueOrder'
<1> USE DEF OrderInv
<1> DEFINE c == ChatOf(i)
<1>1. /\ DOMAIN tasks' = DOMAIN tasks /\ tasks'[i].st = "done"
      /\ \A j \in DOMAIN tasks : j # i => tasks'[j] = tasks[j]
  BY GoesToTypes DEF IInv, Releases, Step
<1>2. c \in Chats /\ locks[c] \in Seq(1..MaxMessages) /\ locks[c] # <<>>
  BY ChatFacts, HolderAtHead DEF IInv
<1>3. locks'[c] = Tail(locks[c]) /\ \A d \in Chats : d # c => locks'[d] = locks[d]
  BY <1>2 DEF Releases, IInv, TypeOK
<1>4. /\ DOMAIN locks[c] = 1..Len(locks[c]) /\ Len(locks[c]) \in Nat
      /\ DOMAIN locks'[c] = 1..(Len(locks[c]) - 1)
      /\ \A k \in DOMAIN locks'[c] : locks'[c][k] = locks[c][k + 1]
  BY <1>2, <1>3, HeadTailProperties, LenProperties
<1>5. \A k \in DOMAIN locks'[c] : k + 1 \in DOMAIN locks[c]
  BY <1>4
<1>6. ASSUME NEW d \in Chats
      PROVE  /\ \A k \in DOMAIN locks'[d] :
                  locks'[d][k] \in DOMAIN tasks' /\ tasks'[locks'[d][k]].st # "created"
             /\ \A k, l \in DOMAIN locks'[d] : k < l => locks'[d][k] < locks'[d][l]
  <2>1. CASE d # c
    BY <1>1, <1>3, <2>1 DEF QueueOrder
  <2>2. CASE d = c
    <3>1. ASSUME NEW k \in DOMAIN locks'[c]
          PROVE  locks'[c][k] \in DOMAIN tasks' /\ tasks'[locks'[c][k]].st # "created"
      <4>1. locks[c][k + 1] \in DOMAIN tasks /\ tasks[locks[c][k + 1]].st # "created"
        BY <1>2, <1>5, <3>1 DEF QueueOrder
      <4> QED
        BY <1>1, <1>4, <3>1, <4>1
    <3>2. ASSUME NEW k \in DOMAIN locks'[c], NEW l \in DOMAIN locks'[c], k < l
          PROVE  locks'[c][k] < locks'[c][l]
      <4>1. k + 1 < l + 1
        BY <1>4, <3>2
      <4> QED
        BY <1>2, <1>4, <1>5, <3>2, <4>1 DEF QueueOrder
    <3> QED
      BY <2>2, <3>1, <3>2
  <2> QED
    BY <2>1, <2>2
<1> QED
  BY <1>6 DEF QueueOrder

-----------------------------------------------------------------------------
(* The steps of the relay *)

\* A step of a handler, one case per group of actions.
LEMMA HandlerKeepsOrder ==
  ASSUME IInv, OrderInv, NEW i \in 1..MaxMessages, HandlerStep(i) \/ TurnStep(i)
  PROVE  OrderInv'
<1>1. CASE Begins(i)
  <2>1. /\ i \in DOMAIN tasks /\ tasks[i].st = "created" /\ GoesTo(i, "locking")
        /\ "locking" \in Step \ {"created"} /\ UNCHANGED sent
        /\ \A j \in 1..(i - 1) : tasks[j].st # "created"
    BY <1>1 DEF Begins, AtStep, Step
  <2>2. TaskOrder' /\ SentOrder' /\ RepliesInOrder'
    BY <2>1, MoveKeepsOrder
  <2> QED
    BY <1>1, <2>2, JoinKeepsQueues DEF OrderInv
<1>2. CASE Prompts(i) \/ StartsClient(i) \/ ClientStarted(i) \/ StartFails(i) \/ TurnStep(i) \/ SendFails(i)
  <2>1. PICK st \in PastSteps : GoesTo(i, st) /\ (sent' # sent => st = "sending_error")
    BY <1>2 DEF Prompts, StartsClient, ClientStarted, StartFails, TurnStep, TurnReturns, TurnFails,
       SendFails, PastSteps
  <2>2. /\ i \in DOMAIN tasks /\ UNCHANGED locks
        /\ tasks[i].st \in {"locking", "spawning", "turn", "sending"}
    BY <1>2 DEF Prompts, StartsClient, ClientStarted, StartFails, TurnStep, TurnReturns, TurnFails,
       SendFails, HoldsLock, AtStep
  <2>3. sent' = sent \/ (tasks[i].st = "sending" /\ Delivers(i, "text"))
    BY <1>2 DEF Prompts, StartsClient, ClientStarted, StartFails, TurnStep, TurnReturns, TurnFails,
       SendFails, AtStep
  <2>4. st \in Step \ {"created"}
    BY DEF PastSteps, Step
  <2>5. /\ DOMAIN tasks' = DOMAIN tasks /\ tasks'[i].st = st
        /\ \A j \in DOMAIN tasks : j # i => tasks'[j] = tasks[j]
        /\ TaskOrder' /\ (sent' = sent => SentOrder' /\ RepliesInOrder')
    BY <2>1, <2>2, <2>4, MoveKeepsOrder
  <2>6. QueueOrder'
    BY <2>2, <2>4, <2>5 DEF OrderInv, QueueOrder
  <2>7. SentOrder' /\ RepliesInOrder'
    BY <2>1, <2>2, <2>3, <2>5, DeliveryKeepsOrder
  <2> QED
    BY <2>5, <2>6, <2>7 DEF OrderInv
<1>3. CASE Sends(i) \/ SendsError(i)
  <2>1. i \in DOMAIN tasks /\ tasks[i].st \in {"sending", "sending_error"} /\ Releases(i)
    BY <1>3 DEF Sends, SendsError, AtStep
  <2>2. GoesTo(i, "done") /\ PastLock(i) /\ "done" \in Step \ {"created"}
    BY <2>1 DEF Releases, PastLock, Step
  <2>3. \/ sent' = sent
        \/ tasks[i].st = "sending" /\ Delivers(i, "text")
        \/ tasks[i].st = "sending_error" /\ Delivers(i, "error")
    BY <1>3 DEF Sends, SendsError, AtStep
  <2>4. TaskOrder' /\ (sent' = sent => SentOrder' /\ RepliesInOrder')
    BY <2>1, <2>2, MoveKeepsOrder
  <2>5. SentOrder' /\ RepliesInOrder'
    BY <2>1, <2>2, <2>3, <2>4, DeliveryKeepsOrder
  <2> QED
    BY <2>1, <2>2, <2>4, <2>5, LeaveKeepsQueues DEF OrderInv
<1> QED
  BY <1>1, <1>2, <1>3 DEF HandlerStep

\* A new task has not begun and comes last.
LEMMA DispatchKeepsOrder ==
  ASSUME IInv, OrderInv, NEW c \in Chats, Dispatches(c)
  PROVE  OrderInv'
<1> USE DEF OrderInv
<1>1. tasks \in Seq(Task) /\ [chat |-> c, st |-> "created"] \in Task
  BY DEF IInv, TypeOK, Task, Step
<1>2. /\ DOMAIN tasks' = DOMAIN tasks \cup {Len(tasks) + 1}
      /\ \A j \in DOMAIN tasks : tasks'[j] = tasks[j] /\ j < Len(tasks) + 1
      /\ tasks'[Len(tasks) + 1].st = "created"
      /\ DOMAIN tasks = 1..Len(tasks) /\ Len(tasks) \in Nat
  BY <1>1, AppendProperties, LenProperties DEF Dispatches
<1>3. UNCHANGED <<locks, sent>>
  BY DEF Dispatches
<1>4. TaskOrder'
  BY <1>2 DEF TaskOrder
<1>5. QueueOrder'
  BY <1>2, <1>3 DEF QueueOrder
<1>6. RepliesInOrder'
  BY <1>3 DEF RepliesInOrder
<1>7. SentOrder'
  BY <1>2, <1>3 DEF SentOrder, Follows, ChatOf
<1> QED
  BY <1>4, <1>5, <1>6, <1>7

\* An interrupted stop() leaves nobody to say anything more.
LEMMA GiveUpKeepsOrder ==
  ASSUME IInv, OrderInv, Impatient
  PROVE  OrderInv'
<1> USE DEF OrderInv
<1>1. tasks \in Seq(Task) /\ sent' = sent
  BY DEF IInv, TypeOK, Task, Impatient
<1>2. DOMAIN tasks' = DOMAIN tasks
  BY DEF Impatient
<1>3. \A j \in DOMAIN tasks : tasks'[j].st = "done" /\ tasks'[j].chat = tasks[j].chat
  <2> SUFFICES ASSUME NEW j \in DOMAIN tasks
               PROVE  tasks'[j].st = "done" /\ tasks'[j].chat = tasks[j].chat
    OBVIOUS
  <2>1. tasks[j] \in Task /\ tasks'[j] = [tasks[j] EXCEPT !.st = "done"]
    BY <1>1, ElementOfSeq DEF Impatient
  <2> QED
    BY <2>1 DEF Task
<1>4. \A c \in Chats : locks'[c] = <<>>
  BY DEF Impatient
<1>5. TaskOrder' /\ QueueOrder'
  BY <1>2, <1>3, <1>4 DEF TaskOrder, QueueOrder
<1>6. SentOrder'
  BY <1>1, <1>2, <1>3 DEF SentOrder
<1>7. RepliesInOrder'
  BY <1>1 DEF RepliesInOrder
<1> QED
  BY <1>5, <1>6, <1>7

\* Whatever leaves tasks, locks and replies alone leaves their order alone.
LEMMA OrderUntouched ==
  ASSUME OrderInv, UNCHANGED <<tasks, locks, sent>>
  PROVE  OrderInv'
  BY DEF OrderInv, TaskOrder, QueueOrder, SentOrder, Follows, RepliesInOrder, ChatOf

\* Every step keeps the order.
LEMMA OrderStep ==
  ASSUME IInv, OrderInv, [Next]_vars
  PROVE  OrderInv'
<1>1. CASE \E c \in Chats : Dispatches(c)
  BY <1>1, DispatchKeepsOrder
<1>2. CASE \E i \in 1..MaxMessages : HandlerStep(i) \/ TurnStep(i)
  BY <1>2, HandlerKeepsOrder
<1>3. CASE Impatient
  BY <1>3, GiveUpKeepsOrder
<1>4. CASE RunEnds \/ StopStep \/ (ClientNext /\ UNCHANGED relayVars) \/ UNCHANGED vars
  BY <1>4, OrderUntouched DEF RunEnds, StopStep, Gathered, StopsOne, StopRaises, ClearsClients,
     ClosesSender, relayVars, vars
<1> QED
  BY <1>1, <1>2, <1>3, <1>4 DEF Next

\* The replies a chat sees come in the order of its messages, and a message gets one
\* text at most, which only an error can follow: however many tasks, chats, failing
\* turns and failing sends there are.
THEOREM RepliesKeepOrder == Spec => []RepliesInOrder
<1>1. Init => OrderInv
  BY DEF Init, OrderInv, TaskOrder, QueueOrder, SentOrder, RepliesInOrder
<1>2. IInv /\ OrderInv /\ [Next]_vars => OrderInv'
  BY OrderStep
<1>3. OrderInv => RepliesInOrder
  BY DEF OrderInv
<1> QED
  BY <1>1, <1>2, <1>3, RelayInvariant, PTL DEF Spec

-----------------------------------------------------------------------------
(* The relay implements PerChatService *)

Working == {i \in 1..MaxMessages : PastLock(i)}
Backlogs == [c \in Chats |-> Backlog(c)]

\* A task is in the backlog of its chat alone, until it is done.
LEMMA BacklogFacts ==
  ASSUME IInv, NEW i \in DOMAIN tasks, tasks[i].st # "done"
  PROVE  /\ ChatOf(i) \in Chats /\ i \in Backlog(ChatOf(i))
         /\ \A c \in Chats : i \in Backlog(c) => c = ChatOf(i)
  BY ChatFacts DEF IInv, Backlog, ChatOf

\* The holder of the lock is what the service may work on.
LEMMA HolderIsNext ==
  ASSUME IInv, OrderInv, NEW i \in DOMAIN tasks, PastLock(i) \/ HoldsLock(i)
  PROVE  Service!IsFirst(i, ChatOf(i))
<1>1. tasks[i].st # "done" /\ i \in Nat
  BY LenProperties DEF PastLock, HoldsLock, AtStep, IInv, TypeOK
<1>2. ChatOf(i) \in Chats /\ i \in Backlog(ChatOf(i))
  BY <1>1, BacklogFacts
<1>3. \A n \in Backlog(ChatOf(i)) : i <= n
  <2> SUFFICES ASSUME NEW n \in Backlog(ChatOf(i)) PROVE i <= n
    OBVIOUS
  <2>1. n \in DOMAIN tasks /\ tasks[n].st # "done" /\ ChatOf(n) = ChatOf(i) /\ n \in Nat
    BY LenProperties DEF Backlog, ChatOf, IInv, TypeOK
  <2>2. n # i => i < n
    BY <2>1, HolderIsFirst DEF OrderInv
  <2> QED
    BY <1>1, <2>1, <2>2
<1> QED
  BY <1>2, <1>3 DEF Service!IsFirst

\* A task that moves on changes nothing of the others.
LEMMA MoveMaps ==
  ASSUME IInv, NEW i \in DOMAIN tasks, NEW st \in Step, GoesTo(i, st)
  PROVE  /\ Len(tasks') = Len(tasks)
         /\ st # "done" /\ tasks[i].st # "done" => Backlogs' = Backlogs
         /\ st = "done" /\ tasks[i].st # "done" =>
              Backlogs' = [Backlogs EXCEPT ![ChatOf(i)] = @ \ {i}]
         /\ i \in 1..MaxMessages =>
              Working' = IF st \in PastSteps THEN Working \cup {i} ELSE Working \ {i}
<1>1. /\ tasks \in Seq(Task) /\ tasks' \in Seq(Task) /\ DOMAIN tasks' = DOMAIN tasks
      /\ tasks'[i].st = st /\ tasks'[i].chat = tasks[i].chat
      /\ \A j \in DOMAIN tasks : j # i => tasks'[j] = tasks[j]
  BY GoesToTypes DEF IInv, TypeOK, Task
<1>2. Len(tasks') = Len(tasks)
  BY <1>1, LenProperties
<1>3. ASSUME st # "done", tasks[i].st # "done" PROVE Backlogs' = Backlogs
  <2>1. ASSUME NEW c \in Chats PROVE Backlog(c)' = Backlog(c)
    BY <1>1, <1>3 DEF Backlog
  <2> QED
    BY <2>1 DEF Backlogs
<1>4. ASSUME st = "done", tasks[i].st # "done"
      PROVE  Backlogs' = [Backlogs EXCEPT ![ChatOf(i)] = @ \ {i}]
  <2>1. ASSUME NEW c \in Chats
        PROVE  Backlog(c)' = IF c = ChatOf(i) THEN Backlog(c) \ {i} ELSE Backlog(c)
    BY <1>1, <1>4 DEF Backlog, ChatOf
  <2> QED
    BY <2>1 DEF Backlogs
<1>5. ASSUME i \in 1..MaxMessages
      PROVE  Working' = IF st \in PastSteps THEN Working \cup {i} ELSE Working \ {i}
  <2>1. PastLock(i)' <=> st \in PastSteps
    BY <1>1 DEF PastLock, PastSteps, Step
  <2>2. \A j \in 1..MaxMessages : j # i => (PastLock(j)' <=> PastLock(j))
    BY <1>1 DEF PastLock
  <2> QED
    BY <1>5, <2>1, <2>2 DEF Working
<1> QED
  BY <1>2, <1>3, <1>4, <1>5

\* A step of a handler is the start of the work on a message, its end, or nothing.
LEMMA HandlerMaps ==
  ASSUME IInv, OrderInv, NEW i \in 1..MaxMessages, HandlerStep(i) \/ TurnStep(i)
  PROVE  [Service!Next]_(Service!svars)
<1> USE DEF PastSteps, Step
<1>1. CASE Begins(i)
  <2>1. i \in DOMAIN tasks /\ tasks[i].st = "created" /\ GoesTo(i, "locking")
    BY <1>1 DEF Begins, AtStep
  <2>2. i \notin Working
    BY <2>1 DEF Working, PastLock
  <2>3. Len(tasks') = Len(tasks) /\ Backlogs' = Backlogs /\ Working' = Working \ {i}
    BY <2>1, MoveMaps
  <2>4. Working' = Working
    BY <2>2, <2>3
  <2> QED
    BY <2>3, <2>4 DEF Service!svars, Backlogs, Working
<1>2. CASE Prompts(i) \/ StartsClient(i)
  <2>1. /\ i \in DOMAIN tasks /\ HoldsLock(i) /\ tasks[i].st = "locking"
        /\ GoesTo(i, "turn") \/ GoesTo(i, "spawning")
    BY <1>2 DEF Prompts, StartsClient, HoldsLock, AtStep
  <2>2. i \notin Working /\ Service!IsFirst(i, ChatOf(i))
    BY <2>1, HolderIsNext DEF Working, PastLock
  <2>3. Len(tasks') = Len(tasks) /\ Backlogs' = Backlogs /\ Working' = Working \cup {i}
    BY <2>1, MoveMaps
  <2>4. ChatOf(i) \in Chats /\ i \in Backlogs[ChatOf(i)]
    BY <2>1, BacklogFacts DEF Backlogs
  <2>5. Service!Work
    BY <2>2, <2>3, <2>4 DEF Service!Work, Backlogs, Working
  <2> QED
    BY <2>5 DEF Service!Next
<1>3. CASE ClientStarted(i) \/ StartFails(i) \/ TurnStep(i) \/ SendFails(i)
  <2>1. /\ i \in DOMAIN tasks /\ tasks[i].st \in {"spawning", "turn", "sending"}
        /\ \E st \in PastSteps : GoesTo(i, st)
    BY <1>3 DEF ClientStarted, StartFails, TurnStep, TurnReturns, TurnFails, SendFails, AtStep
  <2>2. i \in Working
    BY <2>1 DEF Working, PastLock
  <2> PICK st \in PastSteps : GoesTo(i, st)
    BY <2>1
  <2> st \in Step /\ st # "done" /\ tasks[i].st # "done"
    BY <2>1
  <2> HIDE DEF PastSteps, Step
  <2>3. /\ Len(tasks') = Len(tasks) /\ Backlogs' = Backlogs
        /\ Working' = Working \cup {i}
    BY <2>1, MoveMaps
  <2>4. Working' = Working
    BY <2>2, <2>3
  <2> QED
    BY <2>3, <2>4 DEF Service!svars, Backlogs, Working
<1>4. CASE Sends(i) \/ SendsError(i)
  <2>1. /\ i \in DOMAIN tasks /\ tasks[i].st \in {"sending", "sending_error"}
        /\ GoesTo(i, "done")
    BY <1>4 DEF Sends, SendsError, Releases, AtStep
  <2>2. i \in Working /\ Service!IsFirst(i, ChatOf(i))
    BY <2>1, HolderIsNext DEF Working, PastLock
  <2>3. /\ Len(tasks') = Len(tasks) /\ Working' = Working \ {i}
        /\ Backlogs' = [Backlogs EXCEPT ![ChatOf(i)] = @ \ {i}]
    BY <2>1, MoveMaps
  <2>4. ChatOf(i) \in Chats /\ i \in Backlogs[ChatOf(i)]
    BY <2>1, BacklogFacts DEF Backlogs
  <2>5. Service!Finish
    BY <2>2, <2>3, <2>4 DEF Service!Finish, Backlogs, Working
  <2> QED
    BY <2>5 DEF Service!Next
<1> QED
  BY <1>1, <1>2, <1>3, <1>4 DEF HandlerStep

\* A new task is a message the service accepts.
LEMMA DispatchMaps ==
  ASSUME IInv, NEW c \in Chats, Dispatches(c)
  PROVE  Service!Accept
<1>1. tasks \in Seq(Task) /\ [chat |-> c, st |-> "created"] \in Task
  BY DEF IInv, TypeOK, Task, Step
<1> DEFINE n == Len(tasks) + 1
<1>2. /\ DOMAIN tasks' = DOMAIN tasks \cup {n} /\ n \notin DOMAIN tasks
      /\ \A j \in DOMAIN tasks : tasks'[j] = tasks[j]
      /\ tasks'[n] = [chat |-> c, st |-> "created"]
      /\ Len(tasks') = n
  BY <1>1, AppendProperties, LenProperties DEF Dispatches
<1> HIDE DEF n
<1>3. ASSUME NEW d \in Chats
      PROVE  Backlog(d)' = IF d = c THEN Backlog(d) \cup {n} ELSE Backlog(d)
  BY <1>2 DEF Backlog
<1>4. Backlogs' = [Backlogs EXCEPT ![c] = @ \cup {n}]
  BY <1>3 DEF Backlogs
<1>5. Working' = Working
  BY <1>2 DEF Working, PastLock
<1>6. Len(tasks) < MaxMessages
  BY DEF Dispatches
<1> QED
  BY <1>2, <1>4, <1>5, <1>6 DEF n, Service!Accept, Backlogs, Working

\* An interrupted stop() gives up what is left.
LEMMA ImpatientMaps ==
  ASSUME IInv, Impatient
  PROVE  Service!GiveUp
<1>1. tasks \in Seq(Task)
  BY DEF IInv, TypeOK, Task
<1>2. tasks' = [j \in 1..Len(tasks) |-> [tasks[j] EXCEPT !.st = "done"]] /\ Len(tasks) \in Nat
  BY <1>1, LenProperties DEF Impatient
<1>3. Len(tasks') = Len(tasks)
  BY <1>2
<1>4. \A j \in DOMAIN tasks' : tasks'[j].st = "done"
  <2> SUFFICES ASSUME NEW j \in DOMAIN tasks' PROVE tasks'[j].st = "done"
    OBVIOUS
  <2>1. tasks[j] \in Task
    BY <1>1, <1>2, ElementOfSeq
  <2> QED
    BY <1>2, <2>1 DEF Task
<1>5. Backlogs' = [c \in Chats |-> {}]
  BY <1>4 DEF Backlogs, Backlog
<1>6. Working' = {}
  BY <1>4 DEF Working, PastLock
<1> QED
  BY <1>3, <1>5, <1>6 DEF Service!GiveUp, Backlogs, Working

\* Every step of the relay is a step of the service or none.
LEMMA StepMaps ==
  ASSUME IInv, OrderInv, [Next]_vars
  PROVE  [Service!Next]_(Service!svars)
<1>1. CASE \E c \in Chats : Dispatches(c)
  BY <1>1, DispatchMaps DEF Service!Next
<1>2. CASE \E i \in 1..MaxMessages : HandlerStep(i) \/ TurnStep(i)
  BY <1>2, HandlerMaps
<1>3. CASE Impatient
  BY <1>3, ImpatientMaps DEF Service!Next
<1>4. CASE RunEnds \/ StopStep \/ (ClientNext /\ UNCHANGED relayVars) \/ UNCHANGED vars
  <2>1. UNCHANGED tasks
    BY <1>4 DEF RunEnds, StopStep, Gathered, StopsOne, StopRaises, ClearsClients, ClosesSender,
       relayVars, vars
  <2> QED
    BY <2>1 DEF Service!svars, Backlog, PastLock
<1> QED
  BY <1>1, <1>2, <1>3, <1>4 DEF Next

\* Tasks, locks and the router give every chat its messages one at a time and in the
\* order they came in, as PerChatService has it: for any chats, any number of messages,
\* failing turns and sends, dying clients and an interrupted stop().
THEOREM RelayImplementsService == Spec => ImplementsPerChatService
<1>1. Init => Service!Init
  <2> SUFFICES ASSUME Init PROVE Service!Init
    OBVIOUS
  <2>1. tasks = <<>>
    BY DEF Init
  <2> QED
    BY <2>1 DEF Service!Init, Backlog, PastLock
<1>2. Init => OrderInv
  BY DEF Init, OrderInv, TaskOrder, QueueOrder, SentOrder, RepliesInOrder
<1>3. IInv /\ OrderInv /\ [Next]_vars => OrderInv' /\ [Service!Next]_(Service!svars)
  BY OrderStep, StepMaps
<1> QED
  BY <1>1, <1>2, <1>3, RelayInvariant, PTL DEF Spec, ImplementsPerChatService, Service!Spec

-----------------------------------------------------------------------------
(* Locks are passed on *)

\* A task in a queue that goes on stays unfinished; others do not change.
LEMMA MoveKeepsQueued ==
  ASSUME IInv, NoLockLeftBehind, NEW i \in DOMAIN tasks, NEW st \in Step \ {"created", "done"},
         GoesTo(i, st), UNCHANGED locks
  PROVE  NoLockLeftBehind'
<1>1. /\ DOMAIN tasks' = DOMAIN tasks
      /\ tasks'[i].st = st /\ tasks'[i].chat = tasks[i].chat
      /\ \A j \in DOMAIN tasks : j # i => tasks'[j] = tasks[j]
  BY GoesToTypes DEF IInv
<1> QED
  BY <1>1 DEF NoLockLeftBehind, ChatOf

\* A task that begins joins the queue of its own chat.
LEMMA JoinKeepsQueued ==
  ASSUME IInv, NoLockLeftBehind, NEW i \in 1..MaxMessages, Begins(i)
  PROVE  NoLockLeftBehind'
<1> DEFINE c == ChatOf(i)
<1>1. i \in DOMAIN tasks /\ tasks[i].st = "created" /\ GoesTo(i, "locking") /\ "locking" \in Step
  BY DEF Begins, AtStep, Step
<1>2. /\ DOMAIN tasks' = DOMAIN tasks /\ tasks'[i].st = "locking" /\ tasks'[i].chat = tasks[i].chat
      /\ \A j \in DOMAIN tasks : j # i => tasks'[j] = tasks[j]
  BY <1>1, GoesToTypes DEF IInv
<1>3. c \in Chats /\ locks[c] \in Seq(1..MaxMessages)
  BY <1>1, ChatFacts DEF IInv
<1>4. locks'[c] = Append(locks[c], i) /\ \A d \in Chats : d # c => locks'[d] = locks[d]
  BY <1>3 DEF Begins, IInv, TypeOK
<1>5. /\ DOMAIN locks'[c] = DOMAIN locks[c] \cup {Len(locks[c]) + 1}
      /\ \A k \in DOMAIN locks[c] : locks'[c][k] = locks[c][k]
      /\ locks'[c][Len(locks[c]) + 1] = i
  BY <1>3, <1>4, AppendProperties, LenProperties
<1>6. ASSUME NEW d \in Chats, NEW k \in DOMAIN locks'[d]
      PROVE  /\ locks'[d][k] \in DOMAIN tasks'
             /\ tasks'[locks'[d][k]].chat = d
             /\ tasks'[locks'[d][k]].st \notin {"created", "done"}
  <2>1. CASE d = c /\ k = Len(locks[c]) + 1
    BY <1>1, <1>2, <1>5, <2>1 DEF ChatOf
  <2>2. CASE k \in DOMAIN locks[d] /\ locks'[d][k] = locks[d][k]
    <3>1. /\ locks[d][k] \in DOMAIN tasks /\ tasks[locks[d][k]].chat = d
          /\ tasks[locks[d][k]].st \notin {"created", "done"}
      BY <2>2 DEF NoLockLeftBehind, ChatOf
    <3>2. locks[d][k] # i
      BY <1>1, <3>1
    <3> QED
      BY <1>2, <2>2, <3>1, <3>2
  <2> QED
    BY <1>4, <1>5, <1>6, <2>1, <2>2
<1> QED
  BY <1>6 DEF NoLockLeftBehind, ChatOf

\* The holder is in its queue once, so none that is left is done.
LEMMA LeaveKeepsQueued ==
  ASSUME IInv, OrderInv, NoLockLeftBehind, NEW i \in DOMAIN tasks, PastLock(i), Releases(i)
  PROVE  NoLockLeftBehind'
<1> DEFINE c == ChatOf(i)
<1>1. /\ DOMAIN tasks' = DOMAIN tasks
      /\ \A j \in DOMAIN tasks : j # i => tasks'[j] = tasks[j]
  BY GoesToTypes DEF IInv, Releases, Step
<1>2. /\ c \in Chats /\ locks[c] \in Seq(1..MaxMessages) /\ locks[c] # <<>>
      /\ Head(locks[c]) = i
  BY ChatFacts, HolderAtHead DEF IInv
<1>3. locks'[c] = Tail(locks[c]) /\ \A d \in Chats : d # c => locks'[d] = locks[d]
  BY <1>2 DEF Releases, IInv, TypeOK
<1>4. /\ DOMAIN locks[c] = 1..Len(locks[c]) /\ Len(locks[c]) \in Nat
      /\ DOMAIN locks'[c] = 1..(Len(locks[c]) - 1)
      /\ \A k \in DOMAIN locks'[c] : locks'[c][k] = locks[c][k + 1]
      /\ locks[c][1] = i
  BY <1>2, <1>3, HeadTailProperties, LenProperties
<1>5. ASSUME NEW d \in Chats, NEW k \in DOMAIN locks'[d]
      PROVE  \E l \in DOMAIN locks[d] : locks'[d][k] = locks[d][l] /\ locks[d][l] # i
  <2>1. CASE d = c
    <3>1. /\ k + 1 \in DOMAIN locks[c] /\ 1 \in DOMAIN locks[c] /\ 1 < k + 1
          /\ locks'[c][k] = locks[c][k + 1]
      BY <1>4, <1>5, <2>1
    <3>2. locks[c][1] < locks[c][k + 1]
      BY <1>2, <3>1 DEF OrderInv, QueueOrder
    <3>3. i \in Nat /\ locks[c][k + 1] \in Nat
      <4>1. tasks \in Seq(Task) /\ DOMAIN tasks = 1..Len(tasks) /\ Len(tasks) \in Nat
        BY LenProperties DEF IInv, TypeOK, Task
      <4>2. locks[c][k + 1] \in DOMAIN tasks
        BY <1>2, <3>1 DEF NoLockLeftBehind
      <4> QED
        BY <4>1, <4>2
    <3>4. locks[c][k + 1] # i
      BY <1>4, <3>2, <3>3
    <3> QED
      BY <2>1, <3>1, <3>4
  <2>2. CASE d # c
    <3>1. k \in DOMAIN locks[d] /\ locks'[d][k] = locks[d][k]
      BY <1>3, <1>5, <2>2
    <3>2. locks[d][k] # i
      BY <2>2, <3>1 DEF NoLockLeftBehind
    <3> QED
      BY <3>1, <3>2
  <2> QED
    BY <2>1, <2>2
<1>6. ASSUME NEW d \in Chats, NEW k \in DOMAIN locks'[d]
      PROVE  /\ locks'[d][k] \in DOMAIN tasks'
             /\ tasks'[locks'[d][k]].chat = d
             /\ tasks'[locks'[d][k]].st \notin {"created", "done"}
  <2>1. PICK l \in DOMAIN locks[d] : locks'[d][k] = locks[d][l] /\ locks[d][l] # i
    BY <1>5, <1>6
  <2> QED
    BY <1>1, <2>1 DEF NoLockLeftBehind, ChatOf
<1> QED
  BY <1>6 DEF NoLockLeftBehind, ChatOf

\* Every step passes the locks on.
LEMMA QueuedStep ==
  ASSUME IInv, OrderInv, NoLockLeftBehind, [Next]_vars
  PROVE  NoLockLeftBehind'
<1>1. CASE \E c \in Chats : Dispatches(c)
  <2>1. PICK c \in Chats : Dispatches(c)
    BY <1>1
  <2>2. tasks \in Seq(Task) /\ [chat |-> c, st |-> "created"] \in Task
    BY DEF IInv, TypeOK, Task, Step
  <2>3. UNCHANGED locks /\ \A j \in DOMAIN tasks : j \in DOMAIN tasks' /\ tasks'[j] = tasks[j]
    BY <2>1, <2>2, AppendProperties, LenProperties DEF Dispatches
  <2> QED
    BY <2>3 DEF NoLockLeftBehind, ChatOf
<1>2. ASSUME NEW i \in 1..MaxMessages, HandlerStep(i) \/ TurnStep(i) PROVE NoLockLeftBehind'
  <2>1. CASE Begins(i)
    BY <2>1, JoinKeepsQueued
  <2>2. CASE Sends(i) \/ SendsError(i)
    <3>1. i \in DOMAIN tasks /\ PastLock(i) /\ Releases(i)
      BY <2>2 DEF Sends, SendsError, AtStep, PastLock
    <3> QED
      BY <3>1, LeaveKeepsQueued
  <2>3. CASE Prompts(i) \/ StartsClient(i) \/ ClientStarted(i) \/ StartFails(i) \/ TurnStep(i)
               \/ SendFails(i)
    <3>1. i \in DOMAIN tasks /\ UNCHANGED locks
      BY <2>3 DEF Prompts, StartsClient, ClientStarted, StartFails, TurnStep, TurnReturns, TurnFails,
         SendFails, HoldsLock, AtStep
    <3>2. \E st \in Step \ {"created", "done"} : GoesTo(i, st)
      BY <2>3 DEF Prompts, StartsClient, ClientStarted, StartFails, TurnStep, TurnReturns, TurnFails,
         SendFails, Step
    <3> QED
      BY <3>1, <3>2, MoveKeepsQueued
  <2> QED
    BY <1>2, <2>1, <2>2, <2>3 DEF HandlerStep
<1>3. CASE Impatient
  BY <1>3 DEF Impatient, NoLockLeftBehind
<1>4. CASE RunEnds \/ StopStep \/ (ClientNext /\ UNCHANGED relayVars) \/ UNCHANGED vars
  BY <1>4 DEF RunEnds, StopStep, Gathered, StopsOne, StopRaises, ClearsClients, ClosesSender,
     relayVars, vars, NoLockLeftBehind, ChatOf
<1> QED
  BY <1>1, <1>2, <1>3, <1>4 DEF Next

\* Whoever is at a lock is an unfinished task of that chat: however a task ends, by a
\* reply, a failing turn, a failing send or an interrupted stop(), it leaves no lock behind.
THEOREM LocksArePassedOn == Spec => []NoLockLeftBehind
<1>1. Init => OrderInv /\ NoLockLeftBehind
  BY DEF Init, OrderInv, TaskOrder, QueueOrder, SentOrder, RepliesInOrder, NoLockLeftBehind
<1>2. IInv /\ OrderInv /\ NoLockLeftBehind /\ [Next]_vars => OrderInv' /\ NoLockLeftBehind'
  BY OrderStep, QueuedStep
<1> QED
  BY <1>1, <1>2, RelayInvariant, PTL DEF Spec
=============================================================================
