------------------------ MODULE PerChatSessionRouter ------------------------
(***************************************************************************)
(* PerChatSessionRouter (relaypi/infrastructure/session_router_impl.py)    *)
(* and the client factory of relaypi/startup/factory.py: one PI process    *)
(* per chat, restarted on the same session path when its client is dead.   *)
(*                                                                         *)
(* A client is abstracted to what the router and the shutdown see of it:   *)
(* is_alive() and whether its process runs.  The two differ: the flag goes *)
(* down when the reader of the client ends, some time after the exit of    *)
(* the process, or, when the reader ends for a reason of its own, without  *)
(* one (PiRpcProtocol models how): that leaves an orphan, a process that   *)
(* runs with nobody reading it.  The session path is a function of the     *)
(* chat (path_for), so a chat stands for its path.                         *)
(***************************************************************************)
EXTENDS Integers, Sequences, FiniteSets

CONSTANTS
    Chats,      \* chat ids
    MaxOrphans  \* bound: processes that run without their reader at a time

ASSUME RouterAssumption == MaxOrphans \in Nat

VARIABLES
    clients,  \* _clients: the client of each chat, 0 for none
    spawned   \* every client the factory has created, in order

routerVars == <<clients, spawned>>

Client == [chat : Chats, alive : BOOLEAN, running : BOOLEAN]

RouterTypeOK ==
    /\ spawned \in Seq(Client)
    /\ clients \in [Chats -> 0..Len(spawned)]

RouterInit ==
    /\ clients = [c \in Chats |-> 0]
    /\ spawned = <<>>

\* Mutant: the table is never looked at, every message starts a client.
FindsNone(c) == FALSE

\* get_or_create() finds a client it can hand out.
HasLive(c) == clients[c] # 0 /\ spawned[clients[c]].alive

\* Mutant: the client is registered before the factory has made it.
RegistersTooEarly(c) ==
    /\ clients' = [clients EXCEPT ![c] = Len(spawned) + 1]
    /\ UNCHANGED spawned

\* The factory has spawned the process and started the reader; the new client
\* takes the place of the old one, which is not stopped.
Registers(c) ==
    /\ spawned' = Append(spawned, [chat |-> c, alive |-> TRUE, running |-> TRUE])
    /\ clients' = [clients EXCEPT ![c] = Len(spawned) + 1]

-----------------------------------------------------------------------------
(* What happens to a client by itself *)

ProcessExits(k) ==
    /\ spawned[k].running
    /\ spawned' = [spawned EXCEPT ![k].running = FALSE]
    /\ UNCHANGED clients

\* The reader gets the end of file.
ReaderSeesExit(k) ==
    /\ spawned[k].alive /\ ~spawned[k].running
    /\ spawned' = [spawned EXCEPT ![k].alive = FALSE]
    /\ UNCHANGED clients

\* Processes that run although their reader has ended.
Orphans == {k \in DOMAIN spawned : spawned[k].running /\ ~spawned[k].alive}

\* The reader ends on a line it cannot handle or on a full queue.
ReaderCrashes(k) ==
    /\ Cardinality(Orphans) < MaxOrphans
    /\ spawned[k].alive /\ spawned[k].running
    /\ spawned' = [spawned EXCEPT ![k].alive = FALSE]
    /\ UNCHANGED clients

ClientNext == \E k \in DOMAIN spawned : ProcessExits(k) \/ ReaderSeesExit(k) \/ ReaderCrashes(k)

-----------------------------------------------------------------------------
(* stop_all() *)

\* client.stop() of the client of c; it returns when the process is gone.
StopsClient(c) ==
    /\ clients[c] # 0
    /\ spawned' = [spawned EXCEPT ![clients[c]] = [chat |-> c, alive |-> FALSE, running |-> FALSE]]

\* Mutant: a client that is not alive is taken for stopped.
StopsLiveOnly == {c \in Chats : clients[c] # 0 /\ spawned[clients[c]].alive}

\* The chats whose client has not been stopped yet.
ToStop == {c \in Chats : clients[c] # 0
                           /\ (spawned[clients[c]].alive \/ spawned[clients[c]].running)}

\* A client that is alive is the one the table holds for its chat, so the next
\* message finds it and stop_all() stops it; whether readers crash or not.
LiveIsReachable == \A k \in DOMAIN spawned : spawned[k].alive => clients[spawned[k].chat] = k

\* At most one live process owns a session file.
OneOwnerPerSession ==
    \A j, k \in DOMAIN spawned :
        spawned[j].running /\ spawned[k].running /\ spawned[j].chat = spawned[k].chat => j = k

\* The client of j has been replaced by a later one of its chat.
Replaced(j) == \E k \in DOMAIN spawned : j < k /\ spawned[j].chat = spawned[k].chat

\* The only second owner a session file can have is an orphan: a process that runs
\* on after its client was replaced has lost its reader (get_or_create).
OnlyOrphansShare ==
    \A j \in DOMAIN spawned : Replaced(j) /\ spawned[j].running => ~spawned[j].alive
=============================================================================
