--------------------------- MODULE PerChatService ---------------------------
(***************************************************************************)
(* What the relay promises its users: the messages of one chat are handled *)
(* one at a time and in the order they came in, whatever happens to them.  *)
(*                                                                         *)
(* This is the concurrency model the header of                             *)
(* relaypi/core/application/relay.py states, without tasks and locks: each *)
(* chat has a backlog, and only its oldest message can be worked on and    *)
(* leave it.                                                               *)
(***************************************************************************)
EXTENDS Integers

CONSTANTS Chats, MaxMessages

VARIABLES
    accepted,  \* messages accepted so far; the i-th one is message i
    backlog,   \* for each chat, its messages that are not finished
    working    \* the messages that are being worked on

svars == <<accepted, backlog, working>>

Init ==
    /\ accepted = 0
    /\ backlog = [c \in Chats |-> {}]
    /\ working = {}

\* Message m is the oldest one of chat c that is not finished.
IsFirst(m, c) == m \in backlog[c] /\ \A n \in backlog[c] : m <= n

Accept ==
    /\ accepted < MaxMessages
    /\ accepted' = accepted + 1
    /\ \E c \in Chats : backlog' = [backlog EXCEPT ![c] = @ \cup {accepted + 1}]
    /\ UNCHANGED working

Work ==
    /\ \E c \in Chats : \E m \in backlog[c] :
         /\ IsFirst(m, c)
         /\ m \notin working
         /\ working' = working \cup {m}
    /\ UNCHANGED <<accepted, backlog>>

Finish ==
    /\ \E c \in Chats : \E m \in backlog[c] :
         /\ IsFirst(m, c)
         /\ m \in working
         /\ working' = working \ {m}
         /\ backlog' = [backlog EXCEPT ![c] = @ \ {m}]
    /\ UNCHANGED accepted

\* The relay is interrupted while it shuts down: what is left is given up.
GiveUp ==
    /\ backlog' = [c \in Chats |-> {}]
    /\ working' = {}
    /\ UNCHANGED accepted

Next == Accept \/ Work \/ Finish \/ GiveUp

Spec == Init /\ [][Next]_svars
=============================================================================
