--------------------------- MODULE WebSocketSource ---------------------------
(***************************************************************************)
(* WebSocketMessageSource                                                  *)
(* (relaypi/infrastructure/adapters/websocket_message_source.py) and the   *)
(* telegramy server at the other end of its connection, which is not in    *)
(* the repository.  events() connects, subscribes and yields the decoded   *)
(* frames; it does not reconnect.                                          *)
(*                                                                         *)
(* A frame is abstracted to what becomes of it: a message the allowlist    *)
(* file trusts, any other event, JSON on which the admission raises (see   *)
(* Admission), or no JSON at all.                                          *)
(***************************************************************************)
EXTENDS Integers, Sequences

CONSTANT MaxWire  \* bound: frames on their way at one time

ASSUME SourceAssumption == MaxWire \in Nat \ {0}

VARIABLES
    telegramy,  \* "up" or "down"
    conn,       \* "none", "open" (not subscribed yet) or "subscribed"
    peer,       \* what telegramy or the network did to it: "open", "closed", "broken"
    wire        \* frames sent and not read yet

sourceVars == <<telegramy, conn, peer, wire>>

Frame == {"trusted", "other", "raising", "non_json"}

SourceTypeOK ==
    /\ telegramy \in {"up", "down"}
    /\ conn \in {"none", "open", "subscribed"}
    /\ peer \in {"open", "closed", "broken"}
    /\ wire \in Seq(Frame) /\ Len(wire) <= MaxWire

SourceInit ==
    /\ telegramy \in {"up", "down"}
    /\ conn = "none"
    /\ peer = "open"
    /\ wire = <<>>

-----------------------------------------------------------------------------
(* telegramy and the network *)

\* telegramy sends its subscriber an event.
Publishes ==
    /\ conn = "subscribed" /\ peer = "open" /\ Len(wire) < MaxWire
    /\ \E f \in Frame : wire' = Append(wire, f)
    /\ UNCHANGED <<telegramy, conn, peer>>

\* telegramy closes the connection in good order, as a server that shuts down does.
Closes ==
    /\ conn # "none" /\ peer = "open"
    /\ peer' = "closed"
    /\ telegramy' \in {telegramy, "down"}
    /\ UNCHANGED <<conn, wire>>

\* The connection breaks, and what is on its way may be lost with it.
Breaks ==
    /\ conn # "none" /\ peer = "open"
    /\ peer' = "broken"
    /\ \E n \in 0..Len(wire) : wire' = SubSeq(wire, 1, n)
    /\ telegramy' \in {telegramy, "down"}
    /\ UNCHANGED conn

GoesDown == conn = "none" /\ telegramy' = "down" /\ UNCHANGED <<conn, peer, wire>>
ComesUp == telegramy' = "up" /\ UNCHANGED <<conn, peer, wire>>

-----------------------------------------------------------------------------
(* events() *)

\* websockets.connect() succeeds ...
Connects ==
    /\ conn = "none" /\ telegramy = "up"
    /\ conn' = "open"
    /\ UNCHANGED <<telegramy, peer, wire>>

\* ... or raises an OSError or an InvalidHandshake.
ConnectFails == conn = "none" /\ telegramy = "down"

\* The subscription is sent.  A connection that has gone may take it still ...
Subscribes ==
    /\ conn = "open"
    /\ conn' = "subscribed"
    /\ UNCHANGED <<telegramy, peer, wire>>

\* ... or send() raises ConnectionClosed.
SubscribeFails == conn = "open" /\ peer # "open"

\* The next frame; one that is no JSON is dropped here.
Takes(f) ==
    /\ conn = "subscribed" /\ wire # <<>> /\ Head(wire) = f
    /\ wire' = Tail(wire)
    /\ UNCHANGED <<telegramy, conn, peer>>

\* The iteration ends after a clean close and raises ConnectionClosedError after a
\* break, each when the frames that have arrived are read.
Exhausted(how) == conn = "subscribed" /\ peer = how /\ wire = <<>>

\* aclose() of the generator leaves the connection.
Leaves ==
    /\ conn' = "none"
    /\ peer' = "open"
    /\ wire' = <<>>
    /\ UNCHANGED telegramy
=============================================================================
