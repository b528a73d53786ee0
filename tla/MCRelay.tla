------------------------------- MODULE MCRelay -------------------------------
(* Instances of Relay for TLC. *)
EXTENDS Relay, TLC

\* Chats are only compared with each other, so they can be exchanged.
ChatSymmetry == Permutations(Chats)
=============================================================================
