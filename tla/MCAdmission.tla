----------------------------- MODULE MCAdmission -----------------------------
(* Instances of Admission for TLC. *)
EXTENDS Admission

\* One group as Telegram numbers them, and one entry by mistake for a user's chat.
MCGroups == {-1, 2}
=============================================================================
