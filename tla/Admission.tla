------------------------------ MODULE Admission ------------------------------
(***************************************************************************)
(* What the relay lets in: parse_inbound()                                 *)
(* (relaypi/core/application/parse.py) and ConfigAllowlist with its loader *)
(* (relaypi/infrastructure/allowlist_config.py).                           *)
(*                                                                         *)
(* The relay loads the allowlist once, entry by entry, then judges one     *)
(* event after the other: it is dropped, it becomes a task, or the code    *)
(* raises and run() ends.  Ids are integers, those of groups are negative  *)
(* as in Telegram; NoNumber stands for a chat_id whose text is not a       *)
(* number, the missing one that becomes "" included.                       *)
(***************************************************************************)
EXTENDS Integers, Sequences

CONSTANTS
    Users,      \* user ids
    Groups,     \* ids the configuration may name
    MaxEntries  \* bound: entries under "groups"

NoNumber == 0
Nobody == 0  \* a sender id that is missing or no number

ASSUME AdmissionAssumption ==
    /\ Users \subseteq Nat \ {0}
    /\ Groups \subseteq Int \ {0}
    /\ MaxEntries \in Nat

VARIABLES
    dmUsers,    \* the configured dm_users
    entries,    \* the configured groups, in the order of the file
    loaded,     \* how many of the entries the loader has read
    allowlist,  \* the groups loaded so far: a function from group ids to entries
    phase,      \* "boot", "serving", or "refused": the configuration is invalid
    event,      \* the event that was judged last
    verdict     \* "none", "drop", "task" or "raise"

vars == <<dmUsers, entries, loaded, allowlist, phase, event, verdict>>

\* The mode of an entry; "malformed" stands for all else the loader raises on: no id
\* or mode, an id or members that are not numbers, a file that is broken around it.
Mode == {"open", "restricted", "typo", "malformed"}
Entry == [id : Groups, mode : Mode, members : SUBSET Users]

\* The shapes of a decoded WebSocket frame that parse_inbound tells apart; a bad body
\* is an event that is no object or a text that is no string, a bad sender a
\* from_user that is no object.
Form == {"message", "other_type", "no_body", "bad_body", "bad_sender", "not_object"}
Event == [form : Form, hasText : BOOLEAN, sender : Users \cup {Nobody},
          chat : Users \cup Groups \cup {NoNumber}]

NoEvent == [form |-> "other_type", hasText |-> FALSE, sender |-> Nobody, chat |-> NoNumber]

\* Every variable holds a value of the kind the code keeps in it.
TypeOK ==
    /\ dmUsers \subseteq Users
    /\ entries \in Seq(Entry)
    /\ loaded \in 0..Len(entries)
    /\ DOMAIN allowlist \subseteq Groups
    /\ \A g \in DOMAIN allowlist : allowlist[g] \in Entry /\ allowlist[g].mode \in {"open", "restricted"}
    /\ phase \in {"boot", "serving", "refused"}
    /\ event \in Event
    /\ verdict \in {"none", "drop", "task", "raise"}

Init ==
    /\ dmUsers \in SUBSET Users
    /\ entries \in UNION {[1..n -> Entry] : n \in 0..MaxEntries}
    /\ loaded = 0
    /\ allowlist = <<>>
    /\ phase = "boot"
    /\ event = NoEvent
    /\ verdict = "none"

-----------------------------------------------------------------------------
(* load_allowlist() *)

\* Mutant: an entry for a group that has one already is ignored.
KeepsFirst(groups, e) ==
    [g \in DOMAIN groups \cup {e.id} |-> IF g \in DOMAIN groups THEN groups[g] ELSE e]

\* groups[gid] = GroupConfig(...): a later entry replaces an earlier one.
AddEntry(groups, e) ==
    [g \in DOMAIN groups \cup {e.id} |-> IF g = e.id THEN e ELSE groups[g]]

\* Mutant: a mode that is not known is taken for a restricted one.
AcceptsAnyMode(e) == TRUE

KnownMode(e) == e.mode \in {"open", "restricted"}

\* One round of the loader's loop.
LoadsEntry ==
    /\ phase = "boot"
    /\ loaded < Len(entries)
    /\ KnownMode(entries[loaded + 1])
    /\ allowlist' = AddEntry(allowlist, entries[loaded + 1])
    /\ loaded' = loaded + 1
    /\ UNCHANGED <<dmUsers, entries, phase, event, verdict>>

\* The first mode that is not known raises ValueError, and a malformed entry raises
\* too: the relay does not start.
RefusesEntry ==
    /\ phase = "boot"
    /\ loaded < Len(entries)
    /\ ~KnownMode(entries[loaded + 1])
    /\ phase' = "refused"
    /\ UNCHANGED <<dmUsers, entries, loaded, allowlist, event, verdict>>

\* The loop has ended: the relay serves with what it loaded.
Serves ==
    /\ phase = "boot"
    /\ loaded = Len(entries)
    /\ phase' = "serving"
    /\ UNCHANGED <<dmUsers, entries, loaded, allowlist, event, verdict>>

-----------------------------------------------------------------------------
(* parse_inbound() *)

\* get() raises on what is not an object, strip() on a text that is no string; the
\* sender is looked at only when there is text.
ParseRaises(e) == e.form \in {"not_object", "bad_body"} \/ (e.form = "bad_sender" /\ e.hasText)

ParsesToNone(e) == e.form # "message" \/ ~e.hasText \/ e.sender = Nobody

\* A DM has the id of its sender; "group" and "unknown" are judged alike.
IsPrivate(e) == e.chat = e.sender

(* ConfigAllowlist.allows() *)

\* Mutant: a group that is not configured falls back to the DM users.
GroupElseDm(e) ==
    IF e.chat \notin DOMAIN allowlist THEN e.sender \in dmUsers
    ELSE allowlist[e.chat].mode = "open" \/ e.sender \in allowlist[e.chat].members

\* An unconfigured group is not allowed, an open one is, a restricted one is for
\* its members.
GroupAllows(e) ==
    /\ e.chat \in DOMAIN allowlist
    /\ allowlist[e.chat].mode = "open" \/ e.sender \in allowlist[e.chat].members

\* int(msg.chat_id) raises when the text is no number.
AllowsRaises(e) == ~IsPrivate(e) /\ e.chat = NoNumber

Allows(e) == IF IsPrivate(e) THEN e.sender \in dmUsers ELSE GroupAllows(e)

\* One round of the loop in Relay.run().
Judge(e) ==
    IF ParseRaises(e) THEN "raise"
    ELSE IF ParsesToNone(e) THEN "drop"
    ELSE IF AllowsRaises(e) THEN "raise"
    ELSE IF Allows(e) THEN "task" ELSE "drop"

Judges ==
    /\ phase = "serving"
    /\ \E e \in Event : event' = e /\ verdict' = Judge(e)
    /\ UNCHANGED <<dmUsers, entries, loaded, allowlist, phase>>

Next == LoadsEntry \/ RefusesEntry \/ Serves \/ Judges

Spec == Init /\ [][Next]_vars

-----------------------------------------------------------------------------
(* Properties *)

\* The last entry of the file for group g, if it has one.
EntryOf(g, e) ==
    \E i \in DOMAIN entries :
        /\ entries[i] = e /\ e.id = g
        /\ \A j \in DOMAIN entries : entries[j].id = g => j <= i

\* The gate rules of docs/configuration.md, stated on the file itself: a DM of a
\* configured user, any member of an open group, a listed one of a restricted.
Trusted(e) ==
    /\ e.form = "message" /\ e.hasText /\ e.sender # Nobody
    /\ \/ IsPrivate(e) /\ e.sender \in dmUsers
       \/ /\ ~IsPrivate(e)
          /\ \E entry \in Entry : /\ EntryOf(e.chat, entry)
                                  /\ entry.mode = "open" \/ e.sender \in entry.members

\* An event becomes a task exactly when the gate rules trust it, whatever
\* entries the file repeats and in whatever order.
TaskIffTrusted == verdict # "none" => (verdict = "task" <=> Trusted(event))

\* The relay serves only if every entry of the file is one it understands, with a mode
\* it knows: a typo stops it at the start and never opens or closes a group silently.
TypoNeverServes ==
    phase = "serving" => \A i \in DOMAIN entries : entries[i].mode \in {"open", "restricted"}

\* Anything the rules do not trust is dropped.  The code does not do this for a
\* chat_id that is no number and for a frame, body or sender that is no object: it
\* raises.
DropsTheRest == verdict # "raise"
=============================================================================
