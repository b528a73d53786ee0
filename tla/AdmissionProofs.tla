--------------------------- MODULE AdmissionProofs ---------------------------
(***************************************************************************)
(* Proofs about Admission: whatever groups the file lists, how often and   *)
(* in whatever order, the loader's dictionary holds the last entry of each *)
(* group among those it has read, so the gate judges by the file.          *)
(***************************************************************************)
EXTENDS Admission, SequenceTheorems, TLAPS

(* Types *)

\* The entry the loader reads next is an entry.
LEMMA NextEntry ==
  ASSUME TypeOK, loaded < Len(entries)
  PROVE  /\ entries[loaded + 1] \in Entry
         /\ loaded + 1 \in 0..Len(entries)
<1>1. entries \in Seq(Entry) /\ loaded \in Nat /\ Len(entries) \in Nat
  BY LenProperties DEF TypeOK
<1>2. loaded + 1 \in 1..Len(entries)
  BY <1>1
<1> QED
  BY <1>1, <1>2, ElementOfSeq

\* Every step keeps the types.
LEMMA TypeStep ==
  ASSUME TypeOK, [Next]_vars
  PROVE  TypeOK'
<1>1. CASE LoadsEntry
  <2> DEFINE e == entries[loaded + 1]
  <2>1. e \in Entry /\ loaded + 1 \in 0..Len(entries) /\ e.mode \in {"open", "restricted"}
    BY <1>1, NextEntry DEF LoadsEntry, KnownMode
  <2>2. DOMAIN allowlist' = DOMAIN allowlist \cup {e.id}
    BY <1>1 DEF LoadsEntry, AddEntry
  <2>3. \A g \in DOMAIN allowlist' : allowlist'[g] = e \/ (g \in DOMAIN allowlist /\ allowlist'[g] = allowlist[g])
    BY <1>1 DEF LoadsEntry, AddEntry
  <2>4. e.id \in Groups
    BY <2>1 DEF Entry
  <2> HIDE DEF e
  <2>5. /\ DOMAIN allowlist' \subseteq Groups
        /\ \A g \in DOMAIN allowlist' : allowlist'[g] \in Entry /\ allowlist'[g].mode \in {"open", "restricted"}
    BY <2>1, <2>2, <2>3, <2>4 DEF TypeOK
  <2> QED
    BY <1>1, <2>1, <2>5 DEF LoadsEntry, TypeOK
<1>2. CASE RefusesEntry \/ Serves
  BY <1>2 DEF RefusesEntry, Serves, TypeOK
<1>3. CASE Judges
  BY <1>3 DEF Judges, Judge, TypeOK
<1>4. CASE UNCHANGED vars
  BY <1>4 DEF vars, TypeOK
<1> QED
  BY <1>1, <1>2, <1>3, <1>4 DEF Next

\* The configuration is a sequence of entries and the loader is at its start.
LEMMA InitTypes == Init => TypeOK
<1> SUFFICES ASSUME Init PROVE TypeOK
  OBVIOUS
<1>1. PICK n \in 0..MaxEntries : entries \in [1..n -> Entry]
  BY DEF Init
<1>2. n \in Nat
  BY AdmissionAssumption
<1>3. entries \in Seq(Entry)
  BY <1>1, <1>2
<1>4. loaded \in 0..Len(entries)
  BY <1>3, LenProperties DEF Init
<1>5. NoEvent \in Event
  BY DEF NoEvent, Event, Form
<1> QED
  BY <1>3, <1>4, <1>5 DEF Init, TypeOK

\* Every variable keeps the type the code gives it, whatever the configuration.
THEOREM AdmissionTypeCorrect == Spec => []TypeOK
<1>1. TypeOK /\ [Next]_vars => TypeOK'
  BY TypeStep
<1> QED
  BY <1>1, InitTypes, PTL DEF Spec

-----------------------------------------------------------------------------
(* What the loader has read *)

\* Entry i is the last one for its group among the first n.
LastAmong(i, n) ==
    /\ i \in 1..n
    /\ \A j \in 1..n : entries[j].id = entries[i].id => j <= i

\* The dictionary has the groups of the entries read so far, each with its last
\* entry among them; every mode read was known, and the relay serves only when
\* all have been read.
LoadInv ==
    /\ \A i \in 1..loaded : entries[i].id \in DOMAIN allowlist
    /\ \A g \in DOMAIN allowlist :
         \E i \in 1..loaded : /\ LastAmong(i, loaded)
                              /\ entries[i].id = g
                              /\ allowlist[g] = entries[i]
    /\ \A i \in 1..loaded : KnownMode(entries[i])
    /\ phase = "serving" => loaded = Len(entries)

\* The verdict is about the event as the file judges it, and only a relay that
\* serves has given one.
VerdictInv ==
    /\ verdict # "none" => phase = "serving"
    /\ TaskIffTrusted

IInv == TypeOK /\ LoadInv /\ VerdictInv

\* One more entry: it replaces the one its group had.
LEMMA LoadsNext ==
  ASSUME TypeOK, LoadInv, LoadsEntry
  PROVE  LoadInv'
<1> DEFINE e == entries[loaded + 1]
<1> DEFINE n == loaded + 1
<1>1. loaded \in Nat /\ n \in Nat /\ Len(entries) \in Nat /\ e.id = entries[n].id
  BY LenProperties DEF TypeOK
<1>2. /\ DOMAIN allowlist' = DOMAIN allowlist \cup {e.id}
      /\ allowlist'[e.id] = e
      /\ \A g \in DOMAIN allowlist : g # e.id => allowlist'[g] = allowlist[g]
  BY DEF LoadsEntry, AddEntry
<1>3. loaded' = n /\ entries' = entries /\ phase' # "serving" /\ KnownMode(e)
  BY DEF LoadsEntry
<1>4. 1..n = 1..loaded \cup {n}
  BY <1>1
<1>5. \A i \in 1..n : entries[i].id \in DOMAIN allowlist' /\ KnownMode(entries[i])
  BY <1>2, <1>3, <1>4 DEF LoadInv
<1>6. ASSUME NEW g \in DOMAIN allowlist'
      PROVE  \E i \in 1..n : /\ \A j \in 1..n : entries[j].id = entries[i].id => j <= i
                             /\ entries[i].id = g
                             /\ allowlist'[g] = entries[i]
  <2>1. CASE g = e.id
    <3>1. \A j \in 1..n : j <= n
      BY <1>1
    <3> QED
      BY <1>2, <1>4, <2>1, <3>1
  <2>2. CASE g # e.id
    <3>1. g \in DOMAIN allowlist /\ allowlist'[g] = allowlist[g]
      BY <1>2, <1>6, <2>2
    <3>2. PICK i \in 1..loaded : LastAmong(i, loaded) /\ entries[i].id = g /\ allowlist[g] = entries[i]
      BY <3>1 DEF LoadInv
    <3>3. \A j \in 1..n : entries[j].id = entries[i].id => j <= i
      BY <1>4, <2>2, <3>2 DEF LastAmong
    <3> QED
      BY <1>4, <3>1, <3>2, <3>3
  <2> QED
    BY <2>1, <2>2
<1> HIDE DEF e, n
<1> QED
  BY <1>3, <1>5, <1>6 DEF LoadInv, LastAmong, KnownMode

\* Once the file is read, the dictionary has the last entry of every group it names.
LEMMA DictionaryIsFile ==
  ASSUME TypeOK, LoadInv, phase = "serving"
  PROVE  /\ \A g \in DOMAIN allowlist : EntryOf(g, allowlist[g])
         /\ \A g, f : EntryOf(g, f) => g \in DOMAIN allowlist /\ allowlist[g] = f
<1>1. DOMAIN entries = 1..loaded /\ entries \in Seq(Entry) /\ loaded \in Nat
  BY LenProperties DEF TypeOK, LoadInv
<1>2. ASSUME NEW g \in DOMAIN allowlist PROVE EntryOf(g, allowlist[g])
  BY <1>1 DEF LoadInv, LastAmong, EntryOf
<1>3. ASSUME NEW g, NEW f, EntryOf(g, f)
      PROVE  g \in DOMAIN allowlist /\ allowlist[g] = f
  <2>1. PICK i \in 1..loaded : /\ entries[i] = f /\ f.id = g
                               /\ \A j \in 1..loaded : entries[j].id = g => j <= i
    BY <1>1, <1>3 DEF EntryOf
  <2>2. g \in DOMAIN allowlist
    BY <2>1 DEF LoadInv
  <2>3. PICK k \in 1..loaded : LastAmong(k, loaded) /\ entries[k].id = g /\ allowlist[g] = entries[k]
    BY <2>2 DEF LoadInv
  <2>4. k <= i /\ i <= k
    BY <2>1, <2>3 DEF LastAmong
  <2>5. k = i
    BY <1>1, <2>1, <2>3, <2>4
  <2> QED
    BY <2>1, <2>2, <2>3, <2>5
<1> QED
  BY <1>2, <1>3

\* The gate on the dictionary lets a group's member in exactly when the file does.
LEMMA GateIsFile ==
  ASSUME TypeOK, LoadInv, phase = "serving", NEW ev \in Event
  PROVE  GroupAllows(ev) <=>
           \E entry \in Entry : /\ EntryOf(ev.chat, entry)
                                /\ entry.mode = "open" \/ ev.sender \in entry.members
<1>1. ASSUME GroupAllows(ev)
      PROVE  \E entry \in Entry : /\ EntryOf(ev.chat, entry)
                                  /\ entry.mode = "open" \/ ev.sender \in entry.members
  <2>1. EntryOf(ev.chat, allowlist[ev.chat]) /\ allowlist[ev.chat] \in Entry
    BY <1>1, DictionaryIsFile DEF GroupAllows, TypeOK
  <2> QED
    BY <1>1, <2>1 DEF GroupAllows
<1>2. ASSUME NEW entry \in Entry, EntryOf(ev.chat, entry),
             entry.mode = "open" \/ ev.sender \in entry.members
      PROVE  GroupAllows(ev)
  BY <1>2, DictionaryIsFile DEF GroupAllows
<1> QED
  BY <1>1, <1>2

\* What is judged becomes a task exactly when it is trusted.
LEMMA JudgesByFile ==
  ASSUME TypeOK, LoadInv, phase = "serving", NEW ev \in Event
  PROVE  /\ Judge(ev) # "none"
         /\ Judge(ev) = "task" <=> Trusted(ev)
<1>1. \A f : ~EntryOf(NoNumber, f)
  <2> SUFFICES ASSUME NEW f, EntryOf(NoNumber, f) PROVE FALSE
    OBVIOUS
  <2>1. NoNumber \in Groups
    BY DictionaryIsFile DEF TypeOK
  <2> QED
    BY <2>1, AdmissionAssumption DEF NoNumber
<1>2. AllowsRaises(ev) => ~Trusted(ev)
  BY <1>1 DEF AllowsRaises, Trusted
<1>3. ~IsPrivate(ev) => (Allows(ev) <=> \E entry \in Entry :
          EntryOf(ev.chat, entry) /\ (entry.mode = "open" \/ ev.sender \in entry.members))
  BY GateIsFile DEF Allows
<1>4. ParseRaises(ev) \/ ParsesToNone(ev) => ~Trusted(ev)
  BY DEF ParseRaises, ParsesToNone, Trusted
<1>5. ~ParsesToNone(ev) => (Allows(ev) <=> Trusted(ev))
  BY <1>3 DEF ParsesToNone, Trusted, Allows
<1> QED
  BY <1>2, <1>4, <1>5 DEF Judge

\* Every step keeps the invariant.
LEMMA AdmissionStep ==
  ASSUME IInv, [Next]_vars
  PROVE  IInv'
<1> USE DEF IInv
<1>1. TypeOK'
  BY TypeStep
<1>2. CASE LoadsEntry
  <2>1. LoadInv'
    BY <1>2, LoadsNext
  <2>2. VerdictInv'
    BY <1>2 DEF LoadsEntry, VerdictInv, TaskIffTrusted
  <2> QED
    BY <1>1, <2>1, <2>2
<1>3. CASE RefusesEntry \/ Serves
  <2>1. UNCHANGED <<entries, loaded, allowlist>> /\ (phase' = "serving" => loaded = Len(entries))
    BY <1>3 DEF RefusesEntry, Serves
  <2>2. LoadInv'
    BY <2>1 DEF LoadInv, LastAmong, KnownMode
  <2>3. VerdictInv'
    BY <1>3 DEF RefusesEntry, Serves, VerdictInv, TaskIffTrusted
  <2> QED
    BY <1>1, <2>2, <2>3
<1>4. CASE Judges
  <2>1. PICK e \in Event : event' = e /\ verdict' = Judge(e)
    BY <1>4 DEF Judges
  <2>2. phase = "serving" /\ UNCHANGED <<dmUsers, entries, loaded, allowlist, phase>>
    BY <1>4 DEF Judges
  <2>3. LoadInv'
    BY <2>2 DEF LoadInv, LastAmong, KnownMode
  <2>4. Trusted(e)' <=> Trusted(e)
    BY <2>2 DEF Trusted, EntryOf, IsPrivate
  <2>5. VerdictInv'
    BY <2>1, <2>2, <2>4, JudgesByFile DEF VerdictInv, TaskIffTrusted, Trusted, EntryOf, IsPrivate
  <2> QED
    BY <1>1, <2>3, <2>5
<1>5. CASE UNCHANGED vars
  <2>1. LoadInv'
    BY <1>5 DEF vars, LoadInv, LastAmong, KnownMode
  <2>2. VerdictInv'
    BY <1>5 DEF vars, VerdictInv, TaskIffTrusted, Trusted, EntryOf, IsPrivate
  <2> QED
    BY <1>1, <2>1, <2>2
<1> QED
  BY <1>2, <1>3, <1>4, <1>5 DEF Next

\* The invariant holds of every reachable state.
LEMMA AdmissionInvariant == Spec => []IInv
<1>1. Init => IInv
  <2> SUFFICES ASSUME Init PROVE IInv
    OBVIOUS
  <2>1. LoadInv /\ VerdictInv
    BY DEF Init, LoadInv, VerdictInv, TaskIffTrusted
  <2> QED
    BY <2>1, InitTypes DEF IInv
<1>2. IInv /\ [Next]_vars => IInv'
  BY AdmissionStep
<1> QED
  BY <1>1, <1>2, PTL DEF Spec

\* An event becomes a task exactly when the rules of the configuration file trust
\* it: for every set of users and groups and every list of entries, repeated ones
\* included.
THEOREM TasksAreTrusted == Spec => []TaskIffTrusted
<1>1. IInv => TaskIffTrusted
  BY DEF IInv, VerdictInv
<1> QED
  BY <1>1, AdmissionInvariant, PTL

\* A relay that serves has met no entry it does not understand, anywhere in the file.
THEOREM TyposNeverServe == Spec => []TypoNeverServes
<1>1. IInv => TypoNeverServes
  <2> SUFFICES ASSUME IInv, phase = "serving", NEW i \in DOMAIN entries
               PROVE  entries[i].mode \in {"open", "restricted"}
    BY DEF TypoNeverServes
  <2>1. i \in 1..loaded
    BY LenProperties DEF IInv, TypeOK, LoadInv
  <2> QED
    BY <2>1 DEF IInv, LoadInv, KnownMode
<1> QED
  BY <1>1, AdmissionInvariant, PTL
=============================================================================
