--------------------------- MODULE DeploymentProofs ---------------------------
(***************************************************************************)
(* Theorems about Deployment, for every size of the wire, every number of  *)
(* turns and every supervisor.                                             *)
(***************************************************************************)
EXTENDS Deployment, SequenceTheorems, TLAPS

(* Type correctness *)

\* What telegramy and the network do to the wire keeps its type.
LEMMA WireTypes ==
  ASSUME SourceTypeOK, Publishes \/ Closes \/ Breaks \/ GoesDown \/ ComesUp
  PROVE  SourceTypeOK'
<1> USE DEF SourceTypeOK
<1>1. CASE Publishes
  <2>1. PICK f \in Frame : wire' = Append(wire, f)
    BY <1>1 DEF Publishes
  <2>2. wire' \in Seq(Frame) /\ Len(wire') = Len(wire) + 1
    BY <2>1, AppendProperties
  <2> QED
    BY <1>1, <2>2, SourceAssumption, LenProperties DEF Publishes
<1>2. CASE Breaks
  <2>1. PICK n \in 0..Len(wire) : wire' = SubSeq(wire, 1, n)
    BY <1>2 DEF Breaks
  <2>2. n \in Nat /\ n <= Len(wire) /\ Len(wire) \in Nat
    BY <2>1, LenProperties
  <2>3. wire' \in Seq(Frame) /\ Len(wire') = n
    BY <2>1, <2>2, SubSeqProperties
  <2> QED
    BY <1>2, <2>2, <2>3, SourceAssumption DEF Breaks
<1>3. CASE Closes \/ GoesDown \/ ComesUp
  BY <1>3 DEF Closes, GoesDown, ComesUp
<1> QED
  BY <1>1, <1>2, <1>3

\* So does what events() does.
LEMMA SourceTypes ==
  ASSUME SourceTypeOK, Connects \/ Subscribes \/ Leaves \/ (\E f \in Frame : Takes(f))
  PROVE  SourceTypeOK'
<1> USE DEF SourceTypeOK
<1>1. CASE Connects \/ Subscribes
  BY <1>1 DEF Connects, Subscribes
<1>2. CASE Leaves
  BY <1>2, EmptySeq, SourceAssumption DEF Leaves
<1>3. CASE \E f \in Frame : Takes(f)
  <2>1. wire # <<>> /\ wire' = Tail(wire) /\ UNCHANGED <<telegramy, conn, peer>>
    BY <1>3 DEF Takes
  <2>2. wire' \in Seq(Frame) /\ Len(wire') = Len(wire) - 1
    BY <2>1, HeadTailProperties
  <2> QED
    BY <2>1, <2>2, SourceAssumption, LenProperties
<1> QED
  BY <1>1, <1>2, <1>3

\* So does the end of the process, whatever it says about its cause.
LEMMA ExitTypes ==
  ASSUME TypeOK, NEW w \in Why, Ends(w), main' \in {"down", "paused"}, UNCHANGED launcher,
         config' \in File, loaded' \in {"empty", "valid"}, ready' \in BOOLEAN
  PROVE  TypeOK'
<1>1. SourceTypeOK'
  BY SourceTypes DEF TypeOK, Ends
<1>2. lost' \in BOOLEAN
  BY Zenon DEF Ends
<1>3. 0 \in 0..MaxTurns
  BY DeploymentAssumption
<1> QED
  BY <1>1, <1>2, <1>3 DEF TypeOK, Ends

\* A step of the relay's process keeps the types.
LEMMA ProcessTypes ==
  ASSUME TypeOK, ProcessStep
  PROVE  TypeOK'
<1> USE DEF TypeOK
<1>1. CASE Starts \/ Preflight \/ Stops
  BY <1>1, ExitTypes DEF Starts, Preflight, Stops, Exits, Why, sourceVars, SourceTypeOK
<1>2. CASE CreatesRelay
  BY <1>2, ExitTypes DEF CreatesRelay, Exits, File, Why, sourceVars, SourceTypeOK
<1>3. CASE Opens
  BY <1>3, SourceTypes DEF Opens
<1>4. ASSUME NEW w \in Why, RunEnds(w) PROVE TypeOK'
  BY <1>4, SourceTypes DEF RunEnds
<1>5. CASE SourceEnds
  BY <1>4, <1>5 DEF SourceEnds, Why
<1>6. CASE Handles
  <2>1. CASE RunEnds("raised")
    BY <1>4, <2>1 DEF Why
  <2>2. ASSUME NEW f \in Frame, Takes(f), UNCHANGED <<launcher, config, loaded, main, why, hung, lost, ready>>,
               (turns < MaxTurns /\ turns' = turns + 1) \/ UNCHANGED turns
        PROVE  TypeOK'
    BY <2>2, SourceTypes, DeploymentAssumption
  <2> QED
    BY <1>6, <2>1, <2>2 DEF Handles
<1> QED
  BY <1>1, <1>2, <1>3, <1>5, <1>6 DEF ProcessStep

\* The variables always hold values of the kinds the code keeps in them; a process
\* never serves an invalid file.
THEOREM DeploymentTypeCorrect == Spec => []TypeOK
<1>0. 0 \in 0..MaxTurns
  BY DeploymentAssumption
<1>1. Init => TypeOK
  <2> SUFFICES ASSUME Init PROVE TypeOK
    OBVIOUS
  <2>1. SourceTypeOK
    BY EmptySeq, SourceAssumption DEF Init, SourceInit, SourceTypeOK
  <2> QED
    BY <1>0, <2>1 DEF Init, TypeOK, File, Why
<1>2. TypeOK /\ [Next]_vars => TypeOK'
  <2> SUFFICES ASSUME TypeOK, [Next]_vars PROVE TypeOK'
    OBVIOUS
  <2> USE DEF TypeOK
  <2>1. CASE ProcessStep
    BY <2>1, ProcessTypes
  <2>2. CASE TurnEnds
    <3>1. turns > 0
      BY <2>2 DEF TurnEnds
    <3>2. turns' \in 0..MaxTurns
      BY <2>2, <3>1, DeploymentAssumption DEF TurnEnds
    <3> QED
      BY <2>2, <3>2 DEF TurnEnds, sourceVars, SourceTypeOK
  <2>3. CASE Interrupted
    BY <2>3, SourceTypes DEF Interrupted, RunEnds, Why
  <2>4. CASE Impatient \/ Terminated
    BY <2>4, ExitTypes DEF Impatient, Terminated, Exits, Why
  <2>5. CASE Surroundings
    <3>1. CASE Edits
      <4>1. SourceTypeOK'
        BY <3>1 DEF Edits, sourceVars, SourceTypeOK
      <4> QED
        BY <3>1, <4>1 DEF Edits
    <3>2. CASE Drops
      <4>1. SourceTypeOK'
        BY <3>2, WireTypes DEF Drops
      <4> QED
        BY <3>2, <4>1 DEF Drops
    <3>3. CASE /\ Publishes \/ ComesUp
               /\ UNCHANGED <<launcher, config, loaded, main, why, turns, hung, lost, ready>>
      <4>1. SourceTypeOK'
        BY <3>3, WireTypes
      <4> QED
        BY <3>3, <4>1
    <3> QED
      BY <2>5, <3>1, <3>2, <3>3 DEF Surroundings
  <2>6. CASE UNCHANGED vars
    BY <2>6 DEF vars, sourceVars, SourceTypeOK
  <2>7. CASE TurnHangs \/ KeyPressed
    BY <2>7 DEF TurnHangs, KeyPressed, sourceVars, SourceTypeOK
  <2> QED
    BY <2>1, <2>2, <2>3, <2>4, <2>5, <2>6, <2>7 DEF Next
<1> QED
  BY <1>1, <1>2, PTL DEF Spec

-----------------------------------------------------------------------------
(* What preflight promises *)

\* A process has a connection only in run(), and frames only when it has subscribed.
ConnectionInv ==
    /\ main # "run" => conn = "none"
    /\ conn = "none" => peer = "open"
    /\ conn # "subscribed" => wire = <<>>

\* Every step keeps it.
LEMMA ConnectionStep ==
  ASSUME ConnectionInv, [Next]_vars
  PROVE  ConnectionInv'
<1> USE DEF ConnectionInv
<1>1. CASE Starts \/ Preflight \/ CreatesRelay \/ Stops \/ Impatient \/ Terminated
  BY <1>1 DEF Starts, Preflight, CreatesRelay, Stops, Impatient, Terminated, Exits, Ends, Leaves,
     sourceVars
<1>2. CASE Opens \/ Handles \/ SourceEnds \/ Interrupted
  BY <1>2 DEF Opens, Connects, Subscribes, Handles, Takes, SourceEnds, Interrupted, RunEnds, Leaves
<1>3. CASE TurnEnds \/ TurnHangs \/ KeyPressed \/ UNCHANGED vars
  BY <1>3 DEF TurnEnds, TurnHangs, KeyPressed, vars, sourceVars
<1>4. CASE Surroundings
  BY <1>4 DEF Surroundings, Drops, Publishes, ComesUp, Closes, Breaks, GoesDown, Edits, sourceVars
<1> QED
  BY <1>1, <1>2, <1>3, <1>4 DEF Next, ProcessStep

\* What preflight saw has not changed since, while ready says so.
ReadyInv ==
    /\ ConnectionInv
    /\ ready => telegramy = "up" /\ peer = "open" /\ config # "invalid"

\* Every step keeps it, when preflight probes the URL the relay connects to.
LEMMA ReadyStep ==
  ASSUME DefaultUrl, ReadyInv, [Next]_vars
  PROVE  ReadyInv'
<1> USE DEF ReadyInv
<1>0. ConnectionInv'
  BY ConnectionStep
<1>1. CASE Starts \/ CreatesRelay \/ Stops \/ Opens
  BY <1>0, <1>1 DEF Starts, CreatesRelay, Stops, Opens, Connects, Subscribes, Exits, Ends, Leaves,
     sourceVars
<1>2. CASE Preflight
  BY <1>0, <1>2 DEF Preflight, ProbeResults, Exits, Ends, Leaves, sourceVars, ConnectionInv
<1>3. CASE Handles \/ SourceEnds \/ Interrupted
  BY <1>0, <1>3 DEF Handles, Takes, SourceEnds, Interrupted, RunEnds, Leaves
<1>4. CASE TurnEnds \/ TurnHangs \/ Impatient \/ Terminated \/ KeyPressed
  BY <1>0, <1>4 DEF TurnEnds, TurnHangs, Impatient, Terminated, KeyPressed, Exits, Ends, Leaves,
     sourceVars
<1>5. CASE Surroundings
  BY <1>0, <1>5 DEF Surroundings, Publishes, ComesUp, Drops, Closes, Breaks, GoesDown, Edits,
     sourceVars, ConnectionInv
<1>6. CASE UNCHANGED vars
  BY <1>0, <1>6 DEF vars, sourceVars
<1> QED
  BY <1>1, <1>2, <1>3, <1>4, <1>5, <1>6 DEF Next, ProcessStep

\* With the default URL, a relay whose preflight passed gets to its subscription
\* unless telegramy leaves, the file is edited or somebody stops it.
THEOREM PreflightIsTrue == DefaultUrl => (Spec => PreflightMeansReady)
<1> SUFFICES ASSUME DefaultUrl PROVE Spec => PreflightMeansReady
  OBVIOUS
<1>1. Init => ReadyInv
  BY DEF Init, SourceInit, ReadyInv, ConnectionInv
<1>2. ReadyInv /\ [Next]_vars => ReadyInv'
  BY ReadyStep
<1> DEFINE Ready == ready /\ main \in {"boot", "run"} /\ conn # "subscribed" /\ main' # main
                       => main' = "run" \/ why' \in {"interrupt", "signal"}
<1>3. ReadyInv /\ [Next]_vars => [Ready]_vars
  <2> SUFFICES ASSUME ReadyInv, [Next]_vars PROVE [Ready]_vars
    OBVIOUS
  <2>1. CASE ProcessStep
    BY <2>1 DEF ProcessStep, Starts, Preflight, CreatesRelay, Opens, Handles, SourceEnds, Stops,
       RunEnds, Exits, Ends, Takes, ConnectFails, SubscribeFails, Exhausted, ReadyInv, ConnectionInv
  <2>2. CASE Interrupted \/ Impatient \/ Terminated
    BY <2>2 DEF Interrupted, Impatient, Terminated, RunEnds, Exits, Ends
  <2>3. CASE TurnEnds \/ TurnHangs \/ KeyPressed \/ Surroundings \/ UNCHANGED vars
    BY <2>3 DEF TurnEnds, TurnHangs, KeyPressed, Surroundings, Drops, Edits, vars
  <2> QED
    BY <2>1, <2>2, <2>3 DEF Next
<1> QED
  BY <1>1, <1>2, <1>3, PTL DEF Spec, PreflightMeansReady

-----------------------------------------------------------------------------
(* What exit code 0 promises *)

\* A process has lost nothing before it runs; while it runs it does so only by a break
\* of its connection, and one that has lost something does not end as closed.
LostInv ==
    /\ ConnectionInv
    /\ main \in {"preflight", "boot"} => ~lost
    /\ main = "run" /\ lost => peer = "broken"
    /\ main \in {"stop", "down", "paused"} /\ lost => why # "closed"

\* The end of run() keeps it: a clean close comes last on the wire.
LEMMA LostRunEnds ==
  ASSUME LostInv, ConnectionInv', NEW w, RunEnds(w),
         w = "closed" => peer = "closed" /\ wire = <<>>
  PROVE  LostInv'
<1>1. CASE w = "closed"
  <2>1. ~Unread
    BY <1>1 DEF Unread
  <2> QED
    BY <1>1, <2>1 DEF LostInv, RunEnds
<1>2. CASE w # "closed"
  BY <1>2 DEF LostInv, RunEnds
<1> QED
  BY <1>1, <1>2

\* Every step keeps it.
LEMMA LostStep ==
  ASSUME LostInv, [Next]_vars
  PROVE  LostInv'
<1>0. ConnectionInv'
  BY ConnectionStep DEF LostInv
<1>1. CASE Starts \/ Preflight \/ CreatesRelay
  BY <1>0, <1>1 DEF LostInv, Starts, Preflight, CreatesRelay, Exits, Ends
<1>2. CASE Stops
  <2>1. ~Unread /\ ~(turns > 0)
    BY <1>2 DEF LostInv, ConnectionInv, Stops, Unread
  <2>2. PICK w \in {why, "raised"} : main' \in {"down", "paused"} /\ why' = w /\ lost' = (lost \/ turns > 0 \/ Unread)
    BY <1>2 DEF Stops, Exits, Ends
  <2>3. lost' => lost
    BY <2>1, <2>2, Zenon
  <2> QED
    BY <1>0, <1>2, <2>2, <2>3 DEF LostInv, Stops
<1>3. CASE SourceEnds
  BY <1>0, <1>3, LostRunEnds DEF SourceEnds, Exhausted
<1>4. CASE Handles
  <2>1. CASE RunEnds("raised")
    BY <1>0, <2>1, LostRunEnds
  <2>2. CASE UNCHANGED <<peer, main, why, lost>>
    BY <1>0, <2>2 DEF LostInv
  <2> QED
    BY <1>4, <2>1, <2>2 DEF Handles, Takes
<1>5. CASE Interrupted
  BY <1>0, <1>5, LostRunEnds DEF Interrupted
<1>6. CASE Impatient \/ Terminated
  BY <1>0, <1>6 DEF LostInv, Impatient, Terminated, Exits, Ends
<1>7. CASE Opens \/ TurnEnds \/ TurnHangs \/ KeyPressed \/ Edits \/ UNCHANGED vars
  BY <1>0, <1>7 DEF LostInv, Opens, Connects, Subscribes, TurnEnds, TurnHangs, KeyPressed, Edits,
     vars, sourceVars
<1>8. CASE (Publishes \/ ComesUp) /\ UNCHANGED <<launcher, config, loaded, main, why, turns, hung, lost, ready>>
  BY <1>0, <1>8 DEF LostInv, Publishes, ComesUp
<1>9. CASE Drops
  <2>1. CASE Breaks
    BY <1>0, <1>9, <2>1 DEF LostInv, ConnectionInv, Drops, Breaks
  <2>2. CASE Closes \/ GoesDown
    <3>1. ~Unread
      BY <2>2 DEF Closes, GoesDown, Unread
    <3>2. UNCHANGED <<main, why>> /\ (lost' => lost)
      BY <1>9, <3>1 DEF Drops
    <3> QED
      BY <1>0, <2>2, <3>2 DEF LostInv, Closes, GoesDown
  <2> QED
    BY <1>9, <2>1, <2>2 DEF Drops
<1> QED
  BY <1>1, <1>2, <1>3, <1>4, <1>5, <1>6, <1>7, <1>8, <1>9 DEF Next, ProcessStep, Surroundings

\* Exit code 0 without an interrupt means that every message has been handled to its end.
THEOREM SuccessIsComplete == Spec => []SuccessMeansServed
<1>1. Init => LostInv
  BY DEF Init, SourceInit, LostInv, ConnectionInv
<1>2. LostInv /\ [Next]_vars => LostInv'
  BY LostStep
<1>3. LostInv => SuccessMeansServed
  BY DEF LostInv, SuccessMeansServed, ExitCode
<1> QED
  BY <1>1, <1>2, <1>3, PTL DEF Spec
=============================================================================
