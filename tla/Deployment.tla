----------------------------- MODULE Deployment -----------------------------
(***************************************************************************)
(* The relay as a process that is started, serves, ends and is started     *)
(* again: preflight (relaypi/preflight.py), Config (relaypi/config.py),    *)
(* create_relay() (relaypi/startup/factory.py) and main()                  *)
(* (relaypi/main.py) with its exit code.  The process supervisor that the  *)
(* comment of websocket_message_source.py relies on is not in the          *)
(* repository.  What it starts is start.bat, which runs preflight first    *)
(* and waits for a key when preflight or main() has failed, or "python -m  *)
(* relaypi.main" as in docs/usage.md, which does neither.                  *)
(*                                                                         *)
(* Relay models what happens to the messages; here a turn is one unit of   *)
(* work that stop() waits for, and that may hang (PiRpcClient shows how).  *)
(***************************************************************************)
EXTENDS WebSocketSource

CONSTANTS
    MaxTurns,    \* bound: turns under way at one time
    DefaultUrl,  \* TRUE: RELAYPI_WS_URL is the URL that preflight probes
    RestartOn    \* the exit codes on which the supervisor starts it again

ASSUME DeploymentAssumption ==
    /\ MaxTurns \in Nat \ {0}
    /\ DefaultUrl \in BOOLEAN
    /\ RestartOn \subseteq {"zero", "one", "signal"}

VARIABLES
    launcher, \* what the user or the supervisor starts: "start_bat" or "direct"
    config,   \* the allowlist file: "valid", "invalid" or "unreadable"
    loaded,   \* the allowlist of the process: that of a valid file, or an "empty" one
    main,     \* "down", "preflight", "boot", "run", "stop", or "paused": the process
              \* has ended and start.bat waits for a key
    why,      \* what ended run() or the process the last time
    turns,    \* turns under way
    hung,     \* TRUE: one of them never ends
    lost,     \* history: since its start the process lost a trusted message
    ready     \* TRUE since preflight passed, until its surroundings change

vars == <<sourceVars, launcher, config, loaded, main, why, turns, hung, lost, ready>>

File == {"valid", "invalid", "unreadable"}
Why == {"none", "not_ready", "refused", "unreachable", "closed", "raised", "interrupt", "signal"}

\* Every variable holds a value of the kind the code keeps in it.
TypeOK ==
    /\ SourceTypeOK
    /\ launcher \in {"start_bat", "direct"}
    /\ config \in File
    /\ loaded \in {"empty", "valid"}
    /\ main \in {"down", "preflight", "boot", "run", "stop", "paused"}
    /\ why \in Why
    /\ turns \in 0..MaxTurns
    /\ hung \in BOOLEAN
    /\ lost \in BOOLEAN
    /\ ready \in BOOLEAN

Init ==
    /\ SourceInit
    /\ launcher \in {"start_bat", "direct"}
    /\ config \in File
    /\ loaded = "empty"
    /\ main = "down"
    /\ why = "none"
    /\ turns = 0
    /\ hung = FALSE
    /\ lost = FALSE
    /\ ready = FALSE

-----------------------------------------------------------------------------
(* From the start to run() *)

\* Mutant: main() logs that telegramy is unreachable and returns 0.
ZeroIfUnreachable(w) == IF w \in {"closed", "interrupt", "unreachable"} THEN "zero" ELSE "one"

\* main() returns 0 after the end of the source and sys.exit(0) answers Ctrl+C; an
\* unreachable telegramy is 1, and so is every traceback.
ExitCode(w) ==
    IF w \in {"closed", "interrupt"} THEN "zero" ELSE IF w = "signal" THEN w ELSE "one"

\* Unread messages that a step takes off the wire.
Unread == \E i \in DOMAIN wire : wire[i] = "trusted" /\ i \notin DOMAIN wire'

\* The process ends, and with it the turns under way and its connection ...
Ends(w) ==
    /\ why' = w
    /\ turns' = 0 /\ hung' = FALSE
    /\ Leaves
    /\ lost' = (lost \/ turns > 0 \/ Unread)

\* ... and start.bat, after any code but 0, stays behind in its pause.
Exits(w) ==
    /\ main' = IF launcher = "start_bat" /\ ExitCode(w) # "zero" THEN "paused" ELSE "down"
    /\ Ends(w)

\* Somebody presses the key: start.bat ends, with the code it found.
KeyPressed ==
    /\ main = "paused"
    /\ main' = "down"
    /\ UNCHANGED <<sourceVars, launcher, config, loaded, why, turns, hung, lost, ready>>

\* The user or the supervisor starts it; start.bat runs preflight first.
Starts ==
    /\ main = "down"
    /\ why = "none" \/ ExitCode(why) \in RestartOn
    /\ main' = IF launcher = "start_bat" THEN "preflight" ELSE "boot"
    /\ lost' = FALSE
    /\ UNCHANGED <<sourceVars, launcher, config, loaded, why, turns, hung, ready>>

\* What the probe of ws://localhost:8765 finds; at another URL than that of
\* telegramy, whatever is there.
ProbeResults == IF DefaultUrl THEN {telegramy = "up"} ELSE BOOLEAN

\* Mutant: preflight does not load the allowlist.
PreflightProbesOnly ==
    /\ main = "preflight"
    /\ \E ok \in ProbeResults :
         \/ ok /\ main' = "boot" /\ ready' = TRUE /\ UNCHANGED <<sourceVars, why, turns, hung, lost>>
         \/ ~ok /\ Exits("not_ready") /\ UNCHANGED ready
    /\ UNCHANGED <<launcher, config, loaded>>

\* preflight probes telegramy and loads the allowlist, which raises if it is invalid.
Preflight ==
    /\ main = "preflight"
    /\ \E ok \in ProbeResults :
         \/ ok /\ config # "invalid" /\ main' = "boot" /\ ready' = TRUE
            /\ UNCHANGED <<sourceVars, why, turns, hung, lost>>
         \/ (~ok \/ config = "invalid") /\ Exits("not_ready") /\ UNCHANGED ready
    /\ UNCHANGED <<launcher, config, loaded>>

\* Mutant: load_allowlist() does not validate.
LoadsAnyFile ==
    /\ main = "boot"
    /\ main' = "run"
    /\ loaded' = IF config = "unreadable" THEN "empty" ELSE config
    /\ UNCHANGED <<sourceVars, launcher, config, why, turns, hung, lost, ready>>

\* create_relay(): a file that cannot be read is an empty allowlist, an invalid one
\* raises, before the try of main().
CreatesRelay ==
    /\ main = "boot"
    /\ \/ /\ config # "invalid"
          /\ main' = "run"
          /\ loaded' = IF config = "unreadable" THEN "empty" ELSE config
          /\ UNCHANGED <<sourceVars, why, turns, hung, lost>>
       \/ config = "invalid" /\ Exits("refused") /\ UNCHANGED loaded
    /\ UNCHANGED <<launcher, config, ready>>

-----------------------------------------------------------------------------
(* run() and stop() *)

Opens ==
    /\ main = "run"
    /\ Connects \/ Subscribes
    /\ UNCHANGED <<launcher, config, loaded, main, why, turns, hung, lost, ready>>

\* run() ends; main() goes on to stop() in its finally.
RunEnds(w) ==
    /\ main = "run"
    /\ main' = "stop"
    /\ why' = w
    /\ Leaves
    /\ lost' = (lost \/ Unread)
    /\ UNCHANGED <<launcher, config, loaded, turns, hung, ready>>

\* A frame: a message that is trusted starts a turn, one on which the admission
\* raises ends run(), any other is dropped.
Handles ==
    /\ main = "run"
    /\ \/ \E f \in Frame \ {"raising"} :
            /\ Takes(f)
            /\ IF f = "trusted" /\ loaded = "valid"
                 THEN turns < MaxTurns /\ turns' = turns + 1
                 ELSE UNCHANGED turns
            /\ UNCHANGED <<launcher, config, loaded, main, why, hung, lost, ready>>
       \/ conn = "subscribed" /\ wire # <<>> /\ Head(wire) = "raising" /\ RunEnds("raised")

\* connect() raises, the iteration ends, or the connection is lost with an error
\* that main() does not know.
SourceEnds ==
    \/ ConnectFails /\ RunEnds("unreachable")
    \/ SubscribeFails /\ RunEnds("raised")
    \/ Exhausted("closed") /\ RunEnds("closed")
    \/ Exhausted("broken") /\ RunEnds("raised")

TurnEnds ==
    /\ turns > IF hung THEN 1 ELSE 0
    /\ turns' = turns - 1
    /\ UNCHANGED <<sourceVars, launcher, config, loaded, main, why, hung, lost, ready>>

TurnHangs ==
    /\ turns > 0
    /\ hung' = TRUE
    /\ UNCHANGED <<sourceVars, launcher, config, loaded, main, why, turns, lost, ready>>

\* Mutant: stop() does not wait for the turns.
StopsAtOnce ==
    /\ main = "stop"
    /\ \E w \in {why, "raised"} : Exits(w)
    /\ UNCHANGED <<launcher, config, loaded, ready>>

\* stop() returns when every turn has ended, or raises (see Relay), which takes the
\* place of the code that main() was about to return.
Stops ==
    /\ main = "stop"
    /\ turns = 0
    /\ \E w \in {why, "raised"} : Exits(w)
    /\ UNCHANGED <<launcher, config, loaded, ready>>

\* Ctrl+C cancels main(); stop() is next ...
Interrupted == RunEnds("interrupt")

\* ... but while stop() is under way it ends the process with what is under way.
Impatient ==
    /\ main = "stop"
    /\ Exits("interrupt")
    /\ UNCHANGED <<launcher, config, loaded, ready>>

\* SIGTERM: no handler is installed, the process is gone, and start.bat with it.
Terminated ==
    /\ main # "down"
    /\ main' = "down"
    /\ Ends("signal")
    /\ UNCHANGED <<launcher, config, loaded, ready>>

\* The user edits the allowlist; the process keeps the one it has loaded.
Edits ==
    /\ config' \in File \ {config}
    /\ ready' = FALSE
    /\ UNCHANGED <<sourceVars, launcher, loaded, main, why, turns, hung, lost>>

\* telegramy leaves, or the connection does.
Drops ==
    /\ Closes \/ Breaks \/ GoesDown
    /\ ready' = FALSE
    /\ lost' = (lost \/ Unread)
    /\ UNCHANGED <<launcher, config, loaded, main, why, turns, hung>>

Surroundings ==
    \/ (Publishes \/ ComesUp) /\ UNCHANGED <<launcher, config, loaded, main, why, turns, hung, lost, ready>>
    \/ Drops \/ Edits

ProcessStep ==
    Starts \/ Preflight \/ CreatesRelay \/ Opens \/ Handles \/ SourceEnds \/ Stops

Next ==
    \/ ProcessStep \/ TurnEnds \/ TurnHangs
    \/ Interrupted \/ Impatient \/ Terminated \/ KeyPressed \/ Surroundings

\* The process runs and is started again; a turn that does not hang ends.  Nothing
\* makes anybody press a key.
Spec == Init /\ [][Next]_vars /\ WF_vars(ProcessStep) /\ WF_vars(TurnEnds)

-----------------------------------------------------------------------------
(* Properties *)

\* What preflight found holds for the relay it starts: as long as telegramy stays
\* and the file is not edited, the relay does not fail between create_relay() and
\* its subscription, unless it is told to stop.
PreflightMeansReady ==
    [][ready /\ main \in {"boot", "run"} /\ conn # "subscribed" /\ main' # main
         => main' = "run" \/ why' \in {"interrupt", "signal"}]_vars

\* A relay that reports success although nobody interrupted it has lost no message:
\* none was left on the wire or went with the connection, and no turn was cut off,
\* however the connection ended and however stop() went (main(), the end of events(),
\* the gather of stop()).  What an allowlist does not name is judged, not lost.
SuccessMeansServed ==
    main = "down" /\ why \notin {"none", "interrupt"} /\ ExitCode(why) = "zero" => ~lost

\* The relay is subscribed again whenever telegramy stays up with a file that is not
\* invalid, connections last and nobody keeps interrupting.  What keeps it from that
\* is named: a clean close or an interrupt after which it exits with 0, a signal, a
\* turn that hangs, for which stop() waits while the relay is connected to nothing,
\* and the pause of start.bat, in which a supervised relay waits for a key after any
\* failure.
ServesAgain ==
    /\ <>[](telegramy = "up" /\ config # "invalid")
    /\ ~[]<><<Drops \/ Interrupted>>_vars
    => []<>(\/ conn = "subscribed"
            \/ main = "down" /\ why \in {"closed", "interrupt", "signal"}
            \/ main = "stop" /\ hung
            \/ main = "paused")

\* docs/usage.md: told to stop by Ctrl+C or by the supervisor's stop signal, the relay
\* waits for the turns under way.  SIGTERM does not let it.
StopWaitsForTurns == [][main = "run" /\ main' = "down" => turns = 0]_vars
=============================================================================
