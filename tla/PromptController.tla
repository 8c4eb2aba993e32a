-------------------------- MODULE PromptController --------------------------
(***************************************************************************)
(* The pane-mode state machine of one pane (src/shell.rs).  It decides who *)
(* owns the keyboard: the prompt editor, or the program on the PTY.  The   *)
(* pane calls it with the lifecycle events of the shell integration, the   *)
(* edges of the terminal's alternate-screen flag, the exit of the PTY, a   *)
(* tick per UI frame, and the user's gestures.                             *)
(*                                                                         *)
(* Frame numbers only matter as "the frame of the last transition" and "the*)
(* age of this shell run", so those are what the state keeps.              *)
(***************************************************************************)
EXTENDS Naturals

CONSTANT TimeoutFrames   \* BOOTSTRAP_TIMEOUT_FRAMES, 180 in the code

ASSUME TimeoutAssumption == TimeoutFrames \in Nat \ {0}

VARIABLES
  mode,          \* PromptController.mode
  integration,   \* the constructor of IntegrationState
  last,          \* last_transition: where it came from, why, and whether it
                 \* was made in the current frame (last.to is always mode)
  age,           \* frame - spawn_frame, capped at TimeoutFrames
  pending,       \* pending_cmd: absent, without or with its command line
  completed      \* last_completed_cmd: absent, with or without an exit code

vars == <<mode, integration, last, age, pending, completed>>

Modes == {"Bootstrapping", "RawTerminal", "ShellPromptEditor",
          "AlternateScreen", "Dead", "Degraded"}

IntegrationStates == {"Unknown", "Confirmed", "Failed"}

Reasons == {"InitialSpawn", "BootstrapComplete", "BootstrapTimeout",
            "BootstrapError", "IntegrationVersionUnsupported", "PrecmdMarker",
            "EnterSubmitted", "CtrlCEmptyEditor", "Esc", "ContinuationMarker",
            "AlternateScreenEnter", "AlternateScreenExit", "PtyExit",
            "UserRestartedShell"}

TypeOK ==
  /\ mode \in Modes
  /\ integration \in IntegrationStates
  /\ last \in [from : Modes, reason : Reasons, fresh : BOOLEAN]
  /\ age \in 0..TimeoutFrames
  /\ pending \in {"none", "unnamed", "named"}
  /\ completed \in {"none", "exited", "aborted"}

-----------------------------------------------------------------------------

Spawned(m) ==
  /\ mode = m
  /\ integration = "Unknown"
  /\ last = [from |-> m, reason |-> "InitialSpawn", fresh |-> TRUE]
  /\ age = 0
  /\ pending = "none"
  /\ completed = "none"

\* `new` for a managed shell, `new_no_bootstrap` for a bare child process.
Init == Spawned("Bootstrapping") \/ Spawned("RawTerminal")

Transition(to, reason) ==
  /\ mode' = to
  /\ last' = [from |-> mode, reason |-> reason, fresh |-> TRUE]

TransitionIf(guard, to, reason) ==
  \/ guard  /\ Transition(to, reason)
  \/ ~guard /\ UNCHANGED <<mode, last>>

-----------------------------------------------------------------------------
(* Lifecycle events: observe_event.  The events the machine ignores (Cwd,  *)
(* PromptVars, ShellVars, Completion) have no action.                      *)

ObserveIntegrationReady(supported) ==
  /\ integration' = IF supported THEN "Confirmed" ELSE "Failed"
  /\ IF supported
     THEN TransitionIf(mode = "Bootstrapping", "RawTerminal", "BootstrapComplete")
     ELSE TransitionIf(mode \in {"Bootstrapping", "RawTerminal", "ShellPromptEditor"},
                       "Degraded", "IntegrationVersionUnsupported")
  /\ UNCHANGED <<age, pending, completed>>

\* Mutant: the failure is recorded as the mode.
ObserveIntegrationErrorAsMode ==
  /\ integration' = "Degraded"
  /\ TransitionIf(mode = "Bootstrapping", "Degraded", "BootstrapError")
  /\ UNCHANGED <<age, pending, completed>>

ObserveIntegrationError ==
  /\ integration' = "Failed"
  /\ TransitionIf(mode = "Bootstrapping", "Degraded", "BootstrapError")
  /\ UNCHANGED <<age, pending, completed>>

ObservePreexec ==
  /\ pending' = IF pending # "none" \/ mode \notin {"Dead", "Bootstrapping"}
                THEN "named" ELSE "none"
  /\ UNCHANGED <<mode, integration, last, age, completed>>

ClosePending(how) ==
  /\ pending' = "none"
  /\ completed' = IF pending = "none" THEN completed ELSE how

ObserveCommandFinished ==
  ClosePending("exited") /\ UNCHANGED <<mode, integration, last, age>>

ObserveCommandAborted ==
  ClosePending("aborted") /\ UNCHANGED <<mode, integration, last, age>>

\* Mutant: any raw terminal is promoted.
MayPromoteUntrusted ==
  mode = "RawTerminal" /\ ~(last.from = "ShellPromptEditor" /\ last.fresh)

\* try_promote_to_editor: the third conjunct is the same-frame debounce.
MayPromote ==
  /\ mode = "RawTerminal"
  /\ integration = "Confirmed"
  /\ ~(last.from = "ShellPromptEditor" /\ last.fresh)

ObservePrecmd ==
  /\ TransitionIf(MayPromote, "ShellPromptEditor", "PrecmdMarker")
  /\ UNCHANGED <<integration, age, pending, completed>>

\* Mutant: a PS2 marker reopens the editor however it was left.
MayContinueAlways == mode = "RawTerminal" /\ integration = "Confirmed"

\* try_promote_to_editor_for_continuation: only straight after a submit.
MayContinue ==
  /\ mode = "RawTerminal"
  /\ integration = "Confirmed"
  /\ last.reason = "EnterSubmitted"

ObserveContinuation ==
  /\ TransitionIf(MayContinue, "ShellPromptEditor", "ContinuationMarker")
  /\ UNCHANGED <<integration, age, pending, completed>>

-----------------------------------------------------------------------------
(* The rest of what the pane reports.                                      *)

\* Mutant: the bootstrap never times out.
TickWithoutTimeout ==
  /\ age' = IF age < TimeoutFrames THEN age + 1 ELSE age
  /\ last' = [last EXCEPT !.fresh = FALSE]
  /\ UNCHANGED <<mode, integration, pending, completed>>

\* drain starts a frame: the counter moves on, then tick_bootstrap_timeout.
Tick ==
  /\ age' = IF age < TimeoutFrames THEN age + 1 ELSE age
  /\ \/ /\ mode = "Bootstrapping"
        /\ age' = TimeoutFrames
        /\ integration' = "Failed"
        /\ Transition("Degraded", "BootstrapTimeout")
     \/ /\ ~(mode = "Bootstrapping" /\ age' = TimeoutFrames)
        /\ last' = [last EXCEPT !.fresh = FALSE]
        /\ UNCHANGED <<mode, integration>>
  /\ UNCHANGED <<pending, completed>>

ObserveAltScreen(on) ==
  /\ IF on
     THEN TransitionIf(mode \notin {"AlternateScreen", "Dead", "Bootstrapping"},
                       "AlternateScreen", "AlternateScreenEnter")
     ELSE TransitionIf(mode = "AlternateScreen",
                       "RawTerminal", "AlternateScreenExit")
  /\ UNCHANGED <<integration, age, pending, completed>>

ObservePtyExit ==
  /\ mode # "Dead"
  /\ ClosePending("aborted")
  /\ Transition("Dead", "PtyExit")
  /\ UNCHANGED <<integration, age>>

-----------------------------------------------------------------------------
(* Gestures.                                                               *)

SubmitCommand ==
  /\ mode = "ShellPromptEditor"
  /\ Transition("RawTerminal", "EnterSubmitted")
  /\ pending' = IF pending = "none" THEN "unnamed" ELSE pending
  /\ UNCHANGED <<integration, age, completed>>

LeaveEditor(reason) ==
  /\ mode = "ShellPromptEditor"
  /\ Transition("RawTerminal", reason)
  /\ UNCHANGED <<integration, age, pending, completed>>

LeaveEditorCtrlC == LeaveEditor("CtrlCEmptyEditor")

LeaveEditorEsc == LeaveEditor("Esc")

RestartShell ==
  /\ mode \in {"Dead", "Degraded"}
  /\ integration' = "Unknown"
  /\ pending' = "none"
  /\ completed' = "none"
  /\ age' = 0
  /\ Transition("Bootstrapping", "UserRestartedShell")

-----------------------------------------------------------------------------

Observe ==
  \/ \E supported \in BOOLEAN : ObserveIntegrationReady(supported)
  \/ ObserveIntegrationError
  \/ ObservePreexec
  \/ ObserveCommandFinished
  \/ ObserveCommandAborted
  \/ ObservePrecmd
  \/ ObserveContinuation
  \/ \E on \in BOOLEAN : ObserveAltScreen(on)
  \/ ObservePtyExit

Gesture == SubmitCommand \/ LeaveEditorCtrlC \/ LeaveEditorEsc \/ RestartShell

Next == Tick \/ Observe \/ Gesture

\* The app repaints, and so drains every pane, at least every 300 ms
\* (app.rs, `update`): a frame always comes.
Spec == Init /\ [][Next]_vars /\ WF_vars(Tick)

-----------------------------------------------------------------------------
(* Properties.                                                             *)

\* The reason of the last transition fixes the mode it left the pane in, and
\* the editor is only ever closed by a submit from the editor itself: the
\* continuation gate reads the reason alone (shell.rs, `last_transition`).
ReasonFixesMode ==
  /\ mode = "ShellPromptEditor" <=> last.reason \in {"PrecmdMarker", "ContinuationMarker"}
  /\ mode = "AlternateScreen" <=> last.reason = "AlternateScreenEnter"
  /\ mode = "Dead" <=> last.reason = "PtyExit"
  /\ last.reason \in {"EnterSubmitted", "CtrlCEmptyEditor", "Esc"} =>
       mode = "RawTerminal" /\ last.from = "ShellPromptEditor"

\* A shell run that has not yet spoken never gets an editor, and one that has
\* announced a supported protocol is past Bootstrapping; a restart drops the
\* previous run's handshake (shell.rs, `new_no_bootstrap` and `restart_shell`).
HandshakeGatesEditor ==
  /\ integration = "Unknown" => mode # "ShellPromptEditor"
  /\ integration = "Confirmed" => mode # "Bootstrapping"

\* No command is open before the shell has started or after it is gone: the
\* exit closes it and the next run starts without it.
NoCommandWithoutShell == mode \in {"Bootstrapping", "Dead"} => pending = "none"

\* While the pane is still Bootstrapping its run is younger than the timeout,
\* across restarts too: a stale spawn frame would degrade a fresh shell.
BootstrapIsYoung == mode = "Bootstrapping" => age < TimeoutFrames

\* Bootstrapping drops all input and hides all output, so it must end: by the
\* handshake, by its failure or by the timeout (shell.rs, `tick_bootstrap_timeout`).
BootstrapEnds == mode = "Bootstrapping" ~> mode # "Bootstrapping"
=============================================================================
