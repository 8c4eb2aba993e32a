----------------------- MODULE PromptControllerProofs -----------------------
(***************************************************************************)
(* The controller's invariants for every TimeoutFrames, then what it owes  *)
(* to earlier decisions and to the input gate it implements.  Inv is       *)
(* inductive: leaving Bootstrapping at the timeout keeps the age small, and*)
(* the types keep the transitions inside their sets.  The continuation gate*)
(* of RawByChoice reads last.reason, which ReasonFixesMode ties to the     *)
(* mode, so the history invariant HInv rests on Inv.                       *)
(***************************************************************************)
EXTENDS PromptControllerHistory, TLAPS

Records == [from : Modes, reason : Reasons, fresh : BOOLEAN]

\* TypeOK without the clock.
Types ==
  /\ mode \in Modes
  /\ integration \in IntegrationStates
  /\ last \in Records
  /\ pending \in {"none", "unnamed", "named"}
  /\ completed \in {"none", "exited", "aborted"}

\* How modes, reasons, handshake and pending command go together.
Coherence == ReasonFixesMode /\ HandshakeGatesEditor /\ NoCommandWithoutShell

\* The clock's part.
AgeInv == age \in 0..TimeoutFrames /\ BootstrapIsYoung

Inv == Types /\ Coherence /\ AgeInv

-----------------------------------------------------------------------------
(* Inv is inductive: one lemma per kind of step.                           *)

\* What `transition` and a new frame put into last is a transition record.
LEMMA RecordsMade ==
  /\ \A m \in Modes, r \in Reasons :
       [from |-> m, reason |-> r, fresh |-> TRUE] \in Records
  /\ \A l \in Records : [l EXCEPT !.fresh = FALSE] \in Records
  BY DEF Records

\* The initial states of both kinds of pane satisfy the invariant.
LEMMA InitInv == Init => Inv
<1> SUFFICES ASSUME Init PROVE Inv
  OBVIOUS
<1>1. Types
  BY RecordsMade DEF Init, Spawned, Types, Modes, IntegrationStates, Reasons
<1>2. Coherence
  BY DEF Init, Spawned, Coherence, ReasonFixesMode, HandshakeGatesEditor,
         NoCommandWithoutShell
<1>3. AgeInv
  BY TimeoutAssumption DEF Init, Spawned, AgeInv, BootstrapIsYoung
<1>4. QED BY <1>1, <1>2, <1>3 DEF Inv

\* The clock's part: only a frame and a restart touch the age, and a frame
\* that reaches the timeout leaves Bootstrapping.
LEMMA AgeStep == Inv /\ Next => AgeInv'
<1> SUFFICES ASSUME Inv, Next PROVE AgeInv'
  OBVIOUS
<1> USE TimeoutAssumption DEF Inv, AgeInv, BootstrapIsYoung, Transition
<1>1. CASE Tick
  <2>1. age' \in 0..TimeoutFrames
    BY <1>1 DEF Tick
  <2>2. age' # TimeoutFrames \/ mode' # "Bootstrapping"
    BY <1>1 DEF Tick
  <2>3. QED BY <2>1, <2>2
<1>2. CASE Observe
  <2>1. age' = age
    BY <1>2 DEF Observe, ObserveIntegrationReady, ObserveIntegrationError,
                ObservePreexec, ObserveCommandFinished, ObserveCommandAborted,
                ObservePrecmd, ObserveContinuation, ObserveAltScreen, ObservePtyExit
  <2>2. mode' = "Bootstrapping" => mode = "Bootstrapping"
    BY <1>2 DEF ClosePending, MayPromote, MayContinue, Observe, ObserveIntegrationReady, ObserveIntegrationError,
                ObservePreexec, ObserveCommandFinished, ObserveCommandAborted,
                ObservePrecmd, ObserveContinuation, ObserveAltScreen, ObservePtyExit,
                TransitionIf
  <2>3. QED BY <2>1, <2>2
<1>3. CASE Gesture
  <2>1. CASE RestartShell
    BY <2>1 DEF RestartShell
  <2>2. CASE SubmitCommand \/ LeaveEditorCtrlC \/ LeaveEditorEsc
    BY <2>2 DEF SubmitCommand, LeaveEditor, LeaveEditorCtrlC, LeaveEditorEsc
  <2>3. QED BY <1>3, <2>1, <2>2 DEF Gesture
<1>4. QED BY <1>1, <1>2, <1>3 DEF Next

\* Every step of the machine keeps the types.
LEMMA TypesStep == Inv /\ Next => Types'
<1> SUFFICES ASSUME Inv, Next PROVE Types'
  OBVIOUS
<1> USE RecordsMade
    DEF Inv, Types, Modes, IntegrationStates, Reasons, Transition, TransitionIf
<1>1. CASE Tick
  BY <1>1 DEF Tick
<1>2. CASE Observe
  BY <1>2 DEF Observe, ObserveIntegrationReady, ObserveIntegrationError,
              ObservePreexec, ObserveCommandFinished, ObserveCommandAborted,
              ObservePrecmd, ObserveContinuation, ObserveAltScreen, ObservePtyExit,
              ClosePending
<1>3. CASE Gesture
  BY <1>3 DEF Gesture, SubmitCommand, LeaveEditor, LeaveEditorCtrlC,
              LeaveEditorEsc, RestartShell
<1>4. QED BY <1>1, <1>2, <1>3 DEF Next

\* A new frame keeps where the last transition came from and why, unless it
\* is the one that times the bootstrap out.
LEMMA TickKeepsReason ==
  ASSUME Types, Tick
  PROVE  \/ mode' = mode /\ last'.reason = last.reason /\ last'.from = last.from
         \/ mode' = "Degraded" /\ last'.reason = "BootstrapTimeout"
<1>1. CASE Transition("Degraded", "BootstrapTimeout")
  BY <1>1 DEF Transition
<1>2. CASE last' = [last EXCEPT !.fresh = FALSE] /\ mode' = mode
  BY <1>2 DEF Types, Records
<1>3. QED BY <1>1, <1>2 DEF Tick

\* Every step of the machine keeps modes, reasons and commands coherent.
LEMMA CoherenceStep == Inv /\ Next => Coherence'
<1> SUFFICES ASSUME Inv, Next PROVE Coherence'
  OBVIOUS
<1> USE DEF Inv, Coherence, ReasonFixesMode, HandshakeGatesEditor, NoCommandWithoutShell,
            Transition, TransitionIf
<1>1. CASE Tick BY <1>1, TickKeepsReason DEF Tick
<1>2. CASE Observe
  <2>1. ASSUME NEW supported \in BOOLEAN, ObserveIntegrationReady(supported)
        PROVE  Coherence'
    <3>1. CASE supported  BY <2>1, <3>1 DEF ObserveIntegrationReady
    <3>2. CASE ~supported BY <2>1, <3>2 DEF ObserveIntegrationReady
    <3>3. QED BY <3>1, <3>2
  <2>2. CASE ObserveIntegrationError BY <2>2 DEF ObserveIntegrationError
  <2>3. CASE ObservePreexec          BY <2>3 DEF ObservePreexec
  <2>4. CASE ObserveCommandFinished  BY <2>4 DEF ObserveCommandFinished, ClosePending
  <2>5. CASE ObserveCommandAborted   BY <2>5 DEF ObserveCommandAborted, ClosePending
  <2>6. CASE ObservePrecmd           BY <2>6 DEF ObservePrecmd, MayPromote
  <2>7. CASE ObserveContinuation     BY <2>7 DEF ObserveContinuation, MayContinue
  <2>8. ASSUME NEW on \in BOOLEAN, ObserveAltScreen(on)
        PROVE  Coherence'
    <3>1. CASE on  BY <2>8, <3>1 DEF ObserveAltScreen
    <3>2. CASE ~on BY <2>8, <3>2 DEF ObserveAltScreen
    <3>3. QED BY <3>1, <3>2
  <2>9. CASE ObservePtyExit          BY <2>9 DEF ObservePtyExit, ClosePending
  <2>10. QED
    BY <1>2, <2>1, <2>2, <2>3, <2>4, <2>5, <2>6, <2>7, <2>8, <2>9 DEF Observe
<1>3. CASE Gesture
  <2>1. CASE SubmitCommand    BY <2>1 DEF SubmitCommand
  <2>2. CASE LeaveEditorCtrlC BY <2>2 DEF LeaveEditorCtrlC, LeaveEditor
  <2>3. CASE LeaveEditorEsc   BY <2>3 DEF LeaveEditorEsc, LeaveEditor
  <2>4. CASE RestartShell     BY <2>4 DEF RestartShell
  <2>5. QED BY <1>3, <2>1, <2>2, <2>3, <2>4 DEF Gesture
<1>4. QED BY <1>1, <1>2, <1>3 DEF Next

\* A step of the machine, or one that changes nothing, preserves it.
LEMMA StepInv == Inv /\ [Next]_vars => Inv'
<1> SUFFICES ASSUME Inv, [Next]_vars PROVE Inv'
  OBVIOUS
<1>1. CASE UNCHANGED vars
  BY <1>1 DEF vars, Inv, Types, Coherence, AgeInv, ReasonFixesMode, HandshakeGatesEditor,
              NoCommandWithoutShell, BootstrapIsYoung
<1>2. CASE Next
  BY <1>2, TypesStep, CoherenceStep, AgeStep DEF Inv
<1>3. QED BY <1>1, <1>2

\* The inductive invariant in the words of the properties.
LEMMA InvMeans ==
  Inv => TypeOK /\ ReasonFixesMode /\ HandshakeGatesEditor
           /\ NoCommandWithoutShell /\ BootstrapIsYoung
  BY DEF Inv, Types, Coherence, AgeInv, Records, TypeOK

\* The controller's own invariants hold in every behaviour, whatever the
\* order of lifecycle events, alt-screen edges, exits, frames and gestures.
THEOREM ControllerSafety ==
  Spec => [](TypeOK /\ ReasonFixesMode /\ HandshakeGatesEditor
               /\ NoCommandWithoutShell /\ BootstrapIsYoung)
<1>1. Spec => []Inv
  BY InitInv, StepInv, PTL DEF Spec
<1>2. QED BY <1>1, InvMeans, PTL

-----------------------------------------------------------------------------
(* The history variables.                                                  *)

\* What RawByChoice needs to survive a step: while the user's choice stands
\* the last transition is not a submit, so a PS2 marker cannot reopen.
HInv ==
  /\ Inv
  /\ choseRaw \in BOOLEAN
  /\ choseRaw => /\ mode # "ShellPromptEditor"
                 /\ last.reason # "EnterSubmitted"

-----------------------------------------------------------------------------
(* The history invariant.                                                  *)

\* One step keeps the user's choice of raw mode until a prompt or a restart.
LEMMA HStepInv == HInv /\ [HNext]_hvars => HInv'
<1> SUFFICES ASSUME HInv, [HNext]_hvars PROVE HInv'
  OBVIOUS
<1>1. Inv /\ Inv'
  BY StepInv DEF HInv, HNext, hvars
<1>2. CASE UNCHANGED hvars
  BY <1>1, <1>2 DEF HInv, hvars, vars
<1>3. CASE HNext
  <2>1. choseRaw' \in BOOLEAN
    BY <1>3 DEF HNext, Remember, HInv
  <2>2. ASSUME choseRaw'
        PROVE  mode' # "ShellPromptEditor" /\ last'.reason # "EnterSubmitted"
    <3>1. CASE last'.reason \in {"CtrlCEmptyEditor", "Esc"}
      BY <1>1, <3>1 DEF Inv, Coherence, ReasonFixesMode
    <3>2. CASE last'.reason \notin {"CtrlCEmptyEditor", "Esc"}
      <4>1. choseRaw /\ last'.reason # "PrecmdMarker"
        BY <1>3, <2>2, <3>2 DEF HNext, Remember
      <4>2. mode # "ShellPromptEditor" /\ last.reason # "EnterSubmitted"
        BY <4>1 DEF HInv
      <4>3. \/ last'.reason = last.reason
            \/ last'.reason \notin {"EnterSubmitted", "ContinuationMarker"}
        <5>1. CASE Tick
          BY <1>1, <5>1, TickKeepsReason DEF Inv
        <5>2. CASE Observe
          BY <4>2, <5>2
             DEF Observe, ObserveIntegrationReady, ObserveIntegrationError,
                 ObservePreexec, ObserveCommandFinished, ObserveCommandAborted,
                 ObservePrecmd, ObserveContinuation, MayContinue, ObserveAltScreen,
                 ObservePtyExit, Transition, TransitionIf
        <5>3. CASE Gesture
          BY <4>2, <5>3 DEF Gesture, SubmitCommand, LeaveEditor, LeaveEditorCtrlC,
                            LeaveEditorEsc, RestartShell, Transition
        <5>4. QED BY <1>3, <5>1, <5>2, <5>3 DEF HNext, Next
      <4>4. last.reason # "ContinuationMarker"
        BY <1>1, <4>2 DEF Inv, Coherence, ReasonFixesMode
      <4>5. QED BY <1>1, <4>1, <4>2, <4>3, <4>4 DEF Inv, Coherence, ReasonFixesMode
    <3>3. QED BY <3>1, <3>2
  <2>3. QED BY <1>1, <2>1, <2>2 DEF HInv
<1>4. QED BY <1>2, <1>3

\* A user who left the editor by hand keeps the raw terminal until the shell
\* shows its next prompt, for every order of events.
THEOREM RawByChoiceHolds == HSpec => []RawByChoice
<1>1. HInit => HInv
  BY InitInv DEF HInit, HInv
<1>2. HInv => RawByChoice
  BY DEF HInv, RawByChoice
<1>3. QED BY <1>1, <1>2, HStepInv, PTL DEF HSpec

-----------------------------------------------------------------------------
(* The controller implements the input gate.                               *)

\* Every step of the machine is a step of the gate, or changes neither the
\* owner of the keyboard nor the trust.
LEMMA StepIsGateStep == Inv /\ [Next]_vars => [Gate!GateNext]_(Gate!gate)
<1> SUFFICES ASSUME Inv, [Next]_vars PROVE [Gate!GateNext]_(Gate!gate)
  OBVIOUS
<1> USE DEF Gate!gate, Gate!GateNext, Owner
<1>1. CASE UNCHANGED <<mode, integration>>
  BY <1>1
<1>2. CASE Tick
  <2>1. CASE mode = "Bootstrapping"
    BY <1>2, <2>1 DEF Tick, Transition, Gate!Distrust
  <2>2. CASE mode # "Bootstrapping"
    BY <1>1, <1>2, <2>2 DEF Tick
  <2>3. QED BY <2>1, <2>2
<1>3. CASE Observe
  <2> USE DEF Transition, TransitionIf
  <2>1. ASSUME NEW supported \in BOOLEAN, ObserveIntegrationReady(supported)
        PROVE  [Gate!GateNext]_(Gate!gate)
    <3>1. CASE supported
      BY <2>1, <3>1 DEF ObserveIntegrationReady, Gate!Announce
    <3>2. CASE ~supported
      BY <2>1, <3>2 DEF ObserveIntegrationReady, Gate!Distrust
    <3>3. QED BY <3>1, <3>2
  <2>2. CASE ObserveIntegrationError
    BY <2>2 DEF ObserveIntegrationError, Gate!Distrust
  <2>3. CASE ObservePreexec \/ ObserveCommandFinished \/ ObserveCommandAborted
    BY <1>1, <2>3 DEF ObservePreexec, ObserveCommandFinished, ObserveCommandAborted
  <2>4. CASE ObservePrecmd
    BY <2>4 DEF ObservePrecmd, MayPromote, Gate!Open
  <2>5. CASE ObserveContinuation
    BY <2>5 DEF ObserveContinuation, MayContinue, Gate!Open
  <2>6. ASSUME NEW on \in BOOLEAN, ObserveAltScreen(on)
        PROVE  [Gate!GateNext]_(Gate!gate)
    BY <2>6 DEF ObserveAltScreen, Gate!Close, Inv, Types, Modes
  <2>7. CASE ObservePtyExit
    BY <2>7 DEF ObservePtyExit, Gate!Exit
  <2>8. QED BY <1>3, <2>1, <2>2, <2>3, <2>4, <2>5, <2>6, <2>7 DEF Observe
<1>4. CASE Gesture
  <2>1. CASE SubmitCommand \/ LeaveEditorCtrlC \/ LeaveEditorEsc
    BY <2>1 DEF SubmitCommand, LeaveEditor, LeaveEditorCtrlC, LeaveEditorEsc,
                Transition, Gate!Close
  <2>2. CASE RestartShell
    BY <2>2 DEF RestartShell, Transition, Gate!Restart
  <2>3. QED BY <1>4, <2>1, <2>2 DEF Gesture
<1>5. QED BY <1>1, <1>2, <1>3, <1>4 DEF Next, vars

\* For every timeout and every order of events the controller behaves as the
\* input gate: the editor opens only from the program and only on trust.
THEOREM ControllerImplementsGate == HSpec => ImplementsGate
<1>1. HInit => Inv /\ Gate!GateInit
  BY InitInv DEF HInit, Init, Spawned, Gate!GateInit, Owner
<1>2. Inv /\ [HNext]_hvars => Inv' /\ [Gate!GateNext]_(Gate!gate)
  BY StepInv, StepIsGateStep DEF HNext, hvars
<1>3. QED BY <1>1, <1>2, PTL DEF HSpec, ImplementsGate, Gate!GateSpec
=============================================================================
