----------------------- MODULE PromptControllerHistory ----------------------
(***************************************************************************)
(* PromptController with two history variables, to state what the machine  *)
(* owes to decisions taken several transitions ago, and the input gate it  *)
(* implements.  The history variables observe; they enable nothing.        *)
(***************************************************************************)
EXTENDS PromptController

VARIABLES
  choseRaw,    \* the user left the editor by hand and no prompt came since
  degraded     \* this shell run has been declared Degraded

hvars == <<vars, choseRaw, degraded>>

HInit == Init /\ choseRaw = FALSE /\ degraded = FALSE

Remember ==
  /\ choseRaw' = CASE last'.reason \in {"CtrlCEmptyEditor", "Esc"} -> TRUE
                   [] last'.reason \in {"PrecmdMarker", "UserRestartedShell"} -> FALSE
                   [] OTHER -> choseRaw
  /\ degraded' = CASE mode' = "Degraded" -> TRUE
                   [] mode' = "Bootstrapping" -> FALSE
                   [] OTHER -> degraded

HNext == Next /\ Remember

HSpec == HInit /\ [][HNext]_hvars /\ WF_vars(Tick)

\* Whose keyboard it is, mode by mode.
Owner == CASE mode = "Bootstrapping" -> "starting"
           [] mode = "Dead" -> "gone"
           [] mode = "ShellPromptEditor" -> "editor"
           [] OTHER -> "program"

Gate == INSTANCE InputGate WITH owner <- Owner, trusted <- integration = "Confirmed"

-----------------------------------------------------------------------------

\* A user who pressed Esc keeps the raw terminal until the next real prompt:
\* neither a PS2 marker, nor a program that flips the alternate screen, nor a
\* second handshake pulls the editor back (try_promote_to_editor_for_continuation).
RawByChoice == choseRaw => mode # "ShellPromptEditor"

\* What shell.rs says of Degraded: "the editor will never activate for this
\* shell run".
DegradedNeverEdits == degraded => mode # "ShellPromptEditor"

\* The controller implements the input gate: whatever the order of events,
\* the editor takes the keyboard only from the program and only on trust.
ImplementsGate == Gate!GateSpec
=============================================================================
