----------------------------- MODULE InputGate ------------------------------
(***************************************************************************)
(* What a pane promises about its keyboard (spec/05-shell-integration.md), *)
(* free of modes and frames: one owner at a time, and the editor takes the *)
(* keyboard only from the program, only when the shell asks for it, and    *)
(* only while that shell run is trusted.  PromptController implements it.  *)
(***************************************************************************)

VARIABLES
  owner,     \* who receives the keys
  trusted    \* has this shell run announced a protocol we speak?

gate == <<owner, trusted>>

\* Nobody receives keys while the shell is "starting" or once it is "gone".
Owners == {"starting", "gone", "program", "editor"}

GateTypeOK == owner \in Owners /\ trusted \in BOOLEAN

GateInit == owner \in {"starting", "program"} /\ trusted = FALSE

\* The shell proves itself: a pane that was starting belongs to its program.
Announce ==
  /\ trusted' = TRUE
  /\ owner' = IF owner = "starting" THEN "program" ELSE owner

\* Trust is lost or never came: that never hands the keyboard to the editor.
Distrust ==
  /\ trusted' = FALSE
  /\ owner' \in IF owner = "gone" THEN {"gone"} ELSE {owner, "program"}

Open == owner = "program" /\ trusted /\ owner' = "editor" /\ UNCHANGED trusted

Close == owner = "editor" /\ owner' = "program" /\ UNCHANGED trusted

Exit == owner # "gone" /\ owner' = "gone" /\ UNCHANGED trusted

\* A new shell run starts without the previous run's trust.
Restart == owner \in {"gone", "program"} /\ owner' = "starting" /\ trusted' = FALSE

GateNext == Announce \/ Distrust \/ Open \/ Close \/ Exit \/ Restart

GateSpec == GateInit /\ [][GateNext]_gate
=============================================================================
