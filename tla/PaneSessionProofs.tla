-------------------------- MODULE PaneSessionProofs -------------------------
(***************************************************************************)
(* What holds of every pane, for every choice of timeout, shells, moves,   *)
(* bounds and restored blocks.                                             *)
(*                                                                         *)
(* The ids of its blocks: a step of the pane keeps the tail, seals it or   *)
(* clears the stack (ShellKeepsStack, FrameOnStack, UserOnStack), and each *)
(* of the three keeps the ids increasing (the lemmas before them).         *)
(*                                                                         *)
(* Its controller: the pane drives it only by the controller's own steps,  *)
(* so what is proved of the controller holds in every pane.                *)
(*                                                                         *)
(* The alternate screen: between frames the mode agrees with the terminal. *)
(* This needs the first frames: until the bootstrap is over nobody writes  *)
(* to the shell, so nothing runs and the screen stays as it was (Unspoken).*)
(* From then on every edge the pane latches is one the controller has been *)
(* told of (Latched).                                                      *)
(*                                                                         *)
(* The items ahead, written by the shell and not yet handled by the pane.  *)
(* A step moves them in one of three ways: the shell adds at the end, an   *)
(* event is handed out at the front, a frame's feed drops what is no event *)
(* (WriteAhead, HandAhead, DrainAhead).  A running program has its start   *)
(* among them or its tail up, so the editor never covers it (ProgramShows).*)
(***************************************************************************)
EXTENDS PaneSession, SublistProofs

\* The part of the stack's shape that ids depend on.
StackShape ==
  /\ \E S : sealed \in Seq(S)
  /\ \A i \in DOMAIN sealed : sealed[i].id \in Nat
  /\ "id" \in DOMAIN tail
  /\ tail.id \in Nat
  /\ nextId \in Nat

StackInv == StackShape /\ IdsIncrease

\* The step edits the tail at most, and the tail keeps its id.
TailKept ==
  /\ UNCHANGED <<sealed, nextId>>
  /\ "id" \in DOMAIN tail'
  /\ tail'.id = tail.id

-----------------------------------------------------------------------------

\* What appending does to a sequence, whatever its elements.
LEMMA AppendAny ==
  ASSUME NEW S, NEW s \in Seq(S), NEW x
  PROVE  /\ Append(s, x) \in Seq(S \cup {x})
         /\ Len(Append(s, x)) = Len(s) + 1
         /\ DOMAIN Append(s, x) = 1..Len(s) + 1
         /\ \A i \in DOMAIN s : Append(s, x)[i] = s[i]
         /\ Append(s, x)[Len(s) + 1] = x
<1>1. s \in Seq(S \cup {x}) /\ x \in S \cup {x}
  OBVIOUS
<1>2. QED BY <1>1

\* Sealing a tail whose id is above the sealed ones keeps the order.
LEMMA SealKeepsIds ==
  ASSUME StackInv, NEW command, Blk!SealTail(command)
  PROVE  StackInv'
<1> DEFINE block == [id |-> tail.id, command |-> command, out |-> Blk!Snapshot]
<1>1. PICK S : sealed \in Seq(S)
  BY DEF StackInv, StackShape
<1>2. sealed' = Append(sealed, block) /\ nextId' = nextId + 1
  BY DEF Blk!SealTail
<1>3. tail' = Blk!Prompt(nextId, <<"">>)
  BY DEF Blk!SealTail
<1>4. "id" \in DOMAIN tail' /\ tail'.id = nextId
  BY <1>3 DEF Blk!Prompt
<1>5. /\ sealed' \in Seq(S \cup {block})
      /\ DOMAIN sealed' = 1..Len(sealed) + 1
      /\ \A i \in DOMAIN sealed : sealed'[i] = sealed[i]
      /\ sealed'[Len(sealed) + 1] = block
  <2> HIDE DEF block
  <2>1. QED BY <1>1, <1>2, AppendAny
<1>6. DOMAIN sealed = 1..Len(sealed) /\ Len(sealed) \in Nat
  BY <1>1
<1>7. sealed'[Len(sealed) + 1].id = tail.id
  BY <1>5
<1>8. StackShape'
  <2>1. \E T : sealed' \in Seq(T)
    BY <1>5
  <2>2. \A i \in DOMAIN sealed' : sealed'[i].id \in Nat
    <3> SUFFICES ASSUME NEW i \in DOMAIN sealed' PROVE sealed'[i].id \in Nat
      OBVIOUS
    <3>1. CASE i \in DOMAIN sealed
      BY <3>1, <1>5 DEF StackInv, StackShape
    <3>2. CASE i = Len(sealed) + 1
      BY <3>2, <1>7 DEF StackInv, StackShape
    <3>3. QED BY <3>1, <3>2, <1>5, <1>6
  <2>3. QED BY <2>1, <2>2, <1>2, <1>4 DEF StackInv, StackShape
<1>9. IdsIncrease'
  <2>1. \A i, j \in DOMAIN sealed' : i < j => sealed'[i].id < sealed'[j].id
    <3> SUFFICES ASSUME NEW i \in DOMAIN sealed', NEW j \in DOMAIN sealed', i < j
                 PROVE  sealed'[i].id < sealed'[j].id
      OBVIOUS
    <3>1. i \in DOMAIN sealed
      BY <1>5, <1>6
    <3>2. CASE j \in DOMAIN sealed
      BY <3>1, <3>2, <1>5 DEF StackInv, IdsIncrease, Blk!IdsIncrease
    <3>3. CASE j = Len(sealed) + 1
      BY <3>1, <3>3, <1>5, <1>7 DEF StackInv, IdsIncrease, Blk!IdsIncrease
    <3>4. QED BY <3>2, <3>3, <1>5, <1>6
  <2>2. \A i \in DOMAIN sealed' : sealed'[i].id < tail'.id
    <3> SUFFICES ASSUME NEW i \in DOMAIN sealed' PROVE sealed'[i].id < tail'.id
      OBVIOUS
    <3>1. CASE i \in DOMAIN sealed
      BY <3>1, <1>4, <1>5 DEF StackInv, StackShape, IdsIncrease, Blk!IdsIncrease
    <3>2. CASE i = Len(sealed) + 1
      BY <3>2, <1>4, <1>7 DEF StackInv, IdsIncrease, Blk!IdsIncrease
    <3>3. QED BY <3>1, <3>2, <1>5, <1>6
  <2>3. tail'.id < nextId'
    BY <1>2, <1>4 DEF StackInv, StackShape
  <2>4. QED BY <2>1, <2>2, <2>3 DEF IdsIncrease, Blk!IdsIncrease
<1>10. QED BY <1>8, <1>9 DEF StackInv

\* A step that leaves the ids alone, and a clear, keep the order too.
LEMMA KeepKeepsIds == StackInv /\ TailKept => StackInv'
<1> SUFFICES ASSUME StackInv, TailKept PROVE StackInv'
  OBVIOUS
<1>1. sealed' = sealed /\ nextId' = nextId /\ tail'.id = tail.id /\ "id" \in DOMAIN tail'
  BY DEF TailKept
<1>2. StackShape'
  BY <1>1 DEF StackInv, StackShape
<1>3. IdsIncrease'
  BY <1>1 DEF StackInv, IdsIncrease, Blk!IdsIncrease
<1>4. QED BY <1>2, <1>3 DEF StackInv

\* A clear gives no id again.
LEMMA ClearKeepsIds == StackInv /\ Blk!ClearScrollback => StackInv'
<1> SUFFICES ASSUME StackInv, Blk!ClearScrollback PROVE StackInv'
  OBVIOUS
<1>1. sealed' = <<>> /\ nextId' = nextId /\ tail' = tail
  BY DEF Blk!ClearScrollback
<1>2. <<>> \in Seq({}) /\ DOMAIN <<>> = {}
  OBVIOUS
<1>3. StackShape'
  BY <1>1, <1>2 DEF StackInv, StackShape
<1>4. IdsIncrease'
  BY <1>1, <1>2 DEF StackInv, IdsIncrease, Blk!IdsIncrease
<1>5. QED BY <1>3, <1>4 DEF StackInv

-----------------------------------------------------------------------------
(* What a step of the pane does to the stack.                              *)

\* Writing into the editor and starting a command keep the tail's id.
LEMMA TailOperations ==
  ASSUME StackShape
  PROVE  /\ UNCHANGED blkVars => TailKept
         /\ \A text : Blk!SetEditor(text) => TailKept
         /\ \A command : Blk!StartRunning(command) => TailKept
<1>1. UNCHANGED blkVars => TailKept
  BY DEF blkVars, TailKept, StackShape
<1>2. ASSUME NEW text, Blk!SetEditor(text) PROVE TailKept
  <2>1. tail' = [tail EXCEPT !.text = text] /\ UNCHANGED <<sealed, nextId>>
    BY <1>2 DEF Blk!SetEditor
  <2>2. "id" \in DOMAIN tail' /\ tail'.id = tail.id
    BY <2>1 DEF StackShape
  <2>3. QED BY <2>1, <2>2 DEF TailKept
<1>3. ASSUME NEW command, Blk!StartRunning(command) PROVE TailKept
  <2>1. UNCHANGED <<sealed, nextId>>
    BY <1>3 DEF Blk!StartRunning
  <2>2. CASE tail.kind = "Prompt"
    BY <1>3, <2>1, <2>2 DEF Blk!StartRunning, Blk!Running, TailKept
  <2>3. CASE tail.kind # "Prompt"
    BY <1>3, <2>1, <2>3 DEF Blk!StartRunning, TailKept, StackShape
  <2>4. QED BY <2>2, <2>3
<1>4. QED BY <1>1, <1>2, <1>3

\* The shell leaves the stack alone.
LEMMA ShellKeepsStack == ShellNext => UNCHANGED blkVars
<1>1. ShellNext => ShellStep
  BY DEF ShellNext, Boot, BootFails, ReadLine, ReadText, ReadCompletion,
         ReadInterrupt, ProgramSays, ProgramScreen, Finish, ShellExits
<1>2. QED BY <1>1 DEF ShellStep

\* Only two events of a frame seal the tail.
LEMMA FrameOnStack ==
  ASSUME StackShape, FrameNext
  PROVE  TailKept \/ \E command : Blk!SealTail(command)
<1>1. CASE DrainSome
  <2>1. PICK n : Drain(n)
    BY <1>1 DEF DrainSome
  <2>2. UNCHANGED <<sealed, tail, nextId>>
    BY <2>1 DEF Drain, Feed
  <2>3. QED BY <2>2 DEF TailKept, StackShape
<1>2. CASE SyncAlt \/ OnError \/ OnPrecmd \/ OnCompletion \/ OnPtyExit \/ EndDrain \/ ClosePane
  <2>1. UNCHANGED blkVars
    BY <1>2 DEF SyncAlt, OnError, OnPrecmd, OnCompletion, OnPtyExit, EndDrain, ClosePane
  <2>2. QED BY <2>1, TailOperations
<1>3. CASE RecoverAlt
  BY <1>3 DEF RecoverAlt, TailKept, StackShape
<1>4. CASE OnReady
  <2>1. Blk!SealPreCommandOutput
    BY <1>4 DEF OnReady
  <2>2. UNCHANGED blkVars \/ \E command : Blk!SealTail(command)
    BY <2>1 DEF Blk!SealPreCommandOutput, Blk!blockVars, blkVars
  <2>3. QED BY <2>2, TailOperations
<1>5. CASE OnPreexec
  BY <1>5, TailOperations DEF OnPreexec
<1>6. CASE OnCommandFinished
  <2>1. Blk!SealRunning
    BY <1>6 DEF OnCommandFinished
  <2>2. UNCHANGED blkVars \/ \E command : Blk!SealTail(command)
    BY <2>1 DEF Blk!SealRunning, Blk!blockVars, blkVars
  <2>3. QED BY <2>2, TailOperations
<1>7. CASE OnContinuation
  BY <1>7, TailOperations DEF OnContinuation
<1>8. QED BY <1>1, <1>2, <1>3, <1>4, <1>5, <1>6, <1>7 DEF FrameNext

\* Gestures write into the editor, and Cmd+K clears.
LEMMA UserOnStack ==
  ASSUME StackShape, UserNext
  PROVE  TailKept \/ Blk!ClearScrollback
<1>1. CASE \E line \in {"more", "done"} : Type(line)
  BY <1>1, TailOperations DEF Type
<1>2. CASE ClearEditor \/ Submit \/ AbortContinuation
  BY <1>2, TailOperations DEF ClearEditor, Submit, AbortContinuation
<1>3. CASE \/ \E line \in {"more", "done"} : TypeRaw(line)
          \/ SubmitHeals \/ RequestCompletion \/ InterruptProgram
  <2>1. UNCHANGED blkVars
    BY <1>3 DEF TypeRaw, SubmitHeals, RequestCompletion, InterruptProgram
  <2>2. QED BY <2>1, TailOperations
<1>4. CASE ClearScrollback
  BY <1>4 DEF ClearScrollback
<1>5. QED BY <1>1, <1>2, <1>3, <1>4 DEF UserNext

-----------------------------------------------------------------------------

\* A fresh pane and a restored one start with increasing ids.
LEMMA StackInit == ASSUME Init PROVE StackInv
<1>1. PICK n \in 0..Restored : Blk!Init(n)
  BY DEF Init
<1>2. n \in Nat
  BY BoundAssumption
<1> DEFINE block(i) == [id |-> i - 1, command |-> [serial |-> 0, text |-> <<>>], out |-> <<>>]
<1>3. sealed = [i \in 1..n |-> block(i)] /\ nextId = n + 1
  BY <1>1 DEF Blk!Init
<1>4. "id" \in DOMAIN tail /\ tail.id = n
  BY <1>1 DEF Blk!Init, Blk!Prompt
<1>5. \A i \in 1..n : block(i).id = i - 1
  OBVIOUS
<1>6. sealed \in Seq({block(i) : i \in 1..n}) /\ DOMAIN sealed = 1..n
  <2> DEFINE blocks == {block(i) : i \in 1..n}
  <2>1. sealed \in [1..n -> blocks]
    BY <1>3
  <2> HIDE DEF blocks
  <2>2. sealed \in Seq(blocks)
    BY <1>2, <2>1
  <2>3. QED BY <1>3, <2>2 DEF blocks
<1>7. \A i \in DOMAIN sealed : sealed[i].id = i - 1
  BY <1>3, <1>5, <1>6
<1>8. StackShape
  <2>1. \A i \in DOMAIN sealed : sealed[i].id \in Nat
    BY <1>2, <1>6, <1>7
  <2>2. \E S : sealed \in Seq(S)
    BY <1>6
  <2>3. nextId \in Nat /\ tail.id \in Nat
    BY <1>2, <1>3, <1>4
  <2>4. QED BY <2>1, <2>2, <2>3, <1>4 DEF StackShape
<1>9. IdsIncrease
  BY <1>2, <1>3, <1>4, <1>6, <1>7 DEF IdsIncrease, Blk!IdsIncrease
<1>10. QED BY <1>8, <1>9 DEF StackInv

\* The stack keeps its shape and its order.
LEMMA StackInvHolds == Spec => []StackInv
<1>1. Init => StackInv
  BY StackInit
<1>2. StackInv /\ [Next]_vars => StackInv'
  <2> SUFFICES ASSUME StackInv, [Next]_vars PROVE StackInv'
    OBVIOUS
  <2> USE DEF StackInv
  <2>1. CASE ShellNext
    BY <2>1, ShellKeepsStack, TailOperations, KeepKeepsIds
  <2>2. CASE FrameNext
    BY <2>2, FrameOnStack, KeepKeepsIds, SealKeepsIds
  <2>3. CASE UserNext
    BY <2>3, UserOnStack, KeepKeepsIds, ClearKeepsIds
  <2>4. CASE UNCHANGED vars
    BY <2>4, TailOperations, KeepKeepsIds DEF vars
  <2>5. QED BY <2>1, <2>2, <2>3, <2>4 DEF Next
<1>3. QED BY <1>1, <1>2, PTL DEF Spec

\* The ids of a pane's blocks increase, restored blocks below live ones, in
\* every run, whatever the shell, the program and the user do.
THEOREM SessionIdsIncrease == Spec => []IdsIncrease
<1>1. StackInv => IdsIncrease
  BY DEF StackInv
<1>2. Spec => []StackInv
  BY StackInvHolds
<1>3. QED BY <1>1, <1>2, PTL

-----------------------------------------------------------------------------
(* The pane steps its controller.                                          *)

Safe == INSTANCE PromptControllerProofs WITH choseRaw <- FALSE, degraded <- FALSE

\* Every call a pane makes is a step of the controller.
LEMMA CallsAreSteps ==
  /\ Ctl!Tick => Safe!Next
  /\ \A on \in BOOLEAN : Ctl!ObserveAltScreen(on) => Safe!Next
  /\ Ctl!ObserveIntegrationReady(TRUE) => Safe!Next
  /\ Ctl!ObserveIntegrationError => Safe!Next
  /\ Ctl!ObservePreexec => Safe!Next
  /\ Ctl!ObserveCommandFinished => Safe!Next
  /\ Ctl!ObservePrecmd => Safe!Next
  /\ Ctl!ObserveContinuation => Safe!Next
  /\ Ctl!ObservePtyExit => Safe!Next
  /\ Ctl!SubmitCommand => Safe!Next
<1> USE DEF Ctl!Transition, Safe!Transition, Ctl!TransitionIf, Safe!TransitionIf,
            Ctl!ClosePending, Safe!ClosePending
<1>1. Ctl!Tick => Safe!Tick
  BY DEF Ctl!Tick, Safe!Tick
<1>2. \A on \in BOOLEAN : Ctl!ObserveAltScreen(on) => Safe!ObserveAltScreen(on)
  BY DEF Ctl!ObserveAltScreen, Safe!ObserveAltScreen
<1>3. Ctl!ObserveIntegrationReady(TRUE) => Safe!ObserveIntegrationReady(TRUE)
  BY DEF Ctl!ObserveIntegrationReady, Safe!ObserveIntegrationReady
<1>4. Ctl!ObserveIntegrationError => Safe!ObserveIntegrationError
  BY DEF Ctl!ObserveIntegrationError, Safe!ObserveIntegrationError
<1>5. Ctl!ObservePreexec => Safe!ObservePreexec
  BY DEF Ctl!ObservePreexec, Safe!ObservePreexec
<1>6. Ctl!ObserveCommandFinished => Safe!ObserveCommandFinished
  BY DEF Ctl!ObserveCommandFinished, Safe!ObserveCommandFinished
<1>7. Ctl!ObservePrecmd => Safe!ObservePrecmd
  BY DEF Ctl!ObservePrecmd, Safe!ObservePrecmd, Ctl!MayPromote, Safe!MayPromote
<1>8. Ctl!ObserveContinuation => Safe!ObserveContinuation
  BY DEF Ctl!ObserveContinuation, Safe!ObserveContinuation, Ctl!MayContinue, Safe!MayContinue
<1>9. Ctl!ObservePtyExit => Safe!ObservePtyExit
  BY DEF Ctl!ObservePtyExit, Safe!ObservePtyExit
<1>10. Ctl!SubmitCommand => Safe!SubmitCommand
  BY DEF Ctl!SubmitCommand, Safe!SubmitCommand
<1>11. QED
  BY <1>1, <1>2, <1>3, <1>4, <1>5, <1>6, <1>7, <1>8, <1>9, <1>10
     DEF Safe!Next, Safe!Observe, Safe!Gesture

\* The edge of the screen is told as one of the two calls.
LEMMA EdgeIsACall == Ctl!ObserveAltScreen(alt) => \E on \in BOOLEAN : Ctl!ObserveAltScreen(on)
<1>1. CASE alt  BY <1>1 DEF Ctl!ObserveAltScreen
<1>2. CASE ~alt BY <1>2 DEF Ctl!ObserveAltScreen
<1>3. QED BY <1>1, <1>2

\* A step of the pane steps the controller or leaves it alone.
LEMMA PaneStepsController == [Next]_vars => [Safe!Next]_Safe!vars
<1> SUFFICES ASSUME [Next]_vars PROVE Safe!Next \/ UNCHANGED ctlVars
  BY DEF ctlVars, Safe!vars
<1>1. CASE ShellNext
  <2>1. ShellStep
    BY <1>1 DEF ShellNext, Boot, BootFails, ReadLine, ReadText, ReadCompletion,
                ReadInterrupt, ProgramSays, ProgramScreen, Finish, ShellExits
  <2>2. QED BY <2>1 DEF ShellStep
<1>2. CASE FrameNext
  <2>1. CASE DrainSome   BY <2>1, CallsAreSteps DEF DrainSome, Drain
  <2>2. CASE SyncAlt     BY <2>2, CallsAreSteps, EdgeIsACall DEF SyncAlt
  <2>3. CASE RecoverAlt  BY <2>3, CallsAreSteps DEF RecoverAlt
  <2>4. CASE OnReady     BY <2>4, CallsAreSteps DEF OnReady
  <2>5. CASE OnError     BY <2>5, CallsAreSteps DEF OnError
  <2>6. CASE OnPreexec   BY <2>6, CallsAreSteps DEF OnPreexec
  <2>7. CASE OnCommandFinished BY <2>7, CallsAreSteps DEF OnCommandFinished
  <2>8. CASE OnPrecmd    BY <2>8, CallsAreSteps DEF OnPrecmd
  <2>9. CASE OnContinuation BY <2>9, CallsAreSteps DEF OnContinuation
  <2>10. CASE OnPtyExit  BY <2>10, CallsAreSteps DEF OnPtyExit
  <2>11. CASE OnCompletion \/ EndDrain \/ ClosePane
    BY <2>11 DEF OnCompletion, EndDrain, ClosePane
  <2>12. QED
    BY <1>2, <2>1, <2>2, <2>3, <2>4, <2>5, <2>6, <2>7, <2>8, <2>9, <2>10, <2>11 DEF FrameNext
<1>3. CASE UserNext
  <2>1. CASE Submit BY <2>1, CallsAreSteps DEF Submit
  <2>2. CASE UserNext /\ ~Submit
    BY <2>2 DEF UserNext, Type, TypeRaw, ClearEditor, SubmitHeals, AbortContinuation,
                RequestCompletion, InterruptProgram, ClearScrollback
  <2>3. QED BY <1>3, <2>1, <2>2
<1>4. CASE UNCHANGED vars
  BY <1>4 DEF vars
<1>5. QED BY <1>1, <1>2, <1>3, <1>4 DEF Next

\* In every pane, whatever its shell, its program and its user do: modes and
\* reasons agree, only a shell that has spoken gets an editor, no command is
\* open without a shell, and no bootstrap outlives the timeout.
THEOREM PaneControllerIsSafe ==
  Spec => [](/\ Ctl!TypeOK /\ Ctl!ReasonFixesMode /\ Ctl!HandshakeGatesEditor
             /\ Ctl!NoCommandWithoutShell /\ Ctl!BootstrapIsYoung)
<1>1. Init => Safe!Inv
  <2>1. Init => Safe!Init
    BY DEF Init, Ctl!Spawned, Safe!Init, Safe!Spawned
  <2>2. QED BY <2>1, Safe!InitInv, FramesAssumption
<1>2. Safe!Inv /\ [Next]_vars => Safe!Inv'
  BY PaneStepsController, Safe!StepInv, FramesAssumption
<1>3. Safe!Inv => /\ Ctl!TypeOK /\ Ctl!ReasonFixesMode /\ Ctl!HandshakeGatesEditor
                  /\ Ctl!NoCommandWithoutShell /\ Ctl!BootstrapIsYoung
  BY Safe!InvMeans, FramesAssumption
     DEF Safe!TypeOK, Ctl!TypeOK, Safe!Modes, Ctl!Modes, Safe!Reasons, Ctl!Reasons,
         Safe!IntegrationStates, Ctl!IntegrationStates, Safe!ReasonFixesMode, Ctl!ReasonFixesMode,
         Safe!HandshakeGatesEditor, Ctl!HandshakeGatesEditor, Safe!NoCommandWithoutShell,
         Ctl!NoCommandWithoutShell, Safe!BootstrapIsYoung, Ctl!BootstrapIsYoung
<1>4. QED BY <1>1, <1>2, <1>3, PTL DEF Spec

-----------------------------------------------------------------------------
(* The mode and the alternate screen.                                      *)

NoEdges(items) == \A i \in DOMAIN items : items[i][1] # "alt"

\* Until the bootstrap is over nobody has written to the shell.
Unspoken ==
  mode = "Bootstrapping" =>
    /\ ~lastAlt /\ ~alt /\ ~sampled
    /\ ptyIn = <<>> /\ sh # "running"
    /\ \E S : stream \in Seq(S)
    /\ NoEdges(stream)

\* The controller has been told of the edges the pane has latched.
Latched ==
  /\ mode \notin {"Bootstrapping", "Dead"} => (lastAlt <=> mode = "AlternateScreen")
  /\ phase # "sync" => alt = lastAlt

ScreenInv == Unspoken /\ Latched

\* What the shell writes behind a stream without edges, and what a drain
\* leaves of one.
LEMMA NoEdgesWritten ==
  ASSUME NEW S, NEW T, NEW s \in Seq(S), NEW t \in Seq(T), NoEdges(s), NoEdges(t)
  PROVE  s \o t \in Seq(S \cup T) /\ NoEdges(s \o t)
<1>1. s \in Seq(S \cup T) /\ t \in Seq(S \cup T)
  OBVIOUS
<1>2. s \o t \in Seq(S \cup T) /\ DOMAIN (s \o t) = 1..Len(s) + Len(t)
  BY <1>1
<1>3. ASSUME NEW i \in 1..Len(s) + Len(t) PROVE (s \o t)[i][1] # "alt"
  <2>1. CASE i \in 1..Len(s)
    BY <2>1, <1>1 DEF NoEdges
  <2>2. CASE i \notin 1..Len(s)
    <3>1. i - Len(s) \in 1..Len(t) /\ (s \o t)[i] = t[i - Len(s)]
      BY <2>2, <1>1
    <3>2. QED BY <3>1, <1>1 DEF NoEdges
  <2>3. QED BY <2>1, <2>2
<1>4. QED BY <1>2, <1>3 DEF NoEdges

\* A stream without edges has none in its rest.
LEMMA NoEdgesLeft ==
  ASSUME NEW S, NEW s \in Seq(S), NEW n \in 0..Len(s), NoEdges(s)
  PROVE  SubSeq(s, n + 1, Len(s)) \in Seq(S) /\ NoEdges(SubSeq(s, n + 1, Len(s)))
<1> DEFINE rest == SubSeq(s, n + 1, Len(s))
<1>1. rest \in Seq(S) /\ Len(rest) = Len(s) - n /\ DOMAIN rest = 1..Len(s) - n
  OBVIOUS
<1>2. \A i \in 1..Len(s) - n : rest[i] = s[i + n] /\ i + n \in DOMAIN s
  OBVIOUS
<1>3. QED BY <1>1, <1>2 DEF NoEdges

\* The stack never touches the flag of the screen.
LEMMA StackKeepsScreen ==
  /\ Blk!SealPreCommandOutput \/ Blk!SealRunning \/ Blk!ClearScrollback => alt' = alt
  /\ \A text : Blk!SetEditor(text) => alt' = alt
  /\ \A command : Blk!StartRunning(command) => alt' = alt
  BY DEF Blk!SealPreCommandOutput, Blk!SealRunning, Blk!SealTail, Blk!SetEditor,
         Blk!ClearScrollback, Blk!StartRunning, Blk!blockVars

\* The call for an edge leaves the mode in agreement with it.
LEMMA EdgeIsTold ==
  ASSUME NEW on, Ctl!ObserveAltScreen(on)
  PROVE  /\ mode' \notin {"Bootstrapping", "Dead"} => (on <=> mode' = "AlternateScreen")
         /\ mode' = "Bootstrapping" => mode = "Bootstrapping"
<1>1. CASE on
  BY <1>1 DEF Ctl!ObserveAltScreen, Ctl!TransitionIf, Ctl!Transition
<1>2. CASE ~on
  BY <1>2 DEF Ctl!ObserveAltScreen, Ctl!TransitionIf, Ctl!Transition
<1>3. QED BY <1>1, <1>2

\* No other call enters or leaves the alternate screen, but for the exit; and
\* none goes back to Bootstrapping.
OtherCall ==
  \/ Ctl!Tick \/ Ctl!ObserveIntegrationReady(TRUE) \/ Ctl!ObserveIntegrationError
  \/ Ctl!ObservePreexec \/ Ctl!ObserveCommandFinished \/ Ctl!ObservePrecmd
  \/ Ctl!ObserveContinuation \/ Ctl!ObservePtyExit \/ Ctl!SubmitCommand
  \/ UNCHANGED ctlVars

\* Only an edge tells the controller of the alternate screen.
LEMMA OtherCallsKeepTheScreen ==
  OtherCall => /\ mode' # "Dead" => (mode' = "AlternateScreen" <=> mode = "AlternateScreen")
               /\ mode' = "Bootstrapping" => mode = "Bootstrapping"
               /\ mode = "Dead" => mode' = "Dead"
  BY DEF OtherCall, Ctl!Tick, Ctl!ObserveIntegrationReady, Ctl!ObserveIntegrationError,
         Ctl!ObservePreexec, Ctl!ObserveCommandFinished, Ctl!ObservePrecmd,
         Ctl!ObserveContinuation, Ctl!ObservePtyExit, Ctl!SubmitCommand, Ctl!MayPromote,
         Ctl!MayContinue, Ctl!Transition, Ctl!TransitionIf, Ctl!ClosePending, ctlVars

\* Such a call with nothing else of the two screens changed keeps Latched.
LEMMA OtherStep ==
  ASSUME ScreenInv, OtherCall, alt' = alt, lastAlt' = lastAlt,
         phase' = phase \/ phase # "sync"
  PROVE  Latched'
  BY OtherCallsKeepTheScreen DEF ScreenInv, Unspoken, Latched

\* The first frames, where only the shell's own script writes.
LEMMA UnspokenStep ==
  ASSUME ScreenInv, OtherCall, alt' = alt, lastAlt' = lastAlt, sampled' = sampled,
         ptyIn' = ptyIn, sh' = sh, stream' = stream
  PROVE  Unspoken'
  BY OtherCallsKeepTheScreen DEF ScreenInv, Unspoken, NoEdges

\* What the scripts write by themselves.
ScriptItems == {<<"out", 0>>, <<"ready">>, <<"finished">>, <<"precmd">>, <<"error">>, <<"eof">>}

\* What the scripts write holds no edge.
LEMMA ScriptsDrawNoEdges ==
  /\ {<<>>, << <<"out", 0>> >>} \subseteq Seq(ScriptItems)
  /\ << <<"ready">> >> \in Seq(ScriptItems)
  /\ << <<"precmd">> >> \in Seq(ScriptItems)
  /\ << <<"error">> >> \in Seq(ScriptItems)
  /\ << <<"eof">> >> \in Seq(ScriptItems)
  /\ PromptCycle \in Seq(ScriptItems)
  /\ \A items \in Seq(ScriptItems) : NoEdges(items)
<1>1. \A x \in ScriptItems : x[1] # "alt"
  BY DEF ScriptItems
<1>2. /\ {<<"out", 0>>, <<"ready">>, <<"precmd">>} \subseteq ScriptItems
      /\ {<<"error">>, <<"eof">>, <<"finished">>} \subseteq ScriptItems
  BY DEF ScriptItems
<1>3. \A x \in ScriptItems : <<x>> \in Seq(ScriptItems)
  OBVIOUS
<1>4. \A x, y \in ScriptItems : <<x, y>> \in Seq(ScriptItems)
  OBVIOUS
<1>5. <<>> \in Seq(ScriptItems)
  OBVIOUS
<1>6. \A items \in Seq(ScriptItems) : NoEdges(items)
  <2> SUFFICES ASSUME NEW items \in Seq(ScriptItems), NEW i \in DOMAIN items
               PROVE  items[i][1] # "alt"
    BY DEF NoEdges
  <2>1. items[i] \in ScriptItems
    OBVIOUS
  <2>2. QED BY <1>1, <2>1
<1>7. PromptCycle \in Seq(ScriptItems)
  BY <1>2, <1>4, Zenon DEF PromptCycle
<1>8. QED BY <1>2, <1>3, <1>5, <1>6, <1>7, Zenon

\* The shell's steps keep mode and screen in agreement.
LEMMA ShellOnScreen == ScreenInv /\ ShellNext => ScreenInv'
<1> SUFFICES ASSUME ScreenInv, ShellNext PROVE ScreenInv'
  OBVIOUS
<1>1. ShellStep
  BY DEF ShellNext, Boot, BootFails, ReadLine, ReadText, ReadCompletion,
         ReadInterrupt, ProgramSays, ProgramScreen, Finish, ShellExits
<1>2. UNCHANGED <<mode, alt, lastAlt, sampled, phase>>
  BY <1>1 DEF ShellStep, ctlVars, blkVars, paneVars
<1>3. Latched'
  BY <1>2 DEF ScreenInv, Latched
<1>4. ASSUME mode = "Bootstrapping"
      PROVE  /\ ptyIn' = <<>> /\ sh' # "running"
             /\ (\E S : stream' \in Seq(S)) /\ NoEdges(stream')
  <2>1. /\ ptyIn = <<>> /\ sh # "running"
        /\ (\E S : stream \in Seq(S)) /\ NoEdges(stream)
    BY <1>4 DEF ScreenInv, Unspoken
  <2>2. PICK S : stream \in Seq(S)
    BY <2>1
  <2>3. ASSUME NEW items \in Seq(ScriptItems), stream' = stream \o items
        PROVE  (\E T : stream' \in Seq(T)) /\ NoEdges(stream')
    <3>1. NoEdges(items)
      BY ScriptsDrawNoEdges
    <3>2. QED BY <2>1, <2>2, <2>3, <3>1, NoEdgesWritten
  <2>4. CASE Boot
    <3>1. ptyIn' = <<>> /\ sh' # "running"
      BY <2>1, <2>4 DEF Boot
    <3>2. PICK noise \in {<<>>, << <<"out", 0>> >>} :
            stream' = stream \o (noise \o << <<"ready">> >>
               \o IF shell = "fish" THEN << <<"precmd">> >> ELSE PromptCycle)
      BY <2>4 DEF Boot, Write
    <3>3. /\ noise \in Seq(ScriptItems)
          /\ << <<"ready">> >> \in Seq(ScriptItems)
          /\ << <<"precmd">> >> \in Seq(ScriptItems)
          /\ PromptCycle \in Seq(ScriptItems)
      BY ScriptsDrawNoEdges
    <3>4. noise \o << <<"ready">> >> \o (IF shell = "fish" THEN << <<"precmd">> >> ELSE PromptCycle)
            \in Seq(ScriptItems)
      BY <3>3
    <3>5. QED BY <3>1, <3>2, <3>4, <2>3
  <2>5. CASE BootFails
    <3>1. stream' = stream \o << <<"error">> >> /\ UNCHANGED ptyIn /\ sh' = "mute"
      BY <2>5 DEF BootFails, Write
    <3>2. QED BY <2>1, <2>3, <3>1, ScriptsDrawNoEdges
  <2>6. CASE ShellExits
    <3>1. stream' = stream \o << <<"eof">> >> /\ UNCHANGED ptyIn /\ sh' = "gone"
      BY <2>6 DEF ShellExits, Write
    <3>2. QED BY <2>1, <2>3, <3>1, ScriptsDrawNoEdges
  <2>7. QED
    BY <2>1, <2>4, <2>5, <2>6
       DEF ShellNext, ReadLine, ReadText, ReadCompletion, ReadInterrupt,
           ProgramSays, ProgramScreen, Finish
<1>5. Unspoken'
  BY <1>2, <1>4 DEF ScreenInv, Unspoken
<1>6. QED BY <1>3, <1>5 DEF ScreenInv

\* An event is handed to the controller while the screens stay as they are.
LEMMA EventOnScreen ==
  ASSUME ScreenInv, OtherCall, alt' = alt, NEW ev, EventStep(ev)
  PROVE  ScreenInv'
<1>1. UNCHANGED <<lastAlt, sampled, ptyIn, sh, stream, phase>>
  BY DEF EventStep, FrameStep, shellVars
<1>2. QED BY <1>1, OtherStep, UnspokenStep DEF ScreenInv

\* A drain counts the frame; in the first ones it draws no edge.
LEMMA DrainOnScreen == ASSUME ScreenInv, DrainSome PROVE ScreenInv'
<1>1. PICK n \in 0..Len(stream) : Drain(n)
  BY DEF DrainSome
<1>2. /\ OtherCall
      /\ UNCHANGED <<lastAlt, sampled, ptyIn, sh>>
      /\ phase' = IF alt' = lastAlt THEN "events" ELSE "sync"
  BY <1>1 DEF Drain, FrameStep, shellVars, OtherCall
<1>3. Latched'
  BY <1>2, OtherCallsKeepTheScreen DEF ScreenInv, Unspoken, Latched
<1>4. ASSUME mode = "Bootstrapping"
      PROVE  alt' = alt /\ (\E S : stream' \in Seq(S)) /\ NoEdges(stream')
  <2>1. PICK S : stream \in Seq(S)
    BY <1>4 DEF ScreenInv, Unspoken
  <2>2. NoEdges(stream)
    BY <1>4 DEF ScreenInv, Unspoken
  <2>3. stream' = SubSeq(stream, n + 1, Len(stream))
    BY <1>1 DEF Drain, Feed
  <2>4. {i \in 1..n : stream[i][1] = "alt"} = {}
    BY <2>1, <2>2 DEF NoEdges
  <2>5. alt' = alt
    BY <1>1, <2>4 DEF Drain, Feed
  <2>6. QED BY <2>1, <2>2, <2>3, <2>5, NoEdgesLeft
<1>5. Unspoken'
  BY <1>2, <1>4, OtherCallsKeepTheScreen DEF ScreenInv, Unspoken
<1>6. QED BY <1>3, <1>5 DEF ScreenInv

\* So do the steps of a frame.
LEMMA FrameOnScreen == ASSUME ScreenInv, FrameNext PROVE ScreenInv'
<1>1. CASE DrainSome
  BY <1>1, DrainOnScreen
<1>2. CASE SyncAlt
  <2>1. /\ Ctl!ObserveAltScreen(alt) /\ alt' = alt /\ lastAlt' = alt
        /\ UNCHANGED <<sampled, ptyIn, sh, stream>>
    BY <1>2 DEF SyncAlt, FrameStep, shellVars, blkVars
  <2>2. QED BY <2>1, EdgeIsTold DEF ScreenInv, Unspoken, Latched, NoEdges
<1>3. CASE RecoverAlt
  <2>1. Ctl!ObserveAltScreen(FALSE) /\ alt /\ alt' = FALSE /\ lastAlt' = FALSE
    BY <1>3 DEF RecoverAlt
  <2>2. QED BY <2>1, EdgeIsTold DEF ScreenInv, Unspoken, Latched
<1>4. CASE OnReady
  BY <1>4, StackKeepsScreen, EventOnScreen DEF OnReady, OtherCall
<1>5. CASE OnError
  BY <1>5, EventOnScreen DEF OnError, OtherCall, blkVars
<1>6. CASE OnPreexec
  BY <1>6, StackKeepsScreen, EventOnScreen DEF OnPreexec, OtherCall
<1>7. CASE OnCommandFinished
  BY <1>7, StackKeepsScreen, EventOnScreen DEF OnCommandFinished, OtherCall
<1>8. CASE OnPrecmd
  BY <1>8, EventOnScreen DEF OnPrecmd, OtherCall, blkVars
<1>9. CASE OnContinuation
  <2>1. alt' = alt
    BY <1>9, StackKeepsScreen DEF OnContinuation, blkVars
  <2>2. QED BY <1>9, <2>1, EventOnScreen DEF OnContinuation, OtherCall
<1>10. CASE OnCompletion
  BY <1>10, EventOnScreen DEF OnCompletion, OtherCall, blkVars
<1>11. CASE OnPtyExit
  <2>1. /\ OtherCall /\ alt' = alt
        /\ UNCHANGED <<lastAlt, sampled, ptyIn, sh, stream, phase>>
    BY <1>11 DEF OnPtyExit, OtherCall, FrameStep, shellVars, blkVars, paneVars
  <2>2. QED BY <2>1, OtherStep, UnspokenStep DEF ScreenInv
<1>12. CASE EndDrain
  <2>1. /\ OtherCall /\ alt' = alt /\ alt = lastAlt
        /\ UNCHANGED <<mode, lastAlt, ptyIn, sh, stream>>
        /\ sampled' = EditorActive /\ phase' = "input"
    BY <1>12 DEF EndDrain, DrainIsOver, OtherCall, FrameStep, shellVars, blkVars, ctlVars
  <2>2. Latched'
    BY <2>1 DEF ScreenInv, Latched
  <2>3. Unspoken'
    BY <2>1 DEF ScreenInv, Unspoken, NoEdges, EditorActive
  <2>4. QED BY <2>2, <2>3 DEF ScreenInv
<1>13. CASE ClosePane
  <2>1. /\ OtherCall /\ alt' = alt /\ phase = "input"
        /\ UNCHANGED <<lastAlt, sampled, ptyIn, sh, stream>>
    BY <1>13 DEF ClosePane, OtherCall, FrameStep, shellVars, blkVars
  <2>2. QED BY <2>1, OtherStep, UnspokenStep DEF ScreenInv
<1>14. QED
  BY <1>1, <1>2, <1>3, <1>4, <1>5, <1>6, <1>7, <1>8, <1>9, <1>10, <1>11, <1>12, <1>13
     DEF FrameNext

\* Before the bootstrap is over the user has no editor and no program to
\* write to, and a clear changes neither screen.
LEMMA UserOnScreen == ASSUME ScreenInv, UserNext PROVE ScreenInv'
<1>1. /\ OtherCall
      /\ UNCHANGED <<lastAlt, sampled, phase, stream, sh>>
      /\ sampled \/ mode # "Bootstrapping" \/ UNCHANGED ptyIn
  BY DEF UserNext, Type, TypeRaw, ClearEditor, Submit, SubmitHeals, AbortContinuation,
         RequestCompletion, InterruptProgram, ClearScrollback, UserStep, shellVars, OtherCall
<1>2. alt' = alt
  <2>1. CASE \E line \in {"more", "done"} : Type(line)
    BY <2>1, StackKeepsScreen DEF Type
  <2>2. CASE ClearEditor \/ Submit \/ AbortContinuation \/ ClearScrollback
    BY <2>2, StackKeepsScreen DEF ClearEditor, Submit, AbortContinuation, ClearScrollback
  <2>3. CASE \/ \E line \in {"more", "done"} : TypeRaw(line)
             \/ SubmitHeals \/ RequestCompletion \/ InterruptProgram
    BY <2>3 DEF TypeRaw, SubmitHeals, RequestCompletion, InterruptProgram, blkVars
  <2>4. QED BY <2>1, <2>2, <2>3 DEF UserNext
<1>3. Latched'
  BY <1>1, <1>2, OtherStep
<1>4. Unspoken'
  BY <1>1, <1>2, OtherCallsKeepTheScreen DEF ScreenInv, Unspoken, NoEdges
<1>5. QED BY <1>3, <1>4 DEF ScreenInv

\* Both parts hold of every pane.
LEMMA ScreenInvHolds == Spec => []ScreenInv
<1>1. Init => ScreenInv
  <2> SUFFICES ASSUME Init PROVE ScreenInv
    OBVIOUS
  <2>1. stream = <<>> /\ mode = "Bootstrapping" /\ alt = FALSE /\ lastAlt = FALSE
    BY DEF Init, Ctl!Spawned, Blk!Init
  <2>2. <<>> \in Seq({}) /\ NoEdges(<<>>)
    BY DEF NoEdges
  <2>3. QED BY <2>1, <2>2 DEF Init, ScreenInv, Unspoken, Latched
<1>2. ScreenInv /\ [Next]_vars => ScreenInv'
  <2> SUFFICES ASSUME ScreenInv, [Next]_vars PROVE ScreenInv'
    OBVIOUS
  <2>1. CASE ShellNext BY <2>1, ShellOnScreen
  <2>2. CASE FrameNext BY <2>2, FrameOnScreen
  <2>3. CASE UserNext  BY <2>3, UserOnScreen
  <2>4. CASE UNCHANGED vars
    BY <2>4 DEF vars, ctlVars, blkVars, paneVars, shellVars, ScreenInv, Unspoken, Latched, NoEdges
  <2>5. QED BY <2>1, <2>2, <2>3, <2>4 DEF Next
<1>3. QED BY <1>1, <1>2, PTL DEF Spec

\* Between frames the mode and the terminal agree on the alternate screen, in
\* every pane, however edges and events are batched (the syncs of `drain`).
THEOREM ScreenAgrees == Spec => []AltMatchesMode
<1>1. ScreenInv => AltMatchesMode
  BY DEF ScreenInv, Latched, AltMatchesMode
<1>2. QED BY <1>1, ScreenInvHolds, PTL

-----------------------------------------------------------------------------
(* What is ahead of a pane.                                                *)

\* What the shell has written and the pane has not handled: the events of the
\* drain in progress, then the bytes nobody has read.
Ahead == events \o stream

\* The kinds of some items, and of those ahead.
KindsOf(items) == {items[i][1] : i \in DOMAIN items}

Kinds == KindsOf(Ahead)

\* Both are sequences, of whatever.
Typed == \E S : events \in Seq(S) /\ stream \in Seq(S)

\* May an item of kind a be ahead of one of kind b?
Before(a, b) ==
  /\ b = "ready" => a = "out"
  /\ a = "ready" => b \in {"finished", "precmd", "eof"}
  /\ b \in {"preexec", "cont"} => a = "cont"
  /\ a \in {"finished", "precmd"} => b \in {"finished", "precmd", "eof"}

\* Every two of these items may stand in this order.
Ordered(items) ==
  \A i, j \in DOMAIN items : i < j => Before(items[i][1], items[j][1])

-----------------------------------------------------------------------------
(* How a step moves what is ahead.                                         *)

\* Items added at the end.
LEMMA Joined ==
  ASSUME NEW S, NEW T, NEW s \in Seq(S), NEW t \in Seq(T)
  PROVE  /\ s \in Seq(S \cup T) /\ t \in Seq(S \cup T) /\ s \o t \in Seq(S \cup T)
         /\ Len(s \o t) = Len(s) + Len(t) /\ Len(s) \in Nat /\ Len(t) \in Nat
         /\ DOMAIN s = 1..Len(s) /\ DOMAIN t = 1..Len(t)
         /\ DOMAIN (s \o t) = 1..(Len(s) + Len(t))
         /\ \A i \in 1..Len(s) : (s \o t)[i] = s[i]
         /\ \A i \in 1..Len(t) : (s \o t)[Len(s) + i] = t[i]
<1>1. s \in Seq(S \cup T) /\ t \in Seq(S \cup T)
  OBVIOUS
<1>2. /\ s \o t \in Seq(S \cup T)
      /\ Len(s \o t) = Len(s) + Len(t) /\ Len(s) \in Nat /\ Len(t) \in Nat
      /\ DOMAIN s = 1..Len(s) /\ DOMAIN t = 1..Len(t)
      /\ DOMAIN (s \o t) = 1..(Len(s) + Len(t))
      /\ \A i \in 1..Len(s) : (s \o t)[i] = s[i]
      /\ \A i \in 1..Len(t) : (s \o t)[Len(s) + i] = t[i]
  BY <1>1
<1>3. QED BY <1>1, <1>2

\* The kinds of two parts.
LEMMA JoinedKinds ==
  ASSUME NEW S, NEW T, NEW s \in Seq(S), NEW t \in Seq(T)
  PROVE  KindsOf(s \o t) = KindsOf(s) \cup KindsOf(t)
<1>2. /\ Len(s) \in Nat /\ Len(t) \in Nat
      /\ DOMAIN s = 1..Len(s) /\ DOMAIN t = 1..Len(t)
      /\ DOMAIN (s \o t) = 1..(Len(s) + Len(t))
      /\ \A i \in 1..Len(s) : (s \o t)[i] = s[i]
      /\ \A i \in 1..Len(t) : (s \o t)[Len(s) + i] = t[i]
  BY Joined
<1>3. ASSUME NEW i \in 1..(Len(s) + Len(t)) 
      PROVE  i \in 1..Len(s) \/ \E j \in 1..Len(t) : i = Len(s) + j
  <2>1. CASE i \notin 1..Len(s)
    <3>1. i - Len(s) \in 1..Len(t) /\ i = Len(s) + (i - Len(s))
      BY <1>2, <2>1
    <3>2. QED BY <3>1
  <2>2. QED BY <2>1
<1>4. KindsOf(s \o t) \subseteq KindsOf(s) \cup KindsOf(t)
  <2> SUFFICES ASSUME NEW i \in 1..(Len(s) + Len(t))
               PROVE  (s \o t)[i][1] \in KindsOf(s) \cup KindsOf(t)
    BY <1>2, Zenon DEF KindsOf
  <2>1. CASE i \in 1..Len(s)
    BY <1>2, <2>1 DEF KindsOf
  <2>2. CASE \E j \in 1..Len(t) : i = Len(s) + j
    BY <1>2, <2>2 DEF KindsOf
  <2>3. QED BY <1>3, <2>1, <2>2
<1>5. KindsOf(s) \subseteq KindsOf(s \o t) /\ KindsOf(t) \subseteq KindsOf(s \o t)
  <2>1. \A i \in 1..Len(s) : i \in 1..(Len(s) + Len(t))
    BY <1>2
  <2>2. \A i \in 1..Len(t) : Len(s) + i \in 1..(Len(s) + Len(t))
    BY <1>2
  <2>3. ASSUME NEW i \in 1..Len(s) PROVE s[i][1] \in KindsOf(s \o t)
    <3>1. i \in DOMAIN (s \o t) /\ (s \o t)[i] = s[i]
      BY <1>2, <2>1
    <3>2. QED BY <3>1 DEF KindsOf
  <2>4. ASSUME NEW i \in 1..Len(t) PROVE t[i][1] \in KindsOf(s \o t)
    <3>1. Len(s) + i \in DOMAIN (s \o t) /\ (s \o t)[Len(s) + i] = t[i]
      BY <1>2, <2>2
    <3>2. QED BY <3>1 DEF KindsOf
  <2>5. QED BY <1>2, <2>3, <2>4 DEF KindsOf
<1>6. QED BY <1>4, <1>5

\* What is ahead when an order holds of both parts and across them.
LEMMA JoinedInOrder ==
  ASSUME NEW S, NEW T, NEW s \in Seq(S), NEW t \in Seq(T), Ordered(s), Ordered(t),
         \A a \in KindsOf(s), b \in KindsOf(t) : Before(a, b)
  PROVE  Ordered(s \o t)
<1> DEFINE u == s \o t
<1>1. /\ Len(s) \in Nat /\ Len(t) \in Nat
      /\ DOMAIN s = 1..Len(s) /\ DOMAIN t = 1..Len(t) /\ DOMAIN u = 1..(Len(s) + Len(t))
      /\ \A i \in 1..Len(s) : u[i] = s[i]
      /\ \A i \in 1..Len(t) : u[Len(s) + i] = t[i]
  BY Joined
<1> HIDE DEF u
<1> SUFFICES ASSUME NEW i \in DOMAIN u, NEW j \in DOMAIN u, i < j
             PROVE  Before(u[i][1], u[j][1])
  BY DEF Ordered, u
<1>2. CASE j \in 1..Len(s)
  <2>1. i \in 1..Len(s)
    BY <1>1, <1>2
  <2>2. Before(s[i][1], s[j][1])
    BY <1>1, <1>2, <2>1 DEF Ordered
  <2>3. QED BY <1>1, <1>2, <2>1, <2>2
<1>3. CASE i \notin 1..Len(s)
  <2>5. i \in 1..(Len(s) + Len(t)) /\ j \in 1..(Len(s) + Len(t))
    BY <1>1
  <2>1. /\ i - Len(s) \in 1..Len(t) /\ i = Len(s) + (i - Len(s))
        /\ j - Len(s) \in 1..Len(t) /\ j = Len(s) + (j - Len(s))
        /\ i - Len(s) < j - Len(s)
    <3>1. Len(s) \in Nat /\ Len(t) \in Nat
      BY <1>1
    <3>2. i \in Int /\ j \in Int /\ i > Len(s) /\ j > Len(s)
      BY <2>5, <3>1, <1>3
    <3>3. QED BY <2>5, <3>1, <3>2
  <2>2. Before(t[i - Len(s)][1], t[j - Len(s)][1])
    BY <1>1, <2>1 DEF Ordered
  <2>3. u[i] = t[i - Len(s)] /\ u[j] = t[j - Len(s)]
    BY <1>1, <2>1
  <2>4. QED BY <2>2, <2>3
<1>4. CASE i \in 1..Len(s) /\ j \notin 1..Len(s)
  <2>1. j - Len(s) \in 1..Len(t) /\ j = Len(s) + (j - Len(s))
    BY <1>1, <1>4
  <2>2. u[j] = t[j - Len(s)] /\ u[i] = s[i]
    BY <1>1, <1>4, <2>1
  <2>3. s[i][1] \in KindsOf(s) /\ t[j - Len(s)][1] \in KindsOf(t)
    BY <1>1, <1>4, <2>1 DEF KindsOf
  <2>4. QED BY <2>2, <2>3
<1>5. QED BY <1>2, <1>3, <1>4

\* The new items are some of the old ones, no event among the others.
Thinned(from, old, new) ==
  /\ \A k \in DOMAIN new : from[k] \in DOMAIN old /\ new[k] = old[from[k]]
  /\ \A j, k \in DOMAIN new : j < k => from[j] < from[k]
  /\ \A i \in DOMAIN old : old[i][1] \in Events => \E k \in DOMAIN new : from[k] = i

\* What is left is in order when all of it was, and has the same events.
LEMMA ThinnedInOrder ==
  ASSUME NEW old, NEW new, NEW from, Thinned(from, old, new)
  PROVE  /\ Ordered(old) => Ordered(new)
         /\ KindsOf(new) \subseteq KindsOf(old)
         /\ KindsOf(old) \cap Events \subseteq KindsOf(new)
<1>1. ASSUME Ordered(old) PROVE Ordered(new)
  BY <1>1 DEF Thinned, Ordered
<1>2. KindsOf(new) \subseteq KindsOf(old)
  BY DEF Thinned, KindsOf
<1>3. KindsOf(old) \cap Events \subseteq KindsOf(new)
  BY DEF Thinned, KindsOf
<1>4. QED BY <1>1, <1>2, <1>3

-----------------------------------------------------------------------------
(* The three ways: the shell writes, an event is handed out, a frame feeds.*)

\* The shell adds items at the end.
LEMMA WriteAhead ==
  ASSUME Typed, NEW T, NEW items \in Seq(T), Write(items), UNCHANGED events
  PROVE  /\ Typed' /\ Ahead' = Ahead \o items
         /\ Kinds' = Kinds \cup KindsOf(items)
         /\ (\E S : Ahead \in Seq(S))
         /\ (\E S : Ahead' \in Seq(S))
         /\ \A i \in DOMAIN Ahead : i \in DOMAIN Ahead' /\ Ahead'[i] = Ahead[i]
         /\ \A i \in DOMAIN Ahead' :
              i \in DOMAIN Ahead \/ \E j \in DOMAIN items : i = Len(Ahead) + j /\ Ahead'[i] = items[j]
         /\ \A j \in DOMAIN items :
              /\ Len(Ahead) + j \in DOMAIN Ahead' /\ Ahead'[Len(Ahead) + j] = items[j]
              /\ \A i \in DOMAIN Ahead : i < Len(Ahead) + j
         /\ items # <<>> => stream' # <<>>
         /\ Ordered(Ahead) /\ Ordered(items)
              /\ (\A a \in Kinds, b \in KindsOf(items) : Before(a, b)) => Ordered(Ahead')
<1>1. PICK S : events \in Seq(S) /\ stream \in Seq(S)
  BY DEF Typed
<1>2. stream' = stream \o items /\ stream' \in Seq(S \cup T) /\ events' \in Seq(S \cup T)
  BY <1>1, Joined DEF Write
<1>3. Ahead \in Seq(S) /\ Ahead' = Ahead \o items
  BY <1>1, <1>2 DEF Ahead
<1> HIDE DEF Ahead
<1>4. Typed'
  BY <1>2 DEF Typed
<1>5. Kinds' = Kinds \cup KindsOf(items)
  <2>1. KindsOf(Ahead \o items) = KindsOf(Ahead) \cup KindsOf(items)
    BY <1>3, JoinedKinds
  <2>2. QED BY <1>3, <2>1 DEF Kinds
<1>6. /\ Ahead' \in Seq(S \cup T)
      /\ DOMAIN Ahead = 1..Len(Ahead) /\ DOMAIN items = 1..Len(items)
      /\ Len(Ahead) \in Nat /\ Len(items) \in Nat
      /\ DOMAIN Ahead' = 1..(Len(Ahead) + Len(items))
      /\ \A i \in 1..Len(Ahead) : Ahead'[i] = Ahead[i]
      /\ \A i \in 1..Len(items) : Ahead'[Len(Ahead) + i] = items[i]
  BY <1>3, Joined
<1>7. \A i \in DOMAIN Ahead : i \in DOMAIN Ahead' /\ Ahead'[i] = Ahead[i]
  BY <1>6
<1>8. ASSUME NEW i \in DOMAIN Ahead'
      PROVE  i \in DOMAIN Ahead \/ \E j \in DOMAIN items : i = Len(Ahead) + j /\ Ahead'[i] = items[j]
  <2>1. CASE i \notin 1..Len(Ahead)
    <3>1. i - Len(Ahead) \in 1..Len(items) /\ i = Len(Ahead) + (i - Len(Ahead))
      BY <1>6, <2>1
    <3>2. QED BY <1>6, <3>1
  <2>2. QED BY <1>6, <2>1
<1>12. ASSUME NEW j \in DOMAIN items
       PROVE  /\ Len(Ahead) + j \in DOMAIN Ahead' /\ Ahead'[Len(Ahead) + j] = items[j]
              /\ \A i \in DOMAIN Ahead : i < Len(Ahead) + j
  BY <1>6
<1>9. items # <<>> => stream' # <<>>
  BY <1>1, <1>2
<1>10. Ordered(Ahead) /\ Ordered(items)
         /\ (\A a \in Kinds, b \in KindsOf(items) : Before(a, b)) => Ordered(Ahead')
  BY <1>3, JoinedInOrder DEF Kinds
<1>11. QED BY <1>3, <1>4, <1>5, <1>6, <1>7, <1>8, <1>9, <1>10, <1>12

\* An event is taken from the front.
LEMMA HandAhead ==
  ASSUME Typed, NEW ev, EventStep(ev)
  PROVE  /\ Typed' /\ Ahead[1] = Head(events) /\ Ahead[1][1] = ev
         /\ 1 \in DOMAIN Ahead
         /\ \A k \in DOMAIN Ahead' : k \in Nat /\ k + 1 \in DOMAIN Ahead /\ Ahead'[k] = Ahead[k + 1]
         /\ \A i \in DOMAIN Ahead : i \in Nat /\ i >= 1 /\ (i = 1 \/ i - 1 \in DOMAIN Ahead')
         /\ Kinds = {ev} \cup Kinds'
         /\ Ordered(Ahead) => Ordered(Ahead') /\ \A b \in Kinds' : Before(ev, b)
<1>1. PICK S : events \in Seq(S) /\ stream \in Seq(S)
  BY DEF Typed
<1>2. /\ events # <<>> /\ Head(events)[1] = ev
      /\ events' = Tail(events) /\ stream' = stream
  BY DEF EventStep, HasEvent
<1>3. Typed'
  BY <1>1, <1>2 DEF Typed
<1>4. /\ Ahead \in Seq(S) /\ Ahead # <<>> /\ Head(Ahead) = Head(events)
      /\ Ahead' = Tail(Ahead)
  BY <1>1, <1>2 DEF Ahead
<1> HIDE DEF Ahead
<1>5. /\ Ahead[1] = Head(events) /\ 1 \in DOMAIN Ahead
      /\ \A k \in DOMAIN Ahead' : k \in Nat /\ k + 1 \in DOMAIN Ahead /\ Ahead'[k] = Ahead[k + 1]
      /\ \A i \in DOMAIN Ahead : i \in Nat /\ i >= 1 /\ (i = 1 \/ i - 1 \in DOMAIN Ahead')
  BY <1>4
<1>6. Ahead[1][1] = ev
  BY <1>2, <1>5
<1>7. Kinds = {ev} \cup Kinds'
  <2>1. ASSUME NEW i \in DOMAIN Ahead PROVE Ahead[i][1] \in {ev} \cup Kinds'
    <3>1. CASE i = 1
      BY <1>6, <3>1
    <3>2. CASE i # 1
      <4>1. i - 1 \in DOMAIN Ahead' /\ i = (i - 1) + 1
        BY <1>5, <3>2
      <4>2. Ahead'[i - 1] = Ahead[i]
        BY <1>5, <4>1
      <4>3. QED BY <4>1, <4>2 DEF Kinds, KindsOf
    <3>3. QED BY <3>1, <3>2
  <2>2. ASSUME NEW k \in DOMAIN Ahead' PROVE Ahead'[k][1] \in Kinds
    BY <1>5 DEF Kinds, KindsOf
  <2>3. ev \in Kinds
    BY <1>5, <1>6 DEF Kinds, KindsOf
  <2>4. QED BY <2>1, <2>2, <2>3 DEF Kinds, KindsOf
<1>8. ASSUME Ordered(Ahead) PROVE Ordered(Ahead') /\ \A b \in Kinds' : Before(ev, b)
  <2>1. ASSUME NEW j \in DOMAIN Ahead', NEW k \in DOMAIN Ahead', j < k
        PROVE  Before(Ahead'[j][1], Ahead'[k][1])
    <3>1. j + 1 < k + 1 /\ j + 1 \in DOMAIN Ahead /\ k + 1 \in DOMAIN Ahead
      BY <1>5, <2>1
    <3>2. Before(Ahead[j + 1][1], Ahead[k + 1][1])
      BY <1>8, <3>1 DEF Ordered
    <3>3. QED BY <1>5, <3>2
  <2>2. ASSUME NEW k \in DOMAIN Ahead' PROVE Before(ev, Ahead'[k][1])
    <3>1. 1 < k + 1 /\ k + 1 \in DOMAIN Ahead
      <4>1. k \in DOMAIN Ahead' /\ k \in Nat /\ k # 0
        BY <1>4
      <4>2. QED BY <1>5, <4>1
    <3>2. Before(Ahead[1][1], Ahead[k + 1][1])
      BY <1>5, <1>8, <3>1 DEF Ordered
    <3>3. QED BY <1>5, <1>6, <3>2
  <2>3. QED BY <2>1, <2>2 DEF Ordered, Kinds, KindsOf
<1>9. QED BY <1>3, <1>5, <1>6, <1>7, <1>8

\* What a frame collects of the bytes it feeds.
FedFrom(from, kinds, n) ==
  /\ \A k \in 1..Len(Fed(kinds, n)) :
       /\ from[k] \in 1..n /\ Fed(kinds, n)[k] = stream[from[k]]
       /\ stream[from[k]][1] \in kinds
  /\ \A j, k \in 1..Len(Fed(kinds, n)) : j < k => from[j] < from[k]
  /\ \A i \in 1..n : stream[i][1] \in kinds => \E k \in 1..Len(Fed(kinds, n)) : from[k] = i

\* What a frame collects it finds at places of the stream, in their order.
LEMMA FedPlaces ==
  ASSUME NEW S, stream \in Seq(S), NEW n \in 0..Len(stream), NEW kinds
  PROVE  Fed(kinds, n) \in Seq(S) /\ \E from : FedFrom(from, kinds, n)
<1> DEFINE fed == SubSeq(stream, 1, n)
           places == {i \in 1..n : stream[i][1] \in kinds}
<1>1. /\ fed \in Seq(S) /\ Len(fed) = n /\ n \in Nat
      /\ \A i \in 1..n : fed[i] = stream[i]
  OBVIOUS
<1>2. Fed(kinds, n) = Keep(fed, places)
  BY DEF Fed
<1>3. \A i \in 1..n \cap places : i \in 1..n /\ stream[i][1] \in kinds
  OBVIOUS
<1>4. \A i \in 1..n : stream[i][1] \in kinds => i \in 1..n \cap places
  OBVIOUS
<1> HIDE DEF fed, places
<1>5. Keep(fed, places) \in Seq(S)
  BY <1>1, KeepType
<1>6. PICK from : KeptFrom(from, fed, places)
  BY <1>1, KeepPlaces
<1>7. FedFrom(from, kinds, n)
  <2>1. \A k \in 1..Len(Fed(kinds, n)) :
          /\ from[k] \in 1..n \cap places /\ Fed(kinds, n)[k] = fed[from[k]]
    BY <1>1, <1>2, <1>6 DEF KeptFrom
  <2>2. \A k \in 1..Len(Fed(kinds, n)) :
       /\ from[k] \in 1..n /\ Fed(kinds, n)[k] = stream[from[k]]
       /\ stream[from[k]][1] \in kinds
    BY <1>1, <1>3, <2>1
  <2>3. \A j, k \in 1..Len(Fed(kinds, n)) : j < k => from[j] < from[k]
    BY <1>2, <1>6 DEF KeptFrom
  <2>4. \A i \in 1..n : stream[i][1] \in kinds => \E k \in 1..Len(Fed(kinds, n)) : from[k] = i
    BY <1>1, <1>2, <1>4, <1>6 DEF KeptFrom
  <2>5. QED BY <2>2, <2>3, <2>4 DEF FedFrom
<1>8. QED BY <1>2, <1>5, <1>7

\* A feed drops the items that are no events from the front part.
LEMMA DrainAhead ==
  ASSUME Typed, events = <<>>, NEW n \in 0..Len(stream), Feed(n)
  PROVE  Typed' /\ \E from : Thinned(from, Ahead, Ahead')
<1>1. PICK S : stream \in Seq(S)
  BY DEF Typed
<1> DEFINE fed == Fed(Events, n)
           rest == SubSeq(stream, n + 1, Len(stream))
<1>2. fed \in Seq(S) /\ \E from : FedFrom(from, Events, n)
  BY <1>1, FedPlaces
<1>3. PICK f : FedFrom(f, Events, n)
  BY <1>2
<1>4. /\ rest \in Seq(S) /\ Len(rest) = Len(stream) - n
      /\ \A i \in 1..(Len(stream) - n) : rest[i] = stream[n + i]
      /\ n \in Nat /\ Len(stream) \in Nat /\ n <= Len(stream)
      /\ DOMAIN stream = 1..Len(stream)
  BY <1>1
<1>5. Ahead = stream
  BY <1>1 DEF Ahead
<1>6. Ahead' = fed \o rest /\ events' = fed /\ stream' = rest
  BY DEF Ahead, Feed
<1> HIDE DEF Ahead, fed, rest
<1>7. Typed'
  BY <1>2, <1>4, <1>6 DEF Typed
<1>8. /\ DOMAIN Ahead' = 1..(Len(fed) + (Len(stream) - n)) /\ Len(fed) \in Nat
      /\ \A i \in 1..Len(fed) : Ahead'[i] = fed[i]
      /\ \A i \in 1..(Len(stream) - n) : Ahead'[Len(fed) + i] = rest[i]
  <2>1. /\ Len(fed) \in Nat /\ DOMAIN (fed \o rest) = 1..(Len(fed) + Len(rest))
        /\ \A i \in 1..Len(fed) : (fed \o rest)[i] = fed[i]
        /\ \A i \in 1..Len(rest) : (fed \o rest)[Len(fed) + i] = rest[i]
    <3>1. fed \in Seq(S) /\ rest \in Seq(S)
      BY <1>2, <1>4
    <3>2. QED BY <3>1
  <2>2. QED BY <2>1, <1>4, <1>6
<1> DEFINE m == Len(fed)
           g == [k \in 1..(m + (Len(stream) - n)) |-> IF k <= m THEN f[k] ELSE n + (k - m)]
<1>9. /\ \A k \in 1..m : f[k] \in 1..n /\ fed[k] = stream[f[k]]
      /\ \A j, k \in 1..m : j < k => f[j] < f[k]
      /\ \A i \in 1..n : stream[i][1] \in Events => \E k \in 1..m : f[k] = i
  BY <1>3 DEF FedFrom, fed
<1>10. ASSUME NEW k \in DOMAIN Ahead'
       PROVE  \/ k \in 1..m /\ g[k] = f[k]
              \/ /\ k \notin 1..m /\ k - m \in 1..(Len(stream) - n) /\ k = m + (k - m)
                 /\ g[k] = n + (k - m)
  <2>1. k \in 1..(m + (Len(stream) - n)) /\ m \in Nat /\ n \in Nat /\ Len(stream) \in Nat
    BY <1>4, <1>8
  <2> HIDE DEF m
  <2>2. QED BY <2>1
<1> HIDE DEF g, m
<1>11. ASSUME NEW k \in DOMAIN Ahead' PROVE g[k] \in DOMAIN Ahead /\ Ahead'[k] = Ahead[g[k]]
  <2>1. CASE k \in 1..m /\ g[k] = f[k]
    BY <1>4, <1>5, <1>8, <1>9, <2>1 DEF m
  <2>2. CASE /\ k \notin 1..m /\ k - m \in 1..(Len(stream) - n) /\ k = m + (k - m)
             /\ g[k] = n + (k - m)
    <3>1. Ahead'[k] = rest[k - m] /\ rest[k - m] = stream[n + (k - m)]
      BY <1>4, <1>8, <2>2 DEF m
    <3>2. n + (k - m) \in 1..Len(stream)
      BY <1>4, <2>2
    <3>3. QED BY <1>4, <1>5, <2>2, <3>1, <3>2
  <2>3. QED BY <1>10, <2>1, <2>2
<1>12. ASSUME NEW j \in DOMAIN Ahead', NEW k \in DOMAIN Ahead', j < k PROVE g[j] < g[k]
  <2>1. m \in Nat /\ j \in Int /\ k \in Int /\ j >= 1
    BY <1>8 DEF m
  <2>2. CASE k \in 1..m
    <3>1. j \in 1..m
      BY <1>12, <2>1, <2>2
    <3>2. QED BY <1>9, <1>10, <1>12, <2>2, <3>1
  <2>3. CASE k \notin 1..m /\ j \in 1..m
    <3>1. g[j] = f[j] /\ f[j] \in 1..n /\ g[k] = n + (k - m) /\ n \in Nat
      BY <1>4, <1>9, <1>10, <2>3
    <3>2. k > m
      BY <1>12, <2>1, <2>3
    <3>3. QED BY <2>1, <3>1, <3>2
  <2>4. CASE k \notin 1..m /\ j \notin 1..m
    <3>1. g[j] = n + (j - m) /\ g[k] = n + (k - m) /\ n \in Nat
      BY <1>4, <1>10, <2>4
    <3>2. QED BY <1>12, <2>1, <3>1
  <2>5. QED BY <2>2, <2>3, <2>4
<1>13. ASSUME NEW i \in DOMAIN Ahead, Ahead[i][1] \in Events
       PROVE  \E k \in DOMAIN Ahead' : g[k] = i
  <2>1. i \in 1..Len(stream) /\ m \in Nat
    BY <1>4, <1>5, <1>8 DEF m
  <2>2. CASE i \in 1..n
    <3>1. PICK k \in 1..m : f[k] = i
      BY <1>5, <1>9, <1>13, <2>2
    <3>2. k \in DOMAIN Ahead'
      BY <1>4, <1>8, <2>1, <3>1 DEF m
    <3>3. QED BY <1>10, <3>1, <3>2
  <2>3. CASE i \notin 1..n
    <3>1. m + (i - n) \in DOMAIN Ahead' /\ m + (i - n) \notin 1..m
      BY <1>4, <1>8, <2>1, <2>3 DEF m
    <3>2. g[m + (i - n)] = n + ((m + (i - n)) - m)
      BY <1>10, <3>1
    <3>3. n + ((m + (i - n)) - m) = i
      BY <1>4, <2>1
    <3>4. QED BY <3>1, <3>2, <3>3
  <2>4. QED BY <2>2, <2>3
<1>14. Thinned(g, Ahead, Ahead')
  BY <1>11, <1>12, <1>13 DEF Thinned
<1>15. QED BY <1>7, <1>14

-----------------------------------------------------------------------------
(* The editor never covers a program.                                      *)

\* The shapes of the tail and the job.
Shapes ==
  /\ tail = [kind |-> tail.kind, id |-> tail.id, command |-> tail.command, text |-> tail.text]
  /\ tail.kind \in {"Prompt", "Running"}
  /\ job = [serial |-> job.serial, text |-> job.text, said |-> job.said, screen |-> job.screen]

\* Every end of a command that is ahead is followed by the next one's start.
StartsFollowEnds ==
  \A i \in DOMAIN Ahead : Ahead[i][1] = "finished" =>
    \E j \in DOMAIN Ahead : i < j /\ Ahead[j][1] = "preexec"

\* What holds of every pane's stream.
StreamInv ==
  /\ Typed /\ Shapes
  /\ phase = "input" => events = <<>>
  /\ exited \/ "eof" \in Kinds => sh = "gone"

\* While a program runs its tail is up or on its way, and no sample that has
\* caught up says otherwise.
ProgramShows ==
  sh = "running" =>
    /\ tail.kind = "Running" \/ "preexec" \in Kinds
    /\ StartsFollowEnds
    /\ phase = "input" /\ stream = <<>> => ~sampled

\* What the block operations do to the tail.
LEMMA TailOperationKinds ==
  ASSUME Shapes, job' = [serial |-> job'.serial, text |-> job'.text,
                         said |-> job'.said, screen |-> job'.screen]
  PROVE  /\ UNCHANGED tail => Shapes'
         /\ \A text : Blk!SetEditor(text) =>
              /\ Shapes' /\ tail.kind = "Prompt" /\ tail'.kind = "Prompt" /\ tail'.text = text
              /\ UNCHANGED <<sealed, grid, alt>>
         /\ \A command : Blk!StartRunning(command) =>
              /\ Shapes' /\ tail'.kind = "Running"
              /\ tail'.command = IF tail.kind = "Prompt" THEN command ELSE tail.command
              /\ UNCHANGED <<sealed, grid, alt>>
         /\ Blk!SealRunning =>
              /\ Shapes' /\ tail'.kind = "Prompt"
              /\ tail'.text = IF tail.kind = "Prompt" THEN tail.text ELSE <<"">>
              /\ alt' = alt
         /\ Blk!SealPreCommandOutput =>
              /\ Shapes' /\ tail'.kind = tail.kind /\ tail'.text \in {tail.text, <<"">>}
              /\ tail.kind = "Running" => UNCHANGED tail
              /\ alt' = alt
<1> USE DEF Shapes
<1>1. UNCHANGED tail => Shapes'
  OBVIOUS
<1>2. ASSUME NEW text, Blk!SetEditor(text)
      PROVE  /\ Shapes' /\ tail.kind = "Prompt" /\ tail'.kind = "Prompt" /\ tail'.text = text
             /\ UNCHANGED <<sealed, grid, alt>>
  <2>1. /\ tail' = [tail EXCEPT !.text = text] /\ tail.kind = "Prompt"
        /\ UNCHANGED <<sealed, grid, alt>>
    BY <1>2 DEF Blk!SetEditor, Blk!EditorOnTail
  <2>2. tail' = [kind |-> tail.kind, id |-> tail.id, command |-> tail.command, text |-> text]
    BY <2>1
  <2>3. QED BY <2>1, <2>2
<1>3. ASSUME NEW command, Blk!StartRunning(command)
      PROVE  /\ Shapes' /\ tail'.kind = "Running"
             /\ tail'.command = IF tail.kind = "Prompt" THEN command ELSE tail.command
             /\ UNCHANGED <<sealed, grid, alt>>
  <2>1. UNCHANGED <<sealed, grid, alt>>
    BY <1>3 DEF Blk!StartRunning
  <2>2. CASE tail.kind = "Prompt"
    <3>1. tail' = [kind |-> "Running", id |-> tail.id, command |-> command, text |-> <<"">>]
      BY <1>3, <2>2 DEF Blk!StartRunning, Blk!Running
    <3>2. QED BY <2>1, <2>2, <3>1
  <2>3. CASE tail.kind # "Prompt"
    BY <1>3, <2>1, <2>3 DEF Blk!StartRunning
  <2>4. QED BY <2>2, <2>3
<1>4. ASSUME NEW command, Blk!SealTail(command)
      PROVE  Shapes' /\ tail'.kind = "Prompt" /\ tail'.text = <<"">> /\ alt' = alt
  <2>1. /\ tail' = [kind |-> "Prompt", id |-> nextId,
                    command |-> [serial |-> 0, text |-> <<>>], text |-> <<"">>]
        /\ alt' = alt
    BY <1>4 DEF Blk!SealTail, Blk!Prompt
  <2>2. QED BY <2>1
<1>5. ASSUME Blk!SealRunning
      PROVE  /\ Shapes' /\ tail'.kind = "Prompt"
             /\ tail'.text = IF tail.kind = "Prompt" THEN tail.text ELSE <<"">>
             /\ alt' = alt
  <2>1. CASE tail.kind = "Running"
    <3>1. Blk!SealTail(tail.command)
      BY <1>5, <2>1 DEF Blk!SealRunning
    <3>2. QED BY <1>4, <2>1, <3>1
  <2>2. CASE tail.kind = "Prompt"
    BY <1>5, <2>2 DEF Blk!SealRunning, Blk!blockVars
  <2>3. QED BY <2>1, <2>2
<1>6. ASSUME Blk!SealPreCommandOutput
      PROVE  /\ Shapes' /\ tail'.kind = tail.kind /\ tail'.text \in {tail.text, <<"">>}
             /\ tail.kind = "Running" => UNCHANGED tail
             /\ alt' = alt
  <2>1. CASE UNCHANGED Blk!blockVars
    BY <2>1 DEF Blk!blockVars
  <2>2. CASE tail.kind = "Prompt" /\ \E command : Blk!SealTail(command)
    BY <1>4, <2>2
  <2>3. QED BY <1>6, <2>1, <2>2 DEF Blk!SealPreCommandOutput
<1>7. QED BY <1>1, <1>2, <1>3, <1>5, <1>6

\* One item, and the two of a prompt cycle.
LEMMA Items ==
  /\ \A x : <<x>> \in Seq({x}) /\ KindsOf(<<x>>) = {x[1]} /\ Ordered(<<x>>) /\ <<x>> # <<>>
  /\ <<>> \in Seq({}) /\ KindsOf(<<>>) = {} /\ Ordered(<<>>)
  /\ PromptCycle \in Seq({<<"finished">>, <<"precmd">>})
  /\ KindsOf(PromptCycle) = {"finished", "precmd"} /\ Ordered(PromptCycle)
  /\ PromptCycle # <<>>
<1>1. ASSUME NEW x
      PROVE  <<x>> \in Seq({x}) /\ KindsOf(<<x>>) = {x[1]} /\ Ordered(<<x>>) /\ <<x>> # <<>>
  <2>1. <<x>> \in Seq({x}) /\ <<x>> # <<>> /\ DOMAIN <<x>> = {1} /\ <<x>>[1] = x
    OBVIOUS
  <2>2. KindsOf(<<x>>) = {x[1]} /\ Ordered(<<x>>)
    <3> DEFINE s == <<x>>
    <3>1. DOMAIN s = {1} /\ s[1] = x
      BY <2>1
    <3> HIDE DEF s
    <3>2. KindsOf(s) = {x[1]} /\ Ordered(s)
      BY <3>1 DEF KindsOf, Ordered
    <3>3. QED BY <3>2 DEF s
  <2>3. QED BY <2>1, <2>2
<1>2. <<>> \in Seq({}) /\ KindsOf(<<>>) = {} /\ Ordered(<<>>)
  BY DEF KindsOf, Ordered
<1>3. /\ PromptCycle \in Seq({<<"finished">>, <<"precmd">>})
      /\ KindsOf(PromptCycle) = {"finished", "precmd"} /\ Ordered(PromptCycle)
      /\ PromptCycle # <<>>
  <2> DEFINE x == <<"finished">>
             y == <<"precmd">>
  <2>1. x[1] = "finished" /\ y[1] = "precmd"
    OBVIOUS
  <2>2. PromptCycle = <<x, y>>
    BY DEF PromptCycle
  <2> HIDE DEF x, y
  <2>3. /\ PromptCycle \in Seq({x, y}) /\ DOMAIN PromptCycle = {1, 2} /\ PromptCycle # <<>>
        /\ PromptCycle[1] = x /\ PromptCycle[2] = y
    BY <2>2
  <2>4. KindsOf(PromptCycle) = {"finished", "precmd"}
    BY <2>1, <2>3 DEF KindsOf
  <2>5. Ordered(PromptCycle)
    BY <2>1, <2>3 DEF Ordered, Before
  <2>6. QED BY <2>3, <2>4, <2>5 DEF x, y
<1>4. QED BY <1>1, <1>2, <1>3

\* What the shell may write in a step.
Says(items) ==
  /\ Write(items)
  /\ "eof" \in KindsOf(items) => sh' = "gone"
  /\ sh' = "running" =>
       /\ items # <<>> /\ "finished" \notin KindsOf(items)
       /\ sh = "running" \/ "preexec" \in KindsOf(items)

\* It writes so in this step.
Spoken == \E T : \E items \in Seq(T) : Says(items)

\* One item, none, or a prompt cycle.
LEMMA SaysIt ==
  /\ \A x : (/\ Write(<<x>>)
             /\ x[1] = "eof" => sh' = "gone"
             /\ sh' = "running" => x[1] # "finished" /\ (sh = "running" \/ x[1] = "preexec"))
            => Spoken
  /\ Write(<<>>) /\ sh' # "running" => Spoken
  /\ Write(PromptCycle) /\ sh' # "running" => Spoken
<1>1. ASSUME NEW x, Write(<<x>>), x[1] = "eof" => sh' = "gone",
             sh' = "running" => x[1] # "finished" /\ (sh = "running" \/ x[1] = "preexec")
      PROVE  Spoken
  <2>1. KindsOf(<<x>>) = {x[1]} /\ <<x>> # <<>> /\ <<x>> \in Seq({x})
    BY Items
  <2>2. Says(<<x>>)
    BY <1>1, <2>1 DEF Says
  <2>3. QED BY <2>1, <2>2 DEF Spoken
<1>2. ASSUME Write(<<>>), sh' # "running" PROVE Spoken
  <2>1. Says(<<>>) /\ <<>> \in Seq({})
    BY <1>2, Items DEF Says
  <2>2. QED BY <2>1 DEF Spoken
<1>3. ASSUME Write(PromptCycle), sh' # "running" PROVE Spoken
  <2>1. Says(PromptCycle)
    BY <1>3, Items DEF Says
  <2>2. QED BY <2>1, Items DEF Spoken
<1>4. QED BY <1>1, <1>2, <1>3

\* What a shell says when it is up.
LEMMA BootItems ==
  ASSUME NEW noise \in {<<>>, << <<"out", 0>> >>},
         NEW greeting \in {<< <<"precmd">> >>, PromptCycle}
  PROVE  LET items == noise \o << <<"ready">> >> \o greeting
         IN  /\ items \in Seq(ScriptItems) /\ items # <<>>
             /\ KindsOf(items) \subseteq {"out", "ready", "finished", "precmd"}
             /\ "ready" \in KindsOf(items) /\ Ordered(items)
<1> DEFINE S == ScriptItems
           r == <<"ready">>
           ready == <<r>>
           opening == noise \o ready
<1>1. /\ noise \in Seq(S) /\ ready \in Seq(S) /\ greeting \in Seq(S)
  BY ScriptsDrawNoEdges
<1>2. KindsOf(ready) = {"ready"} /\ Ordered(ready)
  <2>1. r[1] = "ready"
    OBVIOUS
  <2> HIDE DEF r
  <2>2. QED BY <2>1, Items
<1>3. KindsOf(noise) \subseteq {"out"} /\ Ordered(noise)
  <2>1. CASE noise = <<>>
    BY <2>1, Items
  <2>2. CASE noise # <<>>
    <3> DEFINE x == <<"out", 0>>
    <3>1. noise = <<x>> /\ x[1] = "out"
      BY <2>2
    <3> HIDE DEF x
    <3>2. QED BY <3>1, Items
  <2>3. QED BY <2>1, <2>2
<1>4. KindsOf(greeting) \subseteq {"finished", "precmd"} /\ Ordered(greeting)
  <2>1. CASE greeting = PromptCycle
    BY <2>1, Items
  <2>2. CASE greeting # PromptCycle
    <3> DEFINE x == <<"precmd">>
    <3>1. greeting = <<x>> /\ x[1] = "precmd"
      BY <2>2
    <3> HIDE DEF x
    <3>2. QED BY <3>1, Items
  <2>3. QED BY <2>1, <2>2
<1> HIDE DEF S, ready
<1>5. opening \in Seq(S)
  BY <1>1
<1>6. KindsOf(opening) = KindsOf(noise) \cup KindsOf(ready)
  BY <1>1, JoinedKinds
<1>7. Ordered(opening)
  BY <1>1, <1>2, <1>3, JoinedInOrder DEF Before
<1> HIDE DEF opening
<1>8. opening \o greeting \in Seq(S) /\ opening \o greeting # <<>>
  <2>1. ready # <<>>
    BY DEF ready
  <2>2. opening # <<>>
    BY <1>1, <2>1 DEF opening
  <2>3. QED BY <1>1, <1>5, <2>2
<1>9. KindsOf(opening \o greeting) = KindsOf(opening) \cup KindsOf(greeting)
  BY <1>1, <1>5, JoinedKinds
<1>10. Ordered(opening \o greeting)
  BY <1>1, <1>2, <1>3, <1>4, <1>5, <1>6, <1>7, JoinedInOrder DEF Before
<1>11. QED BY <1>2, <1>3, <1>4, <1>6, <1>8, <1>9, <1>10 DEF S, opening, ready

\* Every step of the shell writes so, and leaves the pane alone.
LEMMA ShellSpeaks == ShellNext => ShellStep /\ Spoken /\ sh # "gone"
<1> SUFFICES ASSUME ShellNext PROVE ShellStep /\ Spoken /\ sh # "gone"
  OBVIOUS
<1>1. CASE Boot
  <2>1. PICK noise \in {<<>>, << <<"out", 0>> >>} :
            Write(noise \o << <<"ready">> >>
               \o IF shell = "fish" THEN << <<"precmd">> >> ELSE PromptCycle)
    BY <1>1 DEF Boot
  <2> DEFINE greeting == IF shell = "fish" THEN << <<"precmd">> >> ELSE PromptCycle
             items == noise \o << <<"ready">> >> \o greeting
  <2>2. items \in Seq(ScriptItems) /\ KindsOf(items) \subseteq {"out", "ready", "finished", "precmd"}
    BY BootItems
  <2>3. Write(items)
    BY <2>1
  <2> HIDE DEF items
  <2>4. Says(items)
    BY <1>1, <2>2, <2>3 DEF Says, Boot
  <2>5. QED BY <1>1, <2>2, <2>4 DEF Boot, Spoken
<1>2. CASE BootFails
  BY <1>2, SaysIt DEF BootFails
<1>3. ASSUME NEW text, Execute(text) PROVE Spoken
  <2> DEFINE x == <<"preexec", [serial |-> job.serial + 1, text |-> text]>>
  <2>1. Write(<<x>>) /\ x[1] = "preexec"
    BY <1>3 DEF Execute
  <2> HIDE DEF x
  <2>2. QED BY <2>1, SaysIt
<1>13. Write(<< <<"cont">> >>) \/ Write(<< <<"completion">> >>) => (sh' # "running" => Spoken)
  BY SaysIt
<1>4. CASE ReadLine
  <2>1. ShellStep /\ sh # "gone"
    BY <1>4 DEF ReadLine
  <2>2. \/ \E text : Execute(text)
        \/ (Write(PromptCycle) \/ Write(<< <<"cont">> >>)) /\ sh' # "running"
    BY <1>4 DEF ReadLine
  <2>3. QED BY <1>3, <1>13, <2>1, <2>2, SaysIt
<1>5. CASE ReadText
  <2>1. ShellStep /\ sh # "gone"
    BY <1>5 DEF ReadText
  <2>2. (\E text : Execute(text)) \/ (Write(<< <<"cont">> >>) /\ sh' # "running")
    BY <1>5 DEF ReadText
  <2>3. QED BY <1>3, <1>13, <2>1, <2>2
<1>6. CASE ReadCompletion
  <2>1. ShellStep /\ sh # "gone"
    BY <1>6 DEF ReadCompletion
  <2>2. \/ \E text : Execute(text)
        \/ (Write(<< <<"cont">> >>) \/ Write(<< <<"completion">> >>)) /\ sh' # "running"
    BY <1>6 DEF ReadCompletion
  <2>3. QED BY <1>3, <1>13, <2>1, <2>2
<1>7. CASE ReadInterrupt
  <2>1. ShellStep /\ sh # "gone" /\ sh' # "running"
    BY <1>7 DEF ReadInterrupt
  <2>2. \/ Write(<<>>) \/ Write(PromptCycle)
        \/ Write(<< <<"eof">> >>) /\ sh' = "gone"
    BY <1>7 DEF ReadInterrupt
  <2>3. CASE Write(<< <<"eof">> >>) /\ sh' = "gone"
    BY <2>1, <2>3, SaysIt
  <2>4. QED BY <2>1, <2>2, <2>3, SaysIt
<1>8. CASE ProgramSays
  <2> DEFINE x == <<"out", job.serial>>
  <2>1. Write(<<x>>) /\ x[1] = "out" /\ ShellStep /\ sh = "running"
    BY <1>8 DEF ProgramSays
  <2> HIDE DEF x
  <2>2. QED BY <2>1, SaysIt
<1>9. CASE ProgramScreen
  <2> DEFINE x == <<"alt", job'.screen = "alt">>
  <2>1. Write(<<x>>) /\ x[1] = "alt" /\ ShellStep /\ sh = "running"
    BY <1>9 DEF ProgramScreen
  <2> HIDE DEF x
  <2>2. QED BY <2>1, SaysIt
<1>10. CASE Finish
  BY <1>10, SaysIt DEF Finish
<1>11. CASE ShellExits
  <2>1. Write(<< <<"eof">> >>) /\ sh' = "gone" /\ ShellStep /\ sh # "gone"
    BY <1>11 DEF ShellExits
  <2>2. QED BY <2>1, SaysIt
<1>12. QED
  BY <1>1, <1>2, <1>4, <1>5, <1>6, <1>7, <1>8, <1>9, <1>10, <1>11 DEF ShellNext

\* The job keeps its shape, and a program that writes keeps its command.
LEMMA JobKeepsShape ==
  ASSUME Shapes, [Next]_vars
  PROVE  job' = [serial |-> job'.serial, text |-> job'.text,
                 said |-> job'.said, screen |-> job'.screen]
<1>1. CASE \E text : Execute(text)
  BY <1>1 DEF Execute
<1>2. CASE ProgramSays
  <2>1. job' = [job EXCEPT !.said = TRUE]
    BY <1>2 DEF ProgramSays
  <2>2. QED BY <2>1 DEF Shapes
<1>3. CASE ProgramScreen
  <2>1. job' = [job EXCEPT !.screen = "alt"] \/ job' = [job EXCEPT !.screen = "left"]
    BY <1>3 DEF ProgramScreen
  <2>2. QED BY <2>1 DEF Shapes
<1>4. CASE UNCHANGED job
  BY <1>4 DEF Shapes
<1>5. CASE ShellNext
  BY <1>1, <1>2, <1>3, <1>4, <1>5
     DEF ShellNext, Boot, BootFails, ReadLine, ReadText, ReadCompletion, ReadInterrupt,
         Finish, ShellExits
<1>6. CASE FrameNext
  <2>1. UNCHANGED job
    BY <1>6 DEF FrameNext, DrainSome, Drain, SyncAlt, RecoverAlt, OnReady, OnError, OnPreexec,
                OnCommandFinished, OnPrecmd, OnContinuation, OnCompletion, OnPtyExit, EndDrain,
                ClosePane, EventStep, FrameStep, shellVars
  <2>2. QED BY <1>4, <2>1
<1>7. CASE UserNext
  <2>1. UNCHANGED job
    BY <1>7 DEF UserNext, Type, TypeRaw, ClearEditor, Submit, SubmitHeals, AbortContinuation,
                RequestCompletion, InterruptProgram, ClearScrollback, UserStep, shellVars
  <2>2. QED BY <1>4, <2>1
<1>8. CASE UNCHANGED vars
  BY <1>4, <1>8 DEF vars, shellVars
<1>9. QED BY <1>5, <1>6, <1>7, <1>8 DEF Next

\* What holds of every pane's stream, and of the program on it.
ShownInv == StreamInv /\ ProgramShows

\* The shell keeps it.
LEMMA ShellShows == ASSUME ShownInv, ShellNext PROVE ShownInv'
<1> USE DEF ShownInv, StreamInv
<1>1. ShellStep /\ Spoken /\ sh # "gone"
  BY ShellSpeaks
<1>2. /\ phase = "input" /\ events = <<>>
      /\ UNCHANGED <<tail, phase, events, sampled, exited>>
  BY <1>1 DEF ShellStep, blkVars, paneVars
<1>3. PICK T : \E items \in Seq(T) : Says(items)
  BY <1>1 DEF Spoken
<1>4. PICK items \in Seq(T) : Says(items)
  BY <1>3
<1>5. Write(items) /\ ("eof" \in KindsOf(items) => sh' = "gone")
  BY <1>4 DEF Says
<1>6. /\ Typed' /\ Kinds' = Kinds \cup KindsOf(items)
      /\ \A i \in DOMAIN Ahead : i \in DOMAIN Ahead' /\ Ahead'[i] = Ahead[i]
      /\ \A i \in DOMAIN Ahead' :
           i \in DOMAIN Ahead \/ \E j \in DOMAIN items : i = Len(Ahead) + j /\ Ahead'[i] = items[j]
      /\ \A j \in DOMAIN items :
           /\ Len(Ahead) + j \in DOMAIN Ahead' /\ Ahead'[Len(Ahead) + j] = items[j]
           /\ \A i \in DOMAIN Ahead : i < Len(Ahead) + j
      /\ items # <<>> => stream' # <<>>
  BY <1>2, <1>5, WriteAhead
<1>7. Shapes'
  BY <1>2, JobKeepsShape, TailOperationKinds DEF Next
<1>8. StreamInv'
  BY <1>1, <1>2, <1>5, <1>6, <1>7
<1>9. ASSUME sh' = "running"
      PROVE  /\ tail'.kind = "Running" \/ "preexec" \in Kinds'
             /\ StartsFollowEnds'
             /\ ~(phase' = "input" /\ stream' = <<>>)
  <2>1. items # <<>> /\ "finished" \notin KindsOf(items)
         /\ (sh = "running" \/ "preexec" \in KindsOf(items))
    BY <1>4, <1>9 DEF Says
  <2>2. tail'.kind = "Running" \/ "preexec" \in Kinds'
    BY <1>2, <1>6, <2>1 DEF ProgramShows
  <2>3. ASSUME NEW i \in DOMAIN Ahead', Ahead'[i][1] = "finished"
        PROVE  \E j \in DOMAIN Ahead' : i < j /\ Ahead'[j][1] = "preexec"
    <3>1. i \in DOMAIN Ahead /\ Ahead[i][1] = "finished"
      <4>1. CASE \E j \in DOMAIN items : i = Len(Ahead) + j /\ Ahead'[i] = items[j]
        BY <2>1, <2>3, <4>1 DEF KindsOf
      <4>2. QED BY <1>6, <2>3, <4>1
    <3>2. CASE sh = "running"
      <4>1. PICK j \in DOMAIN Ahead : i < j /\ Ahead[j][1] = "preexec"
        BY <3>1, <3>2 DEF ProgramShows, StartsFollowEnds
      <4>2. QED BY <1>6, <4>1
    <3>3. CASE "preexec" \in KindsOf(items)
      <4>1. PICK j \in DOMAIN items : items[j][1] = "preexec"
        BY <3>3 DEF KindsOf
      <4>2. QED BY <1>6, <3>1, <4>1
    <3>4. QED BY <2>1, <3>2, <3>3
  <2>4. QED BY <1>6, <2>1, <2>2, <2>3 DEF StartsFollowEnds
<1>10. QED BY <1>8, <1>9 DEF ProgramShows

\* A step that moves no item.
LEMMA StillAhead ==
  UNCHANGED <<events, stream>> =>
    /\ UNCHANGED <<Ahead, Kinds>> /\ (Typed => Typed')
    /\ StartsFollowEnds => StartsFollowEnds'
  BY DEF Ahead, Kinds, KindsOf, Typed, StartsFollowEnds

\* An event handed out: only the end of a command takes the tail down.
LEMMA EventShows ==
  ASSUME ShownInv, NEW ev, EventStep(ev), Shapes',
         ev = "preexec" => tail'.kind = "Running",
         ev # "finished" /\ tail.kind = "Running" => tail'.kind = "Running"
  PROVE  ShownInv'
<1> USE DEF ShownInv, StreamInv
<1>1. /\ Typed' /\ Ahead[1][1] = ev /\ 1 \in DOMAIN Ahead
      /\ \A k \in DOMAIN Ahead' : k \in Nat /\ k + 1 \in DOMAIN Ahead /\ Ahead'[k] = Ahead[k + 1]
      /\ \A i \in DOMAIN Ahead : i \in Nat /\ i >= 1 /\ (i = 1 \/ i - 1 \in DOMAIN Ahead')
      /\ Kinds = {ev} \cup Kinds'
  BY HandAhead
<1>2. UNCHANGED <<sh, phase, sampled, exited>> /\ phase = "events"
  BY DEF EventStep, FrameStep, shellVars, HasEvent
<1>3. StreamInv'
  BY <1>1, <1>2
<1>4. ASSUME sh = "running" PROVE (tail'.kind = "Running" \/ "preexec" \in Kinds') /\ StartsFollowEnds'
  <2>1. (tail.kind = "Running" \/ "preexec" \in Kinds) /\ StartsFollowEnds
    BY <1>4 DEF ProgramShows
  <2>2. ASSUME NEW j \in DOMAIN Ahead, j # 1
        PROVE  j - 1 \in DOMAIN Ahead' /\ Ahead'[j - 1] = Ahead[j]
    <3>1. j - 1 \in DOMAIN Ahead' /\ (j - 1) + 1 = j
      BY <1>1, <2>2
    <3>2. QED BY <1>1, <3>1
  <2>3. StartsFollowEnds'
    <3> SUFFICES ASSUME NEW k \in DOMAIN Ahead', Ahead'[k][1] = "finished"
                 PROVE  \E j \in DOMAIN Ahead' : k < j /\ Ahead'[j][1] = "preexec"
      BY DEF StartsFollowEnds
    <3>1. k \in Nat /\ k + 1 \in DOMAIN Ahead /\ Ahead[k + 1][1] = "finished"
      BY <1>1
    <3>2. PICK j \in DOMAIN Ahead : k + 1 < j /\ Ahead[j][1] = "preexec"
      BY <2>1, <3>1 DEF StartsFollowEnds
    <3>3. j # 1 /\ k < j - 1
      BY <1>1, <3>1, <3>2
    <3>4. QED BY <2>2, <3>2, <3>3
  <2>4. CASE ev = "finished"
    <3>1. PICK j \in DOMAIN Ahead : 1 < j /\ Ahead[j][1] = "preexec"
      BY <1>1, <2>1, <2>4 DEF StartsFollowEnds
    <3>2. "preexec" \in Kinds'
      BY <2>2, <3>1 DEF Kinds, KindsOf
    <3>3. QED BY <2>3, <3>2
  <2>5. CASE ev # "finished"
    BY <1>1, <2>1, <2>3, <2>5
  <2>6. QED BY <2>4, <2>5
<1>5. QED BY <1>2, <1>3, <1>4 DEF ProgramShows

\* A frame that moves no item, and the user's keys, leave the tail up.
LEMMA StillShows ==
  ASSUME ShownInv, UNCHANGED <<events, stream, sh, exited>>, Shapes', tail'.kind = tail.kind,
         phase' = "input" => phase = "input" \/ events = <<>>,
         phase' = "input" => sampled' \in {sampled, EditorActive},
         phase' = "input" /\ phase # "input" => sampled' = EditorActive
  PROVE  ShownInv'
<1> USE DEF ShownInv, StreamInv
<1>1. UNCHANGED <<Ahead, Kinds>> /\ Typed' /\ (StartsFollowEnds => StartsFollowEnds')
  BY StillAhead
<1>2. StreamInv'
  BY <1>1
<1>3. ASSUME sh = "running", phase' = "input", stream' = <<>> PROVE ~sampled'
  <2>1. events = <<>> /\ stream = <<>>
    BY <1>3
  <2>2. Kinds = {}
    BY <2>1 DEF Kinds, KindsOf, Ahead
  <2>3. ~EditorActive
    BY <1>3, <2>2 DEF ProgramShows, EditorActive, Blk!EditorOnTail
  <2>4. QED BY <1>3, <2>1, <2>3 DEF ProgramShows
<1>4. QED BY <1>1, <1>2, <1>3 DEF ProgramShows

\* A feed keeps it: an event that is dropped is still ahead.
LEMMA DrainShows == ASSUME ShownInv, DrainSome PROVE ShownInv'
<1> USE DEF ShownInv, StreamInv
<1>1. PICK n \in 0..Len(stream) : Drain(n)
  BY DEF DrainSome
<1>2. /\ phase = "input" /\ Feed(n) /\ phase' # "input"
      /\ UNCHANGED <<sh, job, tail>> /\ events = <<>>
      /\ exited' = (exited \/ Fed({"eof"}, n) # <<>>)
  BY <1>1 DEF Drain, Feed, FrameStep, shellVars
<1>3. PICK from : Thinned(from, Ahead, Ahead')
  BY <1>2, DrainAhead
<1>4. Typed'
  BY <1>2, DrainAhead
<1>5. KindsOf(Ahead') \subseteq KindsOf(Ahead) /\ KindsOf(Ahead) \cap Events \subseteq KindsOf(Ahead')
  BY <1>3, ThinnedInOrder
<1>6. Kinds' \subseteq Kinds /\ Kinds \cap Events \subseteq Kinds'
  BY <1>5 DEF Kinds
<1>7. Fed({"eof"}, n) # <<>> => "eof" \in Kinds
  <2>1. PICK S : stream \in Seq(S)
    BY DEF Typed
  <2>2. Fed({"eof"}, n) \in Seq(S) /\ \E f : FedFrom(f, {"eof"}, n)
    BY <2>1, FedPlaces
  <2>3. PICK f : FedFrom(f, {"eof"}, n)
    BY <2>2
  <2>4. ASSUME Fed({"eof"}, n) # <<>> PROVE "eof" \in Kinds
    <3>1. 1 \in 1..Len(Fed({"eof"}, n))
      BY <2>2, <2>4
    <3>2. f[1] \in 1..n /\ stream[f[1]][1] = "eof"
      BY <2>3, <3>1 DEF FedFrom
    <3>3. Ahead = stream /\ f[1] \in DOMAIN stream
      BY <1>2, <2>1, <3>2 DEF Ahead
    <3>4. QED BY <3>2, <3>3 DEF Kinds, KindsOf
  <2>5. QED BY <2>4
<1>8. StreamInv'
  <2>1. Shapes'
    BY <1>2 DEF Shapes
  <2>2. QED BY <1>2, <1>4, <1>6, <1>7, <2>1
<1>9. ASSUME sh = "running" PROVE (tail'.kind = "Running" \/ "preexec" \in Kinds') /\ StartsFollowEnds'
  <2>1. (tail.kind = "Running" \/ "preexec" \in Kinds) /\ StartsFollowEnds
    BY <1>9 DEF ProgramShows
  <2>2. StartsFollowEnds'
    <3> SUFFICES ASSUME NEW k \in DOMAIN Ahead', Ahead'[k][1] = "finished"
                 PROVE  \E j \in DOMAIN Ahead' : k < j /\ Ahead'[j][1] = "preexec"
      BY DEF StartsFollowEnds
    <3>1. from[k] \in DOMAIN Ahead /\ Ahead[from[k]][1] = "finished"
      BY <1>3 DEF Thinned
    <3>2. PICK j \in DOMAIN Ahead : from[k] < j /\ Ahead[j][1] = "preexec"
      BY <2>1, <3>1 DEF StartsFollowEnds
    <3>3. PICK m \in DOMAIN Ahead' : from[m] = j
      BY <1>3, <3>2 DEF Thinned, Events
    <3>4. Ahead'[m][1] = "preexec"
      BY <1>3, <3>2, <3>3 DEF Thinned
    <3>5. k < m
      <4>1. DOMAIN Ahead' \subseteq Int /\ DOMAIN Ahead \subseteq Int
        <5>1. PICK S : events \in Seq(S) /\ stream \in Seq(S)
          BY DEF Typed
        <5>2. PICK T : events' \in Seq(T) /\ stream' \in Seq(T)
          BY <1>4 DEF Typed
        <5>3. Ahead \in Seq(S) /\ Ahead' \in Seq(T)
          BY <5>1, <5>2 DEF Ahead
        <5>4. QED BY <5>3
      <4>2. CASE m = k
        BY <3>2, <3>3, <4>1, <4>2, <3>1
      <4>3. CASE m < k
        <5>1. from[m] < from[k]
          BY <1>3, <4>3 DEF Thinned
        <5>2. QED BY <3>1, <3>2, <3>3, <4>1, <5>1
      <4>4. QED BY <4>1, <4>2, <4>3
    <3>6. QED BY <3>4, <3>5
  <2>3. "preexec" \in Kinds => "preexec" \in Kinds'
    BY <1>6 DEF Events
  <2>4. QED BY <1>2, <2>1, <2>2, <2>3
<1>10. QED BY <1>2, <1>8, <1>9 DEF ProgramShows

\* A frame keeps it.
LEMMA FrameShows == ASSUME ShownInv, FrameNext PROVE ShownInv'
<1> USE DEF ShownInv, StreamInv
<1>1. job' = [serial |-> job'.serial, text |-> job'.text, said |-> job'.said, screen |-> job'.screen]
  BY JobKeepsShape DEF Next
<1>2. CASE DrainSome
  BY <1>2, DrainShows
<1>3. CASE SyncAlt \/ RecoverAlt \/ OnPtyExit \/ ClosePane
  <2>1. /\ UNCHANGED <<events, stream, sh, exited, tail, sampled>>
        /\ phase' = "input" => phase = "input"
    BY <1>3 DEF SyncAlt, RecoverAlt, OnPtyExit, ClosePane, FrameStep, shellVars, blkVars, paneVars
  <2>2. Shapes'
    BY <1>1, <2>1, TailOperationKinds
  <2>3. QED BY <2>1, <2>2, StillShows
<1>4. CASE EndDrain
  <2>1. /\ UNCHANGED <<events, stream, sh, exited, tail>> /\ events = <<>>
        /\ sampled' = EditorActive
    BY <1>4 DEF EndDrain, DrainIsOver, FrameStep, shellVars, blkVars
  <2>2. Shapes'
    BY <1>1, <2>1, TailOperationKinds
  <2>3. QED BY <2>1, <2>2, StillShows
<1>5. CASE OnReady
  <2>1. EventStep("ready") /\ Shapes' /\ tail'.kind = tail.kind
    BY <1>1, <1>5, TailOperationKinds DEF OnReady
  <2>2. QED BY <2>1, EventShows
<1>6. CASE OnError \/ OnPrecmd \/ OnCompletion
  <2>1. PICK ev \in {"error", "precmd", "completion"} : EventStep(ev)
    BY <1>6 DEF OnError, OnPrecmd, OnCompletion
  <2>2. UNCHANGED tail
    BY <1>6 DEF OnError, OnPrecmd, OnCompletion, blkVars
  <2>3. Shapes'
    BY <1>1, <2>2, TailOperationKinds
  <2>4. QED BY <2>1, <2>2, <2>3, EventShows
<1>7. CASE OnPreexec
  <2>1. EventStep("preexec") /\ Shapes' /\ tail'.kind = "Running"
    BY <1>1, <1>7, TailOperationKinds DEF OnPreexec
  <2>2. QED BY <2>1, EventShows
<1>8. CASE OnCommandFinished
  <2>1. EventStep("finished") /\ Shapes'
    BY <1>1, <1>8, TailOperationKinds DEF OnCommandFinished
  <2>2. QED BY <2>1, EventShows
<1>9. CASE OnContinuation
  <2>1. EventStep("cont")
    BY <1>9 DEF OnContinuation
  <2>2. UNCHANGED tail \/ \E text : Blk!SetEditor(text)
    BY <1>9 DEF OnContinuation, blkVars
  <2>3. Shapes' /\ tail'.kind = tail.kind
    BY <1>1, <2>2, TailOperationKinds
  <2>4. QED BY <2>1, <2>3, EventShows
<1>10. QED
  BY <1>2, <1>3, <1>4, <1>5, <1>6, <1>7, <1>8, <1>9 DEF FrameNext

\* The user keeps it.
LEMMA UserShows == ASSUME ShownInv, UserNext PROVE ShownInv'
<1>1. job' = [serial |-> job'.serial, text |-> job'.text, said |-> job'.said, screen |-> job'.screen]
  BY JobKeepsShape DEF ShownInv, StreamInv, Next
<1>2. UNCHANGED <<events, stream, sh, exited, phase, sampled>>
  BY DEF UserNext, Type, TypeRaw, ClearEditor, Submit, SubmitHeals, AbortContinuation,
         RequestCompletion, InterruptProgram, ClearScrollback, UserStep, shellVars
<1>3. UNCHANGED tail \/ \E text : Blk!SetEditor(text)
  BY DEF UserNext, Type, TypeRaw, ClearEditor, Submit, SubmitHeals, AbortContinuation,
         RequestCompletion, InterruptProgram, ClearScrollback, blkVars, Blk!ClearScrollback
<1>4. Shapes' /\ tail'.kind = tail.kind
  BY <1>1, <1>3, TailOperationKinds DEF ShownInv, StreamInv
<1>5. QED BY <1>2, <1>4, StillShows

\* It holds of every pane.
LEMMA ShownInvHolds == Spec => []ShownInv
<1>1. Init => ShownInv
  <2> SUFFICES ASSUME Init PROVE ShownInv
    OBVIOUS
  <2>1. events = <<>> /\ stream = <<>> /\ sh = "boot" /\ job = NoJob /\ exited = FALSE
    BY DEF Init
  <2>2. PICK n : Blk!Init(n)
    BY DEF Init
  <2>3. tail = [kind |-> "Prompt", id |-> n, command |-> [serial |-> 0, text |-> <<>>], text |-> <<"">>]
    BY <2>2 DEF Blk!Init, Blk!Prompt
  <2>4. Shapes
    BY <2>1, <2>3 DEF Shapes, NoJob
  <2>5. Typed
    <3>1. <<>> \in Seq({})
      OBVIOUS
    <3>2. QED BY <2>1, <3>1 DEF Typed
  <2>6. Kinds = {}
    BY <2>1 DEF Kinds, KindsOf, Ahead
  <2>7. QED BY <2>1, <2>4, <2>5, <2>6 DEF ShownInv, StreamInv, ProgramShows
<1>2. ShownInv /\ [Next]_vars => ShownInv'
  <2> SUFFICES ASSUME ShownInv, [Next]_vars PROVE ShownInv'
    OBVIOUS
  <2>1. CASE ShellNext BY <2>1, ShellShows
  <2>2. CASE FrameNext BY <2>2, FrameShows
  <2>3. CASE UserNext  BY <2>3, UserShows
  <2>4. CASE UNCHANGED vars
    <3>1. UNCHANGED <<events, stream, sh, exited, phase, sampled, tail, job>>
      BY <2>4 DEF vars, paneVars, shellVars, blkVars
    <3>2. Shapes'
      BY <3>1 DEF ShownInv, StreamInv, Shapes
    <3>3. QED BY <3>1, <3>2, StillShows
  <2>5. QED BY <2>1, <2>2, <2>3, <2>4 DEF Next
<1>3. QED BY <1>1, <1>2, PTL DEF Spec

\* A pane that has caught up with a running program does not send the user's
\* keys to the editor, whatever was typed ahead, raw or into a completion: the
\* tail that `editor_is_active` asks is up with the program.
THEOREM ProgramKeepsItsKeys == Spec => []EditorNeverCoversProgram
<1>1. ShownInv => EditorNeverCoversProgram
  <2> SUFFICES ASSUME ShownInv, phase = "input", stream = <<>>, sh = "running"
               PROVE  ~sampled /\ ~EditorActive
    BY DEF EditorNeverCoversProgram
  <2>1. Kinds = {}
    BY DEF ShownInv, StreamInv, Kinds, KindsOf, Ahead
  <2>2. QED
    BY <2>1 DEF ShownInv, ProgramShows, EditorActive, Blk!EditorOnTail
<1>2. QED BY <1>1, ShownInvHolds, PTL

-----------------------------------------------------------------------------
(***************************************************************************)
(* What a pane and its shell believe of each other when the user waits for *)
(* the screen to settle before typing (PatientUser): the dialogue.         *)
(*                                                                         *)
(* The invariant says it for every place the shell can be: running a       *)
(* command (AtRunning), holding open lines (AtPs2), at its prompt          *)
(* (AtPrompt), or not yet heard (Greeting).  Each of them relates what the *)
(* pane remembers of the submit, what is on its way to the shell, what the *)
(* shell holds and what it has written.  Beside them stand the order of    *)
(* the items ahead (Ordered), the texts a user can have typed (Remembered) *)
(* and the sample the keys are routed by (Fresh).                          *)
(*                                                                         *)
(* First the texts: what the shell reads of a text is its lines that are   *)
(* not blank, and the rest of a continued text is what the shell has not   *)
(* read (SendsTheRest).  Then the steps of the frame, of the user, and of  *)
(* the shell, one lemma for each.  On the dialogue stand the tally of the  *)
(* commands and their blocks (Tally), and whose the rows on the screen are *)
(* (Own).                                                                  *)
(***************************************************************************)

-----------------------------------------------------------------------------
(* Texts: what the user types, what is written of it, and what is sent.    *)

\* A text a user who pastes nothing can have in the editor: the line that
\* completes a command is its last, and only an empty editor begins empty.
EndsLast(text) == \A i \in DOMAIN text : text[i] = "done" => i = Len(text)

TextOK(text) ==
  /\ text \in Seq(Lines) /\ text # <<>>
  /\ EndsLast(text)
  /\ text[1] = "" => Len(text) = 1

\* It holds a command that is not complete.
LeavesOpen(text) == text[1] # "" /\ \A i \in DOMAIN text : text[i] # "done"

NotBlank(text) == {i \in DOMAIN text : text[i] # ""}

\* The places of a sequence, and two that have the same items.
LEMMA Places ==
  ASSUME NEW S, NEW s \in Seq(S)
  PROVE  /\ DOMAIN s = 1..Len(s) /\ Len(s) \in Nat
         /\ s # <<>> => Len(s) >= 1 /\ s[1] \in S /\ s[Len(s)] \in S
                        /\ 1 \in 1..Len(s) /\ Len(s) \in 1..Len(s)
         /\ \A i \in 1..Len(s) : s[i] \in S
         /\ Len(s) >= 1 => s # <<>>
         /\ Len(s) = 1 => s = <<s[1]>>
         /\ s \o <<>> = s
         /\ s = [i \in 1..Len(s) |-> s[i]]
  OBVIOUS

\* Two sequences of the same length and items are one.
LEMMA SameItems ==
  ASSUME NEW S, NEW s \in Seq(S), NEW t \in Seq(S), Len(s) = Len(t),
         \A i \in 1..Len(s) : s[i] = t[i]
  PROVE  s = t
  OBVIOUS

\* One item of a sequence replaced.
LEMMA Replaced ==
  ASSUME NEW S, NEW s \in Seq(S), NEW n \in 1..Len(s), NEW x \in S
  PROVE  LET t == [s EXCEPT ![n] = x]
         IN  /\ t \in Seq(S) /\ Len(t) = Len(s) /\ DOMAIN t = 1..Len(s) /\ t[n] = x
             /\ \A i \in 1..Len(s) : i # n => t[i] = s[i]
<1> DEFINE t == [s EXCEPT ![n] = x]
<1>1. s \in [1..Len(s) -> S] /\ Len(s) \in Nat
  OBVIOUS
<1>2. /\ t \in [1..Len(s) -> S] /\ t[n] = x
      /\ \A i \in 1..Len(s) : i # n => t[i] = s[i]
  BY <1>1
<1> HIDE DEF t
<1>3. t \in Seq(S) /\ DOMAIN t = 1..Len(s) /\ Len(t) = Len(s)
  BY <1>1, <1>2
<1>4. QED BY <1>2, <1>3 DEF t

\* A sequence is what stands before a place, and the rest.
LEMMA SplitAt ==
  ASSUME NEW S, NEW s \in Seq(S), NEW n \in 0..Len(s)
  PROVE  LET a == SubSeq(s, 1, n)
             b == SubSeq(s, n + 1, Len(s))
         IN  /\ a \in Seq(S) /\ b \in Seq(S) /\ s = a \o b
             /\ Len(a) = n /\ Len(b) = Len(s) - n
             /\ \A i \in 1..n : a[i] = s[i]
             /\ \A i \in 1..(Len(s) - n) : b[i] = s[n + i]
<1> DEFINE a == SubSeq(s, 1, n)
           b == SubSeq(s, n + 1, Len(s))
<1>1. /\ Len(s) \in Nat /\ n \in Nat /\ n <= Len(s)
      /\ a \in Seq(S) /\ Len(a) = n
      /\ \A i \in 1..n : a[i] = s[i]
  OBVIOUS
<1>2. /\ b \in Seq(S) /\ Len(b) = Len(s) - n
      /\ \A i \in 1..(Len(s) - n) : b[i] = s[n + i]
  OBVIOUS
<1> DEFINE u == a \o b
<1> HIDE DEF a, b
<1>3. /\ u \in Seq(S) /\ Len(u) = Len(a) + Len(b)
      /\ \A i \in 1..Len(a) : u[i] = a[i]
      /\ \A i \in 1..Len(b) : u[Len(a) + i] = b[i]
  <2>1. S \cup S = S
    OBVIOUS
  <2>2. a \in Seq(S) /\ b \in Seq(S)
    BY <1>1, <1>2
  <2>3. /\ u \in Seq(S \cup S) /\ Len(u) = Len(a) + Len(b)
        /\ \A i \in 1..Len(a) : u[i] = a[i]
        /\ \A i \in 1..Len(b) : u[Len(a) + i] = b[i]
    BY <2>2, Joined
  <2>4. QED BY <2>1, <2>3
<1> HIDE DEF u
<1>4. ASSUME NEW i \in 1..Len(s) PROVE u[i] = s[i]
  <2>1. CASE i \in 1..n
    BY <1>1, <1>3, <2>1
  <2>2. CASE i \notin 1..n
    <3>1. i - n \in 1..(Len(s) - n) /\ n + (i - n) = i
      BY <1>1, <2>2
    <3>2. u[n + (i - n)] = b[i - n] /\ b[i - n] = s[n + (i - n)]
      BY <1>1, <1>2, <1>3, <3>1
    <3>3. QED BY <3>1, <3>2
  <2>3. QED BY <2>1, <2>2
<1>5. Len(u) = Len(s)
  BY <1>1, <1>2, <1>3
<1>6. s = u
  BY <1>3, <1>4, <1>5, SameItems
<1>7. QED BY <1>1, <1>2, <1>6 DEF a, b, u

\* The lines written of a text are its lines that are not blank.
LEMMA WrittenLines ==
  ASSUME NEW text \in Seq(Lines)
  PROVE  /\ Written(text) \in Seq(Lines)
         /\ \A k \in DOMAIN Written(text) : \E i \in DOMAIN text :
              Written(text)[k] = text[i] /\ text[i] # ""
         /\ \A i \in DOMAIN text : text[i] # "" =>
              \E k \in DOMAIN Written(text) : Written(text)[k] = text[i]
<1>1. Written(text) = Keep(text, NotBlank(text))
  BY DEF Written, NotBlank
<1>2. Keep(text, NotBlank(text)) \in Seq(Lines)
  BY KeepType
<1>3. PICK from : KeptFrom(from, text, NotBlank(text))
  BY KeepPlaces
<1>4. DOMAIN text = 1..Len(text) /\ DOMAIN Written(text) = 1..Len(Written(text))
  BY <1>1, <1>2
<1>5. \A i \in 1..Len(text) \cap NotBlank(text) : i \in DOMAIN text /\ text[i] # ""
  BY DEF NotBlank
<1>6. \A i \in DOMAIN text : text[i] # "" => i \in 1..Len(text) \cap NotBlank(text)
  BY <1>4 DEF NotBlank
<1>7. ASSUME NEW k \in DOMAIN Written(text)
      PROVE  \E i \in DOMAIN text : Written(text)[k] = text[i] /\ text[i] # ""
  <2>1. from[k] \in 1..Len(text) \cap NotBlank(text) /\ Written(text)[k] = text[from[k]]
    BY <1>1, <1>3, <1>4 DEF KeptFrom
  <2>2. QED BY <1>5, <2>1
<1>8. ASSUME NEW i \in DOMAIN text, text[i] # ""
      PROVE  \E k \in DOMAIN Written(text) : Written(text)[k] = text[i]
  <2>1. PICK k \in 1..Len(Written(text)) : from[k] = i
    BY <1>1, <1>3, <1>6, <1>8 DEF KeptFrom
  <2>2. Written(text)[k] = text[i]
    BY <1>1, <1>3, <2>1 DEF KeptFrom
  <2>3. QED BY <1>4, <2>1, <2>2
<1>9. QED BY <1>1, <1>2, <1>7, <1>8

\* What is written of a text in two parts.
LEMMA WrittenJoin ==
  ASSUME NEW s \in Seq(Lines), NEW t \in Seq(Lines)
  PROVE  Written(s \o t) = Written(s) \o Written(t) /\ s \o t \in Seq(Lines)
<1> DEFINE u == s \o t
<1>1. /\ u \in Seq(Lines) /\ Len(s) \in Nat /\ Len(t) \in Nat
      /\ DOMAIN s = 1..Len(s) /\ DOMAIN t = 1..Len(t) /\ DOMAIN u = 1..(Len(s) + Len(t))
      /\ \A n \in 1..Len(s) : u[n] = s[n]
      /\ \A n \in 1..Len(t) : u[Len(s) + n] = t[n]
  BY Joined
<1>2. \A n \in 1..Len(s) : n \in DOMAIN u
  BY <1>1
<1>3. \A n \in 1..Len(t) : Len(s) + n \in DOMAIN u
  BY <1>1
<1> HIDE DEF u
<1>4. \A n \in 1..Len(s) : n \in NotBlank(u) <=> n \in NotBlank(s)
  BY <1>1, <1>2 DEF NotBlank
<1>5. \A n \in 1..Len(t) : Len(s) + n \in NotBlank(u) <=> n \in NotBlank(t)
  BY <1>1, <1>3 DEF NotBlank
<1>6. Keep(s \o t, NotBlank(u)) = Keep(s, NotBlank(s)) \o Keep(t, NotBlank(t))
  <2> DEFINE w == NotBlank(u)
             l == NotBlank(s)
             r == NotBlank(t)
  <2>1. (\A n \in 1..Len(s) : n \in w <=> n \in l) /\ (\A n \in 1..Len(t) : Len(s) + n \in w <=> n \in r)
    BY <1>4, <1>5
  <2> HIDE DEF w, l, r
  <2>2. Keep(s \o t, w) = Keep(s, l) \o Keep(t, r)
    BY <2>1, KeepConcat
  <2>3. QED BY <2>2 DEF w, l, r
<1>7. QED BY <1>1, <1>6 DEF Written, NotBlank, u

\* Nothing is written of a blank line.
LEMMA WrittenBlank ==
  /\ Written(<<"">>) = <<>> /\ Written(<<>>) = <<>>
  /\ <<"">> \in Seq(Lines) /\ <<>> \in Seq(Lines)
<1> DEFINE b == <<"">>
<1>1. <<"">> \in Seq(Lines) /\ <<>> \in Seq(Lines) /\ b[1] = "" /\ DOMAIN b = {1}
  BY DEF Lines
<1> HIDE DEF b
<1>2. Written(b) = <<>>
  <2>1. b \in Seq(Lines)
    BY <1>1 DEF b
  <2>2. Written(b) \in Seq(Lines)
    BY <2>1, WrittenLines
  <2>3. \A k \in DOMAIN Written(b) : \E i \in DOMAIN b : b[i] # ""
    BY <2>1, WrittenLines
  <2>4. DOMAIN Written(b) = {}
    BY <1>1, <2>3
  <2>5. QED BY <2>2, <2>4
<1>3. Written(<<>>) = <<>>
  BY KeepNone DEF Written
<1>4. QED BY <1>1, <1>2, <1>3 DEF b

\* The text of an empty editor.
LEMMA EmptyIsOK == TextOK(<<"">>) /\ EndsLast(<<>>)
<1> DEFINE b == <<"">>
<1>1. b \in Seq(Lines) /\ b # <<>> /\ b[1] = "" /\ DOMAIN b = {1} /\ Len(b) = 1
  <2>1. b \in Seq(Lines)
    BY WrittenBlank
  <2>2. b # <<>> /\ b[1] = "" /\ DOMAIN b = {1} /\ Len(b) = 1
    OBVIOUS
  <2>3. QED BY <2>1, <2>2
<1> HIDE DEF b
<1>2. TextOK(b)
  BY <1>1 DEF TextOK, EndsLast
<1>3. EndsLast(<<>>)
  BY DEF EndsLast
<1>4. QED BY <1>2, <1>3 DEF b

\* A text with a new line at its end.
LEMMA NextLineIsOK ==
  ASSUME NEW text, TextOK(text), LeavesOpen(text), NEW line \in Lines
  PROVE  TextOK(Append(text, line)) /\ Append(text, line) # <<>>
<1> DEFINE t == Append(text, line)
<1>1. text \in Seq(Lines) /\ text # <<>> /\ text[1] # "" /\ \A i \in DOMAIN text : text[i] # "done"
  BY DEF TextOK, LeavesOpen
<1>2. /\ t \in Seq(Lines) /\ t # <<>> /\ Len(t) = Len(text) + 1 /\ t[1] = text[1]
      /\ \A i \in DOMAIN t : i = Len(t) \/ (i \in DOMAIN text /\ t[i] = text[i])
  <2>1. /\ t \in Seq(Lines) /\ t # <<>> /\ Len(t) = Len(text) + 1
        /\ Len(text) \in Nat /\ Len(text) >= 1
        /\ DOMAIN t = 1..(Len(text) + 1) /\ DOMAIN text = 1..Len(text)
        /\ \A i \in 1..Len(text) : t[i] = text[i]
    <3>1. Lines \cup {line} = Lines
      OBVIOUS
    <3>2. text \in Seq(Lines) /\ text # <<>>
      BY <1>1
    <3>3. /\ t \in Seq(Lines \cup {line}) /\ Len(t) = Len(text) + 1
          /\ DOMAIN t = 1..Len(text) + 1 /\ \A i \in DOMAIN text : t[i] = text[i]
      BY <3>2, AppendAny
    <3>4. DOMAIN text = 1..Len(text) /\ Len(text) \in Nat /\ Len(text) >= 1
      BY <3>2, Places
    <3> HIDE DEF t
    <3>5. t # <<>>
      BY <3>1, <3>3, <3>4
    <3>6. QED BY <3>1, <3>3, <3>4, <3>5
  <2> HIDE DEF t
  <2>2. t[1] = text[1]
    BY <2>1
  <2>3. ASSUME NEW i \in DOMAIN t PROVE i = Len(t) \/ (i \in DOMAIN text /\ t[i] = text[i])
    BY <2>1
  <2>4. QED BY <2>1, <2>2, <2>3
<1> HIDE DEF t
<1>3. TextOK(t)
  BY <1>1, <1>2 DEF TextOK, EndsLast
<1>4. QED BY <1>2, <1>3 DEF t

\* A text whose last line is not "done" and that is not empty leaves its
\* command open; so does one of which open lines are written, and one that
\* fish reads as open.
LEMMA LeftOpenLeavesOpen ==
  ASSUME NEW text, TextOK(text)
  PROVE  /\ text[Len(text)] # "done" /\ text # <<"">> => LeavesOpen(text)
         /\ (\A k \in DOMAIN Written(text) : Written(text)[k] # "done") /\ Written(text) # <<>>
              => LeavesOpen(text)
         /\ LeftOpen(text) => LeavesOpen(text)
<1>1. /\ text \in Seq(Lines) /\ text # <<>> /\ EndsLast(text) /\ (text[1] = "" => Len(text) = 1)
  BY DEF TextOK
<1>2. ASSUME text[1] = "" PROVE text = <<"">>
  <2>1. Len(text) = 1
    BY <1>1, <1>2
  <2>2. text = <<text[1]>>
    BY <1>1, <2>1
  <2>3. QED BY <1>2, <2>2
<1>3. text[1] = "" => Written(text) = <<>>
  BY <1>2, WrittenBlank
<1>4. ASSUME text[Len(text)] # "done", text # <<"">> PROVE LeavesOpen(text)
  BY <1>1, <1>2, <1>4 DEF EndsLast, LeavesOpen
<1>5. ASSUME \A k \in DOMAIN Written(text) : Written(text)[k] # "done", Written(text) # <<>>
      PROVE  LeavesOpen(text)
  <2>1. \A i \in DOMAIN text : text[i] # "done"
    <3>1. \A i \in DOMAIN text : text[i] # "" =>
              \E k \in DOMAIN Written(text) : Written(text)[k] = text[i]
      BY <1>1, WrittenLines
    <3>2. QED BY <1>5, <3>1
  <2>2. QED BY <1>3, <1>5, <2>1 DEF LeavesOpen
<1>6. ASSUME LeftOpen(text) PROVE LeavesOpen(text)
  <2>1. Written(text) # <<>> /\ Last(Written(text)) = "more"
    BY <1>6 DEF LeftOpen
  <2>2. CASE text[Len(text)] # "done"
    BY <1>4, <2>1, <2>2, WrittenBlank
  <2>3. CASE text[Len(text)] = "done"
    <3> DEFINE front == SubSeq(text, 1, Len(text) - 1)
               d == <<"done">>
    <3>1. front \in Seq(Lines) /\ d \in Seq(Lines) /\ text = front \o d
      <4>1. d \in Seq(Lines)
        BY DEF Lines
      <4>6. text \in Seq(Lines) /\ text # <<>>
        BY <1>1
      <4>7. Len(text) \in Nat /\ Len(text) >= 1
        BY <4>6, Places
      <4>2. Len(text) - 1 \in 0..Len(text) /\ (Len(text) - 1) + 1 = Len(text)
            /\ Len(text) - (Len(text) - 1) = 1
        BY <4>7
      <4> DEFINE end == SubSeq(text, Len(text), Len(text))
      <4>3. front \in Seq(Lines) /\ end \in Seq(Lines) /\ text = front \o end /\ Len(end) = 1
            /\ end[1] = text[Len(text)]
        <5> DEFINE n == Len(text) - 1
        <5>1. /\ front \in Seq(Lines) /\ SubSeq(text, n + 1, Len(text)) \in Seq(Lines)
              /\ text = front \o SubSeq(text, n + 1, Len(text))
              /\ Len(SubSeq(text, n + 1, Len(text))) = Len(text) - n
              /\ \A i \in 1..(Len(text) - n) : SubSeq(text, n + 1, Len(text))[i] = text[n + i]
          BY <4>6, <4>2, SplitAt
        <5>2. n + 1 = Len(text) /\ Len(text) - n = 1 /\ 1 \in 1..(Len(text) - n)
          BY <4>7
        <5>4. SubSeq(text, n + 1, Len(text)) = end
          BY <5>2
        <5> HIDE DEF n, end, front
        <5>3. QED BY <5>1, <5>2, <5>4
      <4>4. end = d
        <5>1. d \in Seq(Lines) /\ Len(d) = 1 /\ d[1] = "done" /\ 1 \in 1..1
          BY <4>1
        <5> HIDE DEF end, d
        <5>4. \A i \in 1..1 : i = 1
          OBVIOUS
        <5>2. \A i \in 1..1 : end[i] = d[i]
          BY <2>3, <4>3, <5>1, <5>4
        <5>3. QED BY <4>3, <5>1, <5>2, SameItems
      <4>5. QED BY <4>1, <4>3, <4>4
    <3>2. Written(text) = Written(front) \o Written(d)
      BY <3>1, WrittenJoin
    <3>3. d[1] = "done" /\ DOMAIN d = {1}
      OBVIOUS
    <3> HIDE DEF front, d
    <3>4. /\ Written(front) \in Seq(Lines) /\ Written(d) \in Seq(Lines)
          /\ \A k \in DOMAIN Written(d) : Written(d)[k] = "done"
          /\ \E k \in DOMAIN Written(d) : Written(d)[k] = "done"
      <4>1. Written(front) \in Seq(Lines) /\ Written(d) \in Seq(Lines)
        BY <3>1, WrittenLines
      <4>2. \A k \in DOMAIN Written(d) : \E i \in DOMAIN d : Written(d)[k] = d[i]
        BY <3>1, WrittenLines
      <4>3. \A i \in DOMAIN d : d[i] # "" => \E k \in DOMAIN Written(d) : Written(d)[k] = d[i]
        BY <3>1, WrittenLines
      <4>4. QED BY <3>3, <4>1, <4>2, <4>3
    <3> DEFINE p == Written(front)
               q == Written(d)
    <3>5. Last(p \o q) = "done"
      <4>1. p \in Seq(Lines) /\ q \in Seq(Lines) /\ q # <<>> /\ q[Len(q)] = "done"
        BY <3>4
      <4> HIDE DEF p, q
      <4>2. (p \o q)[Len(p \o q)] = q[Len(q)]
        BY <4>1
      <4>3. QED BY <4>1, <4>2 DEF Last
    <3>6. QED BY <2>1, <3>2, <3>5
  <2>4. QED BY <2>2, <2>3
<1>7. QED BY <1>4, <1>5, <1>6

\* Typing a line into a text.
LEMMA TypedIsOK ==
  ASSUME NEW text, TextOK(text), text[Len(text)] # "done", NEW line \in {"more", "done"}
  PROVE  TextOK(IF text[Len(text)] = "" THEN [text EXCEPT ![Len(text)] = line]
                ELSE Append(text, line))
<1>1. text \in Seq(Lines) /\ text # <<>> /\ EndsLast(text) /\ (text[1] = "" => Len(text) = 1)
  BY DEF TextOK
<1>2. DOMAIN text = 1..Len(text) /\ Len(text) \in Nat /\ Len(text) >= 1
  BY <1>1, Places
<1>3. line \in Lines /\ line # ""
  BY DEF Lines
<1>4. CASE text[Len(text)] # ""
  <2>1. text # <<"">>
    <3> DEFINE b == <<"">>
    <3>1. b[Len(b)] = ""
      OBVIOUS
    <3> HIDE DEF b
    <3>2. text # b
      BY <1>4, <3>1
    <3>3. QED BY <3>2 DEF b
  <2>2. QED BY <1>3, <1>4, <2>1, LeftOpenLeavesOpen, NextLineIsOK
<1>5. CASE text[Len(text)] = ""
  <2> DEFINE t == [text EXCEPT ![Len(text)] = line]
  <2>1. /\ t \in Seq(Lines) /\ Len(t) = Len(text) /\ DOMAIN t = 1..Len(text)
        /\ t[Len(text)] = line /\ \A i \in 1..Len(text) : i # Len(text) => t[i] = text[i]
    <3>1. text \in Seq(Lines) /\ Len(text) \in 1..Len(text)
      BY <1>1, Places
    <3> DEFINE k == Len(text)
    <3>2. k \in 1..Len(text) /\ line \in Lines
      BY <1>3, <3>1
    <3> HIDE DEF k
    <3> DEFINE u == [text EXCEPT ![k] = line]
    <3>3. /\ u \in Seq(Lines) /\ Len(u) = Len(text) /\ DOMAIN u = 1..Len(text)
          /\ u[k] = line /\ \A i \in 1..Len(text) : i # k => u[i] = text[i]
      BY <3>1, <3>2, Replaced
    <3>4. u = t
      BY DEF k
    <3> HIDE DEF u, t
    <3>5. QED BY <3>3, <3>4 DEF k
  <2> HIDE DEF t
  <2>4. EndsLast(t)
    BY <1>1, <1>2, <2>1 DEF EndsLast
  <2>5. t[1] # ""
    <3>1. 1 \in 1..Len(text)
      BY <1>2
    <3>2. CASE Len(text) = 1
      BY <1>3, <2>1, <3>2
    <3>3. CASE Len(text) # 1
      BY <1>1, <2>1, <3>1, <3>3
    <3>4. QED BY <3>2, <3>3
  <2>6. t # <<>>
    BY <1>2, <2>1, Places
  <2>7. TextOK(t)
    BY <2>1, <2>4, <2>5, <2>6 DEF TextOK
  <2>8. QED BY <1>5, <2>7 DEF t
<1>6. QED BY <1>4, <1>5

\* Every ending of a text is in its right place, too.
LEMMA RestEndsLast ==
  ASSUME NEW text \in Seq(Lines), EndsLast(text), NEW n \in 0..Len(text)
  PROVE  EndsLast(SubSeq(text, n + 1, Len(text)))
<1> DEFINE b == SubSeq(text, n + 1, Len(text))
<1>1. /\ b \in Seq(Lines) /\ Len(b) = Len(text) - n
      /\ \A i \in 1..(Len(text) - n) : b[i] = text[n + i]
  BY SplitAt
<1>2. DOMAIN b = 1..(Len(text) - n) /\ DOMAIN text = 1..Len(text) /\ Len(text) \in Nat
  BY <1>1, Places
<1> HIDE DEF b
<1>3. ASSUME NEW i \in DOMAIN b, b[i] = "done" PROVE i = Len(b)
  <2>1. n + i \in DOMAIN text /\ text[n + i] = "done"
    BY <1>1, <1>2, <1>3
  <2>2. n + i = Len(text)
    BY <2>1 DEF EndsLast
  <2>3. QED BY <1>1, <1>2, <2>2
<1>4. QED BY <1>3 DEF EndsLast, b

\* What a submit sends at PS2, `continuation_to_send`: behind the lines the
\* shell holds it makes up the text, whether the last line of what was sent
\* before has been extended, left, or emptied.
LEMMA SendsTheRest ==
  ASSUME NEW text, TextOK(text), lastSubmitted \in Seq(Lines), lastSubmitted # <<>>,
         shell # "fish", Extends(text, lastSubmitted),
         buf \in Seq(Lines), SameLines(buf, lastSubmitted)
  PROVE  /\ ToSend(text) \in Seq(Lines) /\ ToSend(text) # <<>> /\ EndsLast(ToSend(text))
         /\ SameLines(buf \o ToSend(text), text)
<1> DEFINE ls == lastSubmitted
           n == Len(ls)
           m == n - 1
           front == SubSeq(text, 1, m)
           rest == SubSeq(text, n, Len(text))
           after == SubSeq(text, n + 1, Len(text))
           all == SubSeq(text, 1, n)
<1>1. text \in Seq(Lines) /\ text # <<>> /\ EndsLast(text)
  BY DEF TextOK
<1>2. /\ Len(text) \in Nat /\ n \in Nat /\ n >= 1 /\ n <= Len(text)
      /\ DOMAIN ls = 1..n
  BY <1>1, Places DEF Extends
<1>3. n \in 0..Len(text) /\ m \in 0..Len(text) /\ m \in 0..n /\ m + 1 = n /\ n - m = 1
      /\ Len(text) - m >= 1 /\ n \in 1..Len(text)
  BY <1>2
<1>4. /\ front \in Seq(Lines) /\ rest \in Seq(Lines) /\ text = front \o rest
      /\ Len(rest) = Len(text) - m /\ EndsLast(rest)
  <2>1. /\ SubSeq(text, 1, m) \in Seq(Lines) /\ SubSeq(text, m + 1, Len(text)) \in Seq(Lines)
        /\ text = SubSeq(text, 1, m) \o SubSeq(text, m + 1, Len(text))
        /\ Len(SubSeq(text, m + 1, Len(text))) = Len(text) - m
        /\ EndsLast(SubSeq(text, m + 1, Len(text)))
    BY <1>1, <1>3, SplitAt, RestEndsLast
  <2>2. QED BY <1>3, <2>1
<1>5. /\ all \in Seq(Lines) /\ after \in Seq(Lines) /\ text = all \o after
      /\ Len(after) = Len(text) - n /\ Len(all) = n /\ EndsLast(after)
      /\ \A i \in 1..n : all[i] = text[i]
  BY <1>1, <1>3, SplitAt, RestEndsLast
<1>6. /\ Front(ls) = front /\ ls = front \o <<ls[n]>> /\ ls[n] = Last(ls)
      /\ ls[n] \in {"", text[n]} /\ ls[n] \in Lines
  <2>1. Front(ls) = front /\ ls[n] \in {"", text[n]} /\ ls[n] = Last(ls)
    BY DEF Extends, Last
  <2>2. ls[n] \in Lines
    BY Places
  <2>3. /\ SubSeq(ls, 1, m) \in Seq(Lines) /\ SubSeq(ls, m + 1, n) \in Seq(Lines)
        /\ ls = SubSeq(ls, 1, m) \o SubSeq(ls, m + 1, n)
        /\ Len(SubSeq(ls, m + 1, n)) = n - m
        /\ \A i \in 1..(n - m) : SubSeq(ls, m + 1, n)[i] = ls[m + i]
    BY <1>3, SplitAt
  <2>4. Front(ls) = SubSeq(ls, 1, m)
    BY DEF Front
  <2> DEFINE end == SubSeq(ls, m + 1, n)
             one == <<ls[n]>>
  <2>5. end = one
    <3>1. one \in Seq(Lines) /\ Len(one) = 1 /\ one[1] = ls[n]
      BY <2>2
    <3>2. end \in Seq(Lines) /\ Len(end) = 1 /\ end[1] = ls[m + 1]
      <4>1. 1 \in 1..(n - m)
        BY <1>3
      <4> HIDE DEF end, n, m
      <4>2. SubSeq(ls, m + 1, n) = end
        BY DEF end
      <4>3. QED BY <1>3, <2>3, <4>1, <4>2
    <3> HIDE DEF end, one
    <3>3. \A i \in 1..1 : i = 1
      OBVIOUS
    <3>4. \A i \in 1..Len(end) : end[i] = one[i]
      BY <1>3, <3>1, <3>2, <3>3
    <3>5. QED BY <3>1, <3>2, <3>4, SameItems
  <2>6. QED BY <2>1, <2>2, <2>3, <2>4, <2>5
<1>7. Written(buf) = Written(ls)
  BY DEF SameLines
<1>8. \A t \in Seq(Lines) : Written(buf \o t) = Written(ls) \o Written(t)
  BY <1>7, WrittenJoin
<1>9. CASE ls[n] # text[n]
  <2>1. ls[n] = ""
    BY <1>6, <1>9
  <2>2. ToSend(text) = rest
    BY <1>6, <1>9 DEF ToSend, None
  <2>3. Written(ls) = Written(front)
    <3>1. Written(front \o <<"">>) = Written(front) \o Written(<<"">>) 
      BY <1>4, WrittenJoin, WrittenBlank
    <3>2. Written(front) \o <<>> = Written(front)
      <4>1. Written(front) \in Seq(Lines)
        BY <1>4, WrittenLines
      <4>2. QED BY <4>1, Places
    <3>3. QED BY <1>6, <2>1, <3>1, <3>2, WrittenBlank
  <2>4. Written(text) = Written(front) \o Written(rest)
    BY <1>4, WrittenJoin
  <2>5. rest # <<>>
    <3>1. rest \in Seq(Lines) /\ Len(rest) >= 1
      BY <1>3, <1>4
    <3> HIDE DEF rest
    <3>2. QED BY <3>1, Places
  <2>6. QED BY <1>4, <1>8, <2>2, <2>3, <2>4, <2>5 DEF SameLines
<1>10. CASE ls[n] = text[n] /\ Len(text) = n
  <2>1. ToSend(text) = <<"">>
    BY <1>6, <1>10 DEF ToSend, None
  <2>2. text = ls
    <3>1. Len(rest) = 1
      BY <1>2, <1>3, <1>4, <1>10
    <3>2. rest[1] = text[n]
      <4>1. 1 \in 1..(Len(text) - m) /\ m + 1 = n
        BY <1>2, <1>3
      <4>2. SubSeq(text, m + 1, Len(text))[1] = text[m + 1]
        BY <1>1, <1>3, <4>1, SplitAt
      <4>3. QED BY <4>1, <4>2
    <3>3. rest \in Seq(Lines)
      BY <1>4
    <3> HIDE DEF rest
    <3>4. rest = <<text[n]>>
      BY <3>1, <3>2, <3>3, Places
    <3>5. QED BY <1>4, <1>6, <1>10, <3>4
  <2>3. Written(buf \o <<"">>) = Written(ls)
    <3>1. Written(buf \o <<"">>) = Written(ls) \o <<>>
      BY <1>8, WrittenBlank
    <3>2. Written(ls) \in Seq(Lines)
      BY WrittenLines
    <3>3. QED BY <3>1, <3>2, Places
  <2>4. EndsLast(<<"">>)
    BY EmptyIsOK DEF TextOK
  <2> DEFINE b == <<"">>
  <2>5. b \in Seq(Lines) /\ b # <<>> /\ EndsLast(b) /\ ToSend(text) = b
    BY <2>1, <2>4, WrittenBlank
  <2>6. Written(buf \o b) = Written(text)
    BY <2>2, <2>3
  <2> HIDE DEF b
  <2>7. QED BY <2>5, <2>6 DEF SameLines
<1>11. CASE ls[n] = text[n] /\ Len(text) # n
  <2>1. ToSend(text) = after
    BY <1>6, <1>11 DEF ToSend, None
  <2>2. all = ls
    <3>2. \A i \in 1..n : all[i] = ls[i]
      <4>1. \A i \in 1..m : SubSeq(ls, 1, m)[i] = ls[i]
        BY <1>3, SplitAt
      <4>2. \A i \in 1..m : SubSeq(text, 1, m)[i] = text[i]
        BY <1>1, <1>3, SplitAt
      <4>3. SubSeq(ls, 1, m) = SubSeq(text, 1, m)
        BY <1>6 DEF Front
      <4>4. \A i \in 1..n : i \in 1..m \/ i = n
        <5>1. n \in Int /\ m \in Int /\ m + 1 = n
          BY <1>2, <1>3
        <5> HIDE DEF n, m
        <5>2. QED BY <5>1
      <4>5. QED BY <1>5, <1>11, <4>1, <4>2, <4>3, <4>4
    <3>3. QED BY <1>5, <3>2, SameItems
  <2>3. Written(text) = Written(ls) \o Written(after)
    <3>1. Written(all \o after) = Written(all) \o Written(after)
      BY <1>5, WrittenJoin
    <3> HIDE DEF all, after
    <3>2. QED BY <1>5, <2>2, <3>1
  <2>4. after # <<>>
    <3>1. after \in Seq(Lines) /\ Len(after) >= 1
      <4>1. Len(text) - n >= 1
        BY <1>2, <1>11
      <4>2. QED BY <1>5, <4>1
    <3> HIDE DEF after
    <3>2. QED BY <3>1, Places
  <2>5. QED BY <1>5, <1>8, <2>1, <2>3, <2>4 DEF SameLines
<1>12. QED BY <1>9, <1>10, <1>11

-----------------------------------------------------------------------------
(* The dialogue of a shell with a user who waits.                          *)

\* The user waits for the screen to settle, and types no line ahead, asks for
\* no completion and pastes no second command.
PatientUser == Lockstep /\ ~Can("raw") /\ ~Can("complete") /\ ~Can("paste")

\* The lines that leave a command open.
OpenLines == {"", "more"}

Interrupt == << <<"intr">> >>
BareEnter == << <<"line", "">> >>
AbortKeys == << <<"intr">>, <<"line", "">> >>
LinesOf(text) == [i \in 1..Len(text) |-> <<"line", text[i]>>]
Unread == [i \in DOMAIN ptyIn |-> ptyIn[i][2]]

HasSubmitted == mode = "RawTerminal" /\ last.reason = "EnterSubmitted"

\* Until the shell has spoken nobody writes to it.
Greeting ==
  integration # "Confirmed" =>
    /\ sh \in {"boot", "prompt", "mute", "gone"}
    /\ ptyIn = <<>> /\ buf = <<>> /\ lastSubmitted = None
    /\ tail.kind = "Prompt" /\ tail.text = <<"">>
    /\ Kinds \subseteq {"out", "ready", "error", "finished", "precmd", "eof"}
    /\ ~sampled /\ mode # "ShellPromptEditor"
    /\ ~alt /\ ~lastAlt

\* It speaks once.
Greeted ==
  /\ "ready" \in Kinds \/ "error" \in Kinds => integration # "Confirmed"
  /\ sh \in {"boot", "mute"} => integration # "Confirmed" /\ "ready" \notin Kinds
  /\ sh = "boot" => Kinds = {}

\* A command runs: its start is ahead or handled, and it is what was sent.
AtRunning ==
  sh = "running" =>
    /\ buf = <<>> /\ ptyIn \in {<<>>, Interrupt}
    /\ \/ tail.kind = "Running" /\ Kinds \subseteq {"out", "alt"}
       \/ /\ tail.kind = "Prompt" /\ "preexec" \in Kinds
          /\ Kinds \subseteq {"cont", "preexec", "out", "alt"}
    /\ lastSubmitted # None => SameLines(job.text, lastSubmitted)

\* The lines the shell holds and those on their way are what was submitted,
\* and the editor is up or comes up.
Sent ==
  /\ lastSubmitted # None
  /\ Unread \in Seq(Lines) /\ ptyIn = LinesOf(Unread) /\ EndsLast(Unread)
  /\ SameLines(buf \o Unread, lastSubmitted)
  /\ mode = "ShellPromptEditor" \/ (HasSubmitted /\ ("cont" \in Kinds \/ ptyIn # <<>>))
  /\ IF ptyIn = <<>> THEN TextOK(tail.text)
     ELSE tail.text \in {<<"">>, Append(lastSubmitted, "")}

Aborted ==
  /\ lastSubmitted = None /\ ptyIn = AbortKeys /\ Kinds = {}
  /\ mode = "ShellPromptEditor" /\ TextOK(tail.text)

\* The shell holds open lines.
AtPs2 ==
  sh = "ps2" =>
    /\ shell # "fish" /\ tail.kind = "Prompt" /\ Kinds \subseteq {"cont"}
    /\ ~alt /\ ~lastAlt
    /\ buf \in Seq(OpenLines) /\ Written(buf) # <<>>
    /\ Sent \/ Aborted

\* A text is on its way to a shell at its prompt.
Submission ==
  /\ lastSubmitted # None /\ Kinds = {}
  /\ tail.kind = "Prompt" /\ tail.text = <<"">>
  /\ ~alt /\ ~lastAlt /\ HasSubmitted
  /\ ptyIn = Framed(lastSubmitted)

\* The shell is at its prompt: the end of its last command is handled or
\* ahead, and nothing is on its way to it but what the user just sent.
AtPrompt ==
  sh = "prompt" =>
    /\ buf = <<>>
    /\ tail.kind = "Running" => "finished" \in Kinds /\ "preexec" \notin Kinds
    /\ "preexec" \in Kinds => "finished" \in Kinds
    /\ tail.kind = "Prompt" /\ "preexec" \notin Kinds => TextOK(tail.text)
    /\ "cont" \in Kinds /\ "preexec" \notin Kinds /\ lastSubmitted # None
         => LeavesOpen(lastSubmitted)
    /\ \/ /\ ptyIn \in {<<>>, Interrupt}
          /\ shell = "fish" \/ lastSubmitted = None \/ "precmd" \in Kinds
       \/ ptyIn = BareEnter /\ shell # "fish"
       \/ Submission

Remembered == lastSubmitted # None => TextOK(lastSubmitted)

\* The sample of the last frame is still good when the user acts on it.
Fresh ==
  phase = "input" /\ sampled /\ stream = <<>> /\ sh \in {"prompt", "ps2"}
    /\ (ptyIn = <<>> \/ ptyIn[1][1] = "intr") => mode = "ShellPromptEditor"

Dialogue ==
  /\ Ordered(Ahead) /\ ~skip
  /\ Greeting /\ Greeted /\ Remembered /\ Fresh
  /\ AtRunning /\ AtPs2 /\ AtPrompt

\* What is known of every pane, whoever uses it.
Known == StreamInv /\ ScreenInv /\ Ctl!TypeOK /\ Ctl!HandshakeGatesEditor

-----------------------------------------------------------------------------

\* The lines on their way to the shell, as it takes them.
LEMMA Queue ==
  ASSUME NEW text \in Seq(Lines)
  PROVE  /\ LinesOf(text) = <<>> <=> text = <<>>
         /\ ptyIn = LinesOf(text) => Unread = text
         /\ text # <<>> =>
              /\ Head(LinesOf(text)) = <<"line", text[1]>>
              /\ Head(LinesOf(text))[1] = "line" /\ Head(LinesOf(text))[2] = text[1]
              /\ LinesOf(text)[1][1] = "line"
              /\ Tail(text) \in Seq(Lines) /\ Tail(LinesOf(text)) = LinesOf(Tail(text))
              /\ text = <<text[1]>> \o Tail(text) /\ text[1] \in Lines
<1> DEFINE q == LinesOf(text)
           item(l) == <<"line", l>>
<1>1. Len(text) \in Nat /\ DOMAIN text = 1..Len(text) /\ \A i \in 1..Len(text) : text[i] \in Lines
  BY Places
<1>2. \A l : item(l)[1] = "line" /\ item(l)[2] = l
  OBVIOUS
<1>3. q = [i \in 1..Len(text) |-> item(text[i])]
  BY DEF LinesOf
<1>10. \A i \in 1..Len(text) : item(text[i]) \in {item(l) : l \in Lines}
  BY <1>1
<1> HIDE DEF item, q
<1>4. /\ q \in Seq({item(l) : l \in Lines}) /\ Len(q) = Len(text) /\ DOMAIN q = 1..Len(text)
      /\ \A i \in 1..Len(text) : q[i] = item(text[i])
  BY <1>1, <1>3, <1>10
<1>5. q = <<>> <=> text = <<>>
  BY <1>4
<1>6. ASSUME ptyIn = q PROVE Unread = text
  <2>1. Unread = [i \in 1..Len(text) |-> text[i]]
    BY <1>2, <1>4, <1>6 DEF Unread
  <2>2. QED BY <1>1, <2>1
<1>7. ASSUME text # <<>>
      PROVE  /\ Head(q) = item(text[1]) /\ q[1][1] = "line"
             /\ Tail(text) \in Seq(Lines) /\ Tail(q) = LinesOf(Tail(text))
             /\ text = <<text[1]>> \o Tail(text) /\ text[1] \in Lines
  <2>1. Len(text) >= 1 /\ 1 \in 1..Len(text)
    BY <1>7, Places
  <2>2. Head(q) = item(text[1]) /\ q[1][1] = "line"
    BY <1>2, <1>4, <2>1
  <2>3. text[1] \in Lines
    BY <1>1, <2>1
  <2>4. /\ Tail(text) \in Seq(Lines) /\ Len(Tail(text)) = Len(text) - 1
        /\ \A i \in 1..(Len(text) - 1) : Tail(text)[i] = text[i + 1]
    BY <1>7
  <2>5. /\ Tail(q) \in Seq({item(l) : l \in Lines}) /\ Len(Tail(q)) = Len(text) - 1
        /\ \A i \in 1..(Len(text) - 1) : Tail(q)[i] = q[i + 1]
    BY <1>4, <1>5, <1>7
  <2>6. Tail(q) = LinesOf(Tail(text))
    <3> DEFINE t == Tail(text)
               k == Len(text) - 1
    <3>1. k \in Nat /\ \A i \in 1..k : i + 1 \in 1..Len(text)
      BY <1>1, <2>1
    <3>2. LinesOf(t) = [i \in 1..k |-> item(t[i])]
      BY <2>4 DEF LinesOf, item
    <3>3. DOMAIN Tail(q) = 1..k
      BY <2>5, Places
    <3>4. \A i \in 1..k : Tail(q)[i] = item(t[i])
      BY <1>4, <2>4, <2>5, <3>1
    <3> HIDE DEF k, t
    <3>5. Tail(q) = [i \in 1..k |-> item(t[i])]
      <4>1. Tail(q) = [i \in DOMAIN Tail(q) |-> Tail(q)[i]]
        <5> DEFINE r == Tail(q)
        <5>1. r \in Seq({item(l) : l \in Lines}) /\ DOMAIN r = 1..k
          BY <2>5, <3>3
        <5> HIDE DEF r
        <5>2. r = [i \in 1..Len(r) |-> r[i]] /\ DOMAIN r = 1..Len(r)
          BY <5>1, Places
        <5>3. QED BY <5>2 DEF r
      <4>2. QED BY <3>3, <3>4, <4>1
    <3>6. QED BY <3>2, <3>5 DEF t
  <2>7. text = <<text[1]>> \o Tail(text)
    <3> DEFINE a == SubSeq(text, 1, 1)
               b == SubSeq(text, 1 + 1, Len(text))
    <3>1. 1 \in 0..Len(text)
      BY <2>1
    <3>2. a \in Seq(Lines) /\ Len(a) = 1 /\ a[1] = text[1] /\ text = a \o b
      BY <3>1, SplitAt
    <3>3. b = Tail(text)
      BY <1>1 DEF Tail
    <3> HIDE DEF a, b
    <3>4. a = <<text[1]>>
      BY <3>2, Places
    <3>5. QED BY <3>2, <3>3, <3>4
  <2>8. QED BY <2>2, <2>3, <2>4, <2>6, <2>7
<1>8. \A l : item(l) = <<"line", l>>
  BY DEF item
<1>9. QED BY <1>2, <1>5, <1>6, <1>7, <1>8 DEF q

\* The same one step later, and that they are a sequence.
LEMMA QueueLater ==
  ASSUME NEW text \in Seq(Lines)
  PROVE  /\ ptyIn' = LinesOf(text) => Unread' = text
         /\ <<>> \o LinesOf(text) = LinesOf(text)
         /\ \E S : LinesOf(text) \in Seq(S)
<1> DEFINE q == LinesOf(text)
           item(l) == <<"line", l>>
<1>1. Len(text) \in Nat /\ DOMAIN text = 1..Len(text) /\ text = [i \in 1..Len(text) |-> text[i]]
  BY Places
<1>2. \A l : item(l)[2] = l
  OBVIOUS
<1>3. q = [i \in 1..Len(text) |-> item(text[i])]
  BY DEF LinesOf
<1> HIDE DEF item, q
<1>4. /\ q \in Seq({item(text[i]) : i \in 1..Len(text)}) /\ DOMAIN q = 1..Len(text)
      /\ \A i \in 1..Len(text) : q[i] = item(text[i])
  BY <1>1, <1>3
<1>5. ASSUME ptyIn' = q PROVE Unread' = text
  <2>1. Unread' = [i \in 1..Len(text) |-> text[i]]
    BY <1>2, <1>4, <1>5 DEF Unread
  <2>2. QED BY <1>1, <2>1
<1>6. <<>> \o q = q
  BY <1>4
<1>7. QED BY <1>4, <1>5, <1>6 DEF q

\* The other things on their way to it.
LEMMA Keys ==
  /\ Interrupt # <<>> /\ Head(Interrupt)[1] = "intr" /\ Tail(Interrupt) = <<>>
  /\ Interrupt[1][1] = "intr"
  /\ BareEnter # <<>> /\ Head(BareEnter)[1] = "line" /\ Head(BareEnter)[2] = ""
  /\ Tail(BareEnter) = <<>> /\ BareEnter[1][1] = "line"
  /\ AbortKeys # <<>> /\ Head(AbortKeys)[1] = "intr" /\ Tail(AbortKeys) = BareEnter
  /\ AbortKeys[1][1] = "intr"
<1> DEFINE i == <<"intr">>
           l == <<"line", "">>
<1>1. i[1] = "intr" /\ l[1] = "line" /\ l[2] = ""
  OBVIOUS
<1>2. Interrupt = <<i>> /\ BareEnter = <<l>> /\ AbortKeys = <<i, l>>
  BY DEF Interrupt, BareEnter, AbortKeys
<1> HIDE DEF i, l
<1>4. /\ <<i>> # <<>> /\ Head(<<i>>) = i /\ Tail(<<i>>) = <<>> /\ <<i>>[1] = i
      /\ <<l>> # <<>> /\ Head(<<l>>) = l /\ Tail(<<l>>) = <<>> /\ <<l>>[1] = l
      /\ <<i, l>> # <<>> /\ Head(<<i, l>>) = i /\ Tail(<<i, l>>) = <<l>> /\ <<i, l>>[1] = i
  OBVIOUS
<1>5. QED BY <1>1, <1>2, <1>4

-----------------------------------------------------------------------------
(* A frame.                                                                *)

\* A step that leaves the shell, what is on its way to it and the tail alone,
\* and drops no event that the dialogue waits for.
LEMMA FrameKeepsDialogue ==
  ASSUME Dialogue, FrameStep, UNCHANGED <<lastSubmitted, tail>>,
         Ordered(Ahead'), Kinds' \subseteq Kinds,
         Kinds \cap {"preexec", "finished", "precmd", "cont"} \subseteq Kinds',
         integration' = "Confirmed" <=> integration = "Confirmed",
         mode' = "ShellPromptEditor" => mode = "ShellPromptEditor",
         ~alt /\ ~lastAlt /\ "alt" \notin Kinds => ~alt' /\ ~lastAlt',
         ~alt /\ ~lastAlt /\ sh # "gone" /\ mode \in {"ShellPromptEditor", "RawTerminal"}
           => mode' = mode /\ last'.reason = last.reason,
         sampled' => sampled \/ mode = "ShellPromptEditor",
         Fresh'
  PROVE  Dialogue'
<1>1. UNCHANGED <<sh, buf, job, skip, shell, ptyIn, lastSubmitted, tail>>
  BY DEF FrameStep, shellVars
<1>2. /\ Ordered(Ahead) /\ ~skip /\ Greeting /\ Greeted /\ Remembered
      /\ AtRunning /\ AtPs2 /\ AtPrompt
  BY DEF Dialogue
<1>3. Ordered(Ahead)' /\ ~skip'
  BY <1>1, <1>2
<1>4. Greeting'
  BY <1>1, <1>2 DEF Greeting
<1>5. Greeted'
  BY <1>1, <1>2 DEF Greeted
<1>6. Remembered'
  BY <1>1, <1>2 DEF Remembered
<1>7. AtRunning'
  BY <1>1, <1>2 DEF AtRunning, SameLines
<1>8. AtPs2'
  <2> SUFFICES ASSUME sh = "ps2" PROVE AtPs2'
    BY <1>1 DEF AtPs2
  <2>1. /\ shell # "fish" /\ tail.kind = "Prompt" /\ Kinds \subseteq {"cont"}
        /\ ~alt /\ ~lastAlt
    BY <1>2 DEF AtPs2
  <2>2. buf \in Seq(OpenLines) /\ Written(buf) # <<>>
    BY <1>2 DEF AtPs2
  <2>3. Sent \/ Aborted
    BY <1>2 DEF AtPs2
  <2>4. ~alt' /\ ~lastAlt' /\ Kinds' \subseteq {"cont"} /\ ("cont" \in Kinds => "cont" \in Kinds')
    BY <2>1
  <2>5. mode \in {"ShellPromptEditor", "RawTerminal"} => mode' = mode /\ last'.reason = last.reason
    BY <2>1
  <2>6. Sent => Sent'
    BY <1>1, <2>4, <2>5 DEF Sent, Unread, HasSubmitted, SameLines
  <2>7. Aborted => Aborted'
    BY <1>1, <2>5 DEF Aborted
  <2>8. QED BY <1>1, <2>1, <2>2, <2>3, <2>4, <2>6, <2>7 DEF AtPs2
<1>9. AtPrompt'
  <2> SUFFICES ASSUME sh = "prompt" PROVE AtPrompt'
    BY <1>1 DEF AtPrompt
  <2>1. Submission => Submission'
    BY <1>1 DEF Submission, HasSubmitted, Framed
  <2>2. QED BY <1>1, <1>2, <2>1 DEF AtPrompt, LeavesOpen
<1>10. QED
  BY <1>3, <1>4, <1>5, <1>6, <1>7, <1>8, <1>9 DEF Dialogue

\* A step that moves no item and not the screen either.
LEMMA Unmoved ==
  ASSUME Dialogue, UNCHANGED <<events, stream>>
  PROVE  UNCHANGED <<Ahead, Kinds>> /\ Ordered(Ahead')
  BY StillAhead DEF Dialogue, Ordered

\* A frame begins: what it feeds is still ahead, or was no event.
LEMMA DrainTalks == ASSUME Known, Dialogue, DrainSome PROVE Dialogue'
<1>1. PICK n \in 0..Len(stream) : Drain(n)
  BY DEF DrainSome
<1>2. /\ phase = "input" /\ Feed(n) /\ phase' # "input" /\ Ctl!Tick /\ FrameStep
      /\ UNCHANGED <<tail, sampled, lastSubmitted, lastAlt>>
  BY <1>1 DEF Drain, Feed
<1>3. events = <<>> /\ Typed
  BY <1>2 DEF Known, StreamInv
<1>4. PICK from : Thinned(from, Ahead, Ahead')
  BY <1>2, <1>3, DrainAhead
<1>5. Kinds' \subseteq Kinds /\ Kinds \cap Events \subseteq Kinds' /\ Ordered(Ahead')
  BY <1>4, ThinnedInOrder DEF Kinds, Dialogue
<1>6. "alt" \notin Kinds => alt' = alt
  <2> SUFFICES ASSUME "alt" \notin Kinds PROVE alt' = alt
    OBVIOUS
  <2>1. PICK S : stream \in Seq(S)
    BY <1>3 DEF Typed
  <2>2. Ahead = stream /\ DOMAIN stream = 1..Len(stream)
    BY <1>3, <2>1 DEF Ahead
  <2>3. {i \in 1..n : stream[i][1] = "alt"} = {}
    <3>1. \A i \in 1..n : i \in DOMAIN stream
      BY <2>1, <2>2
    <3>2. QED BY <2>2, <3>1 DEF Kinds, KindsOf
  <2>4. QED BY <1>2, <2>3 DEF Feed
<1>7. /\ integration' = "Confirmed" <=> integration = "Confirmed"
      /\ mode' = "ShellPromptEditor" => mode = "ShellPromptEditor"
      /\ mode \in {"ShellPromptEditor", "RawTerminal"} => mode' = mode /\ last'.reason = last.reason
  BY <1>2 DEF Ctl!Tick, Ctl!Transition, Known, Ctl!HandshakeGatesEditor, Ctl!TypeOK
<1>8. Fresh'
  BY <1>2 DEF Fresh
<1>9. Kinds \cap {"preexec", "finished", "precmd", "cont"} \subseteq Kinds'
  BY <1>5 DEF Events
<1>10. QED
  BY <1>2, <1>5, <1>6, <1>7, <1>8, <1>9, FrameKeepsDialogue

\* The steps of a frame that hand out no event, and the events that change
\* neither the tail nor what was submitted.
LEMMA QuietFrameTalks ==
  ASSUME Known, Dialogue, SyncAlt \/ RecoverAlt \/ OnPtyExit \/ EndDrain \/ ClosePane
  PROVE  Dialogue'
<1>1. /\ UNCHANGED <<events, stream, lastSubmitted, tail, integration>> /\ FrameStep
  BY DEF SyncAlt, RecoverAlt, OnPtyExit, EndDrain, ClosePane, blkVars, paneVars, ctlVars,
         Ctl!ObserveAltScreen, Ctl!ObservePtyExit
<1>2. UNCHANGED <<Ahead, Kinds>> /\ Ordered(Ahead')
  BY <1>1, Unmoved
<1>3. \A on : Ctl!ObserveAltScreen(on) =>
        /\ mode' = "ShellPromptEditor" => mode = "ShellPromptEditor"
        /\ ~on /\ mode # "AlternateScreen" => mode' = mode /\ last'.reason = last.reason
  <2> SUFFICES ASSUME NEW on, Ctl!ObserveAltScreen(on)
               PROVE  /\ mode' = "ShellPromptEditor" => mode = "ShellPromptEditor"
                      /\ ~on /\ mode # "AlternateScreen" => mode' = mode /\ last'.reason = last.reason
    OBVIOUS
  <2>1. CASE on
    BY <2>1 DEF Ctl!ObserveAltScreen, Ctl!TransitionIf, Ctl!Transition
  <2>2. CASE ~on
    BY <2>2 DEF Ctl!ObserveAltScreen, Ctl!TransitionIf, Ctl!Transition
  <2>3. QED BY <2>1, <2>2
<1>4. CASE SyncAlt
  <2>1. Ctl!ObserveAltScreen(alt) /\ lastAlt' = alt /\ alt' = alt /\ phase' # "input" /\ sampled' = sampled
    BY <1>4 DEF SyncAlt, blkVars
  <2>3. Fresh'
    BY <2>1 DEF Fresh
  <2>4. /\ mode' = "ShellPromptEditor" => mode = "ShellPromptEditor"
        /\ ~alt /\ mode # "AlternateScreen" => mode' = mode /\ last'.reason = last.reason
    BY <1>3, <2>1
  <2>5. QED BY <1>1, <1>2, <2>1, <2>3, <2>4, FrameKeepsDialogue
<1>5. CASE RecoverAlt
  <2>1. /\ Ctl!ObserveAltScreen(FALSE) /\ ~lastAlt' /\ ~alt' /\ phase' # "input"
        /\ UNCHANGED <<phase, sampled>> /\ alt
    BY <1>5 DEF RecoverAlt, HasEvent
  <2>2. Fresh'
    BY <2>1 DEF Fresh
  <2>3. mode' = "ShellPromptEditor" => mode = "ShellPromptEditor"
    BY <1>3, <2>1
  <2>4. QED BY <1>1, <1>2, <2>1, <2>2, <2>3, FrameKeepsDialogue
<1>6. CASE OnPtyExit
  <2>1. /\ mode' = "Dead" /\ UNCHANGED <<alt, lastAlt, phase, sampled>> /\ exited
        /\ phase = "events"
    BY <1>6 DEF OnPtyExit, Ctl!ObservePtyExit, Ctl!Transition, blkVars, paneVars, DrainIsOver
  <2>2. Fresh' /\ sh = "gone"
    BY <2>1 DEF Fresh, Known, StreamInv
  <2>3. QED BY <1>1, <1>2, <2>1, <2>2, FrameKeepsDialogue
<1>7. CASE EndDrain
  <2>1. UNCHANGED <<mode, last, alt, lastAlt>> /\ sampled' = EditorActive
    BY <1>7 DEF EndDrain, ctlVars, blkVars
  <2>2. Fresh' /\ (sampled' => mode = "ShellPromptEditor")
    BY <2>1 DEF Fresh, EditorActive
  <2>3. QED BY <1>1, <1>2, <2>1, <2>2, FrameKeepsDialogue
<1>8. CASE ClosePane
  <2>1. UNCHANGED <<mode, last, alt, lastAlt, sampled>> /\ phase' = "closed"
    BY <1>8 DEF ClosePane, ctlVars, blkVars
  <2>2. Fresh'
    BY <2>1 DEF Fresh
  <2>3. QED BY <1>1, <1>2, <2>1, <2>2, FrameKeepsDialogue
<1>9. QED BY <1>4, <1>5, <1>6, <1>7, <1>8

\* An event is taken from the front.
LEMMA Handed ==
  ASSUME Known, Dialogue, NEW ev, EventStep(ev)
  PROVE  /\ Kinds = {ev} \cup Kinds' /\ Ordered(Ahead') /\ \A b \in Kinds' : Before(ev, b)
         /\ phase' = "events" /\ FrameStep
         /\ UNCHANGED <<sh, shell, buf, job, skip, ptyIn, phase, sampled, lastAlt, exited>>
         /\ Fresh'
<1>1. Typed /\ Ordered(Ahead)
  BY DEF Known, StreamInv, Dialogue
<1>2. /\ Kinds = {ev} \cup Kinds'
      /\ Ordered(Ahead) => Ordered(Ahead') /\ \A b \in Kinds' : Before(ev, b)
  BY <1>1, HandAhead
<1>3. /\ phase' = "events" /\ FrameStep
      /\ UNCHANGED <<sh, shell, buf, job, skip, ptyIn, phase, sampled, lastAlt, exited>>
  BY DEF EventStep, HasEvent, FrameStep, shellVars
<1>4. Fresh'
  BY <1>3 DEF Fresh
<1>5. QED BY <1>1, <1>2, <1>3, <1>4

\* An error and a completion reply.
LEMMA OtherEventsTalk ==
  ASSUME Known, Dialogue, OnError \/ OnCompletion
  PROVE  Dialogue'
<1>1. PICK ev \in {"error", "completion"} : EventStep(ev)
  BY DEF OnError, OnCompletion
<1>2. /\ Kinds = {ev} \cup Kinds' /\ Ordered(Ahead')
      /\ FrameStep /\ UNCHANGED <<sampled, lastAlt>> /\ Fresh'
  BY <1>1, Handed
<1>3. UNCHANGED <<lastSubmitted, tail, alt>>
  BY DEF OnError, OnCompletion, blkVars
<1>4. CASE OnError
  <2>1. EventStep("error")
    BY <1>4 DEF OnError
  <2>2. "error" \in Kinds
    BY <2>1, Handed
  <2>3. integration # "Confirmed"
    BY <2>2 DEF Dialogue, Greeted
  <2>4. /\ integration' # "Confirmed" /\ (mode' = "ShellPromptEditor" => mode = "ShellPromptEditor")
        /\ mode # "Bootstrapping" => UNCHANGED <<mode, last>>
    BY <1>4 DEF OnError, Ctl!ObserveIntegrationError, Ctl!TransitionIf, Ctl!Transition
  <2>5. QED BY <1>1, <1>2, <1>3, <2>3, <2>4, FrameKeepsDialogue
<1>5. CASE OnCompletion
  <2>1. UNCHANGED <<mode, last, integration>>
    BY <1>5 DEF OnCompletion, ctlVars
  <2>2. QED BY <1>1, <1>2, <1>3, <2>1, FrameKeepsDialogue
<1>6. QED BY <1>4, <1>5

\* The shell has spoken: nothing has been written to it before.
LEMMA ReadyTalks == ASSUME Known, Dialogue, OnReady PROVE Dialogue'
<1>1. /\ Kinds = {"ready"} \cup Kinds' /\ Ordered(Ahead') /\ \A b \in Kinds' : Before("ready", b)
      /\ UNCHANGED <<sh, buf, job, skip, ptyIn, sampled, lastAlt>> /\ Fresh'
  BY Handed DEF OnReady
<1>2. /\ UNCHANGED <<lastSubmitted, alt>> /\ integration' = "Confirmed"
      /\ Blk!SealPreCommandOutput
  BY TailOperationKinds DEF OnReady, Ctl!ObserveIntegrationReady, Blk!SealPreCommandOutput,
     Blk!SealTail, Blk!blockVars
<1>3. Kinds' \subseteq {"finished", "precmd", "eof"}
  BY <1>1 DEF Before
<1>4. integration # "Confirmed" /\ sh \in {"prompt", "gone"}
  BY <1>1 DEF Dialogue, Greeted, Greeting
<1>5. /\ ptyIn = <<>> /\ buf = <<>> /\ lastSubmitted = None
      /\ tail.kind = "Prompt" /\ tail.text = <<"">> /\ ~skip
  BY <1>4 DEF Dialogue, Greeting
<1>6. tail'.kind = "Prompt" /\ tail'.text = <<"">>
  <2>1. job' = [serial |-> job'.serial, text |-> job'.text,
                said |-> job'.said, screen |-> job'.screen]
    BY <1>1 DEF Known, StreamInv, Shapes
  <2>2. tail'.kind = tail.kind /\ tail'.text \in {tail.text, <<"">>}
    BY <1>2, <2>1, TailOperationKinds DEF Known, StreamInv
  <2>3. QED BY <1>5, <2>2
<1>7. TextOK(tail'.text)
  BY <1>6, EmptyIsOK
<1>8. Greeting' /\ Greeted' /\ Remembered' /\ AtRunning' /\ AtPs2'
  BY <1>1, <1>2, <1>3, <1>4, <1>5 DEF Greeting, Greeted, Remembered, AtRunning, AtPs2
<1>9. AtPrompt'
  BY <1>1, <1>2, <1>3, <1>4, <1>5, <1>6, <1>7 DEF AtPrompt
<1>10. QED BY <1>1, <1>5, <1>8, <1>9 DEF Dialogue

\* The start of a command: what was submitted is forgotten.
LEMMA PreexecTalks == ASSUME Known, Dialogue, OnPreexec PROVE Dialogue'
<1>1. /\ Kinds = {"preexec"} \cup Kinds' /\ Ordered(Ahead') /\ \A b \in Kinds' : Before("preexec", b)
      /\ UNCHANGED <<sh, shell, buf, job, skip, ptyIn, sampled, lastAlt>> /\ Fresh'
  BY Handed DEF OnPreexec
<1>2. "preexec" \notin Kinds' /\ "cont" \notin Kinds' /\ "ready" \notin Kinds'
  BY <1>1 DEF Before
<1>3. /\ lastSubmitted' = None /\ tail'.kind = "Running" /\ UNCHANGED <<mode, last, integration>>
  <2>1. job' = [serial |-> job'.serial, text |-> job'.text,
                said |-> job'.said, screen |-> job'.screen]
    BY <1>1 DEF Known, StreamInv, Shapes
  <2>2. QED BY <2>1, TailOperationKinds DEF OnPreexec, Ctl!ObservePreexec, Known, StreamInv
<1>4. integration = "Confirmed" /\ sh \notin {"boot", "mute", "ps2"}
  BY <1>1 DEF Dialogue, Greeting, Greeted, AtPs2
<1>5. Greeting' /\ Greeted' /\ Remembered' /\ AtPs2'
  BY <1>1, <1>2, <1>3, <1>4 DEF Greeting, Greeted, Remembered, AtPs2, Dialogue
<1>6. AtRunning'
  BY <1>1, <1>2, <1>3 DEF AtRunning, Dialogue
<1>7. AtPrompt'
  BY <1>1, <1>2, <1>3 DEF AtPrompt, Submission, Dialogue
<1>8. QED BY <1>1, <1>5, <1>6, <1>7 DEF Dialogue

\* The end of a command: the tail is a prompt again.
LEMMA FinishedTalks == ASSUME Known, Dialogue, OnCommandFinished PROVE Dialogue'
<1>1. /\ Kinds = {"finished"} \cup Kinds' /\ Ordered(Ahead') /\ \A b \in Kinds' : Before("finished", b)
      /\ UNCHANGED <<sh, shell, buf, job, skip, ptyIn, sampled, lastAlt>> /\ Fresh'
  BY Handed DEF OnCommandFinished
<1>2. Kinds' \subseteq {"finished", "precmd", "eof"}
  BY <1>1 DEF Before
<1>3. /\ UNCHANGED <<lastSubmitted, mode, last, integration, alt>> /\ tail'.kind = "Prompt"
      /\ tail'.text = IF tail.kind = "Prompt" THEN tail.text ELSE <<"">>
  <2>1. job' = [serial |-> job'.serial, text |-> job'.text,
                said |-> job'.said, screen |-> job'.screen]
    BY <1>1 DEF Known, StreamInv, Shapes
  <2>2. QED BY <2>1, TailOperationKinds DEF OnCommandFinished, Ctl!ObserveCommandFinished, Known, StreamInv
<1>4. tail.kind \in {"Prompt", "Running"}
  BY DEF Known, StreamInv, Shapes
<1>5. sh # "ps2" /\ sh # "running"
  BY <1>1 DEF Dialogue, AtPs2, AtRunning
<1>6. Greeting' /\ Greeted' /\ Remembered' /\ AtPs2' /\ AtRunning'
  BY <1>1, <1>2, <1>3, <1>5 DEF Greeting, Greeted, Remembered, AtPs2, AtRunning, Dialogue
<1>7. AtPrompt'
  <2> SUFFICES ASSUME sh = "prompt" PROVE AtPrompt'
    BY <1>1 DEF AtPrompt
  <2>1. TextOK(tail'.text)
    BY <1>1, <1>2, <1>3, <1>4, EmptyIsOK DEF AtPrompt, Dialogue
  <2>2. QED BY <1>1, <1>2, <1>3, <2>1 DEF AtPrompt, Submission, Dialogue
<1>8. QED BY <1>1, <1>6, <1>7 DEF Dialogue

\* The prompt behind it.
LEMMA PrecmdTalks == ASSUME Known, Dialogue, OnPrecmd PROVE Dialogue'
<1>1. /\ Kinds = {"precmd"} \cup Kinds' /\ Ordered(Ahead') /\ \A b \in Kinds' : Before("precmd", b)
      /\ UNCHANGED <<sh, shell, buf, job, skip, ptyIn, sampled, lastAlt>> /\ Fresh'
  BY Handed DEF OnPrecmd
<1>2. Kinds' \subseteq {"finished", "precmd", "eof"}
  BY <1>1 DEF Before
<1>3. /\ lastSubmitted' = None /\ UNCHANGED <<tail, alt, integration>>
      /\ integration # "Confirmed" => UNCHANGED mode
  BY DEF OnPrecmd, Ctl!ObservePrecmd, Ctl!MayPromote, Ctl!TransitionIf, blkVars
<1>4. sh # "ps2" /\ sh # "running"
  BY <1>1 DEF Dialogue, AtPs2, AtRunning
<1>5. Greeting' /\ Greeted' /\ Remembered' /\ AtPs2' /\ AtRunning'
  BY <1>1, <1>2, <1>3, <1>4 DEF Greeting, Greeted, Remembered, AtPs2, AtRunning, Dialogue
<1>6. AtPrompt'
  BY <1>1, <1>2, <1>3 DEF AtPrompt, Submission, Dialogue
<1>7. QED BY <1>1, <1>5, <1>6 DEF Dialogue

\* What the shell holds is open, and so is a text of the same lines.
LEMMA HeldIsOpen ==
  ASSUME NEW text, TextOK(text), NEW held \in Seq(OpenLines), Written(held) # <<>>,
         SameLines(held, text)
  PROVE  /\ LeavesOpen(text) /\ TextOK(Append(text, "")) /\ held \in Seq(Lines)
         /\ \A line \in Lines : Append(held, line) \in Seq(Lines)
<1>1. held \in Seq(Lines) /\ \A i \in DOMAIN held : held[i] \in {"", "more"}
  <2>1. DOMAIN held = 1..Len(held) /\ \A i \in 1..Len(held) : held[i] \in OpenLines
    BY Places
  <2>2. OpenLines \cup Lines = Lines
    BY DEF Lines, OpenLines
  <2>3. held \in Seq(OpenLines \cup Lines)
    BY WrittenBlank, Joined
  <2>4. QED BY <2>1, <2>2, <2>3 DEF OpenLines
<1>2. Written(text) = Written(held)
  BY DEF SameLines
<1>3. \A k \in DOMAIN Written(held) : \E i \in DOMAIN held : Written(held)[k] = held[i]
  BY <1>1, WrittenLines
<1>4. \A k \in DOMAIN Written(text) : Written(text)[k] # "done"
  BY <1>1, <1>2, <1>3
<1>5. LeavesOpen(text)
  BY <1>2, <1>4, LeftOpenLeavesOpen
<1>6. "" \in Lines
  BY DEF Lines
<1>7. TextOK(Append(text, ""))
  BY <1>5, <1>6, NextLineIsOK
<1>8. ASSUME NEW line \in Lines PROVE Append(held, line) \in Seq(Lines)
  <2>1. Lines \cup {line} = Lines
    OBVIOUS
  <2>2. Append(held, line) \in Seq(Lines \cup {line})
    BY <1>1, AppendAny
  <2>3. QED BY <2>1, <2>2
<1>9. QED BY <1>1, <1>5, <1>7, <1>8

\* The shell asks for more: the text comes back with a new line.
LEMMA ContinuationTalks == ASSUME Known, Dialogue, OnContinuation PROVE Dialogue'
<1>1. /\ Kinds = {"cont"} \cup Kinds' /\ Ordered(Ahead')
      /\ UNCHANGED <<sh, shell, buf, job, skip, ptyIn, sampled, lastAlt>> /\ Fresh'
  BY Handed DEF OnContinuation
<1>2. /\ UNCHANGED <<lastSubmitted, integration, alt>> /\ Ctl!ObserveContinuation
  BY DEF OnContinuation, Ctl!ObserveContinuation, Blk!SetEditor, blkVars
<1>3. integration = "Confirmed" /\ sh \notin {"boot", "mute"}
  BY <1>1 DEF Dialogue, Greeting, Greeted
<1>4. tail.kind \in {"Prompt", "Running"} /\ tail'.kind = tail.kind
  <2>1. job' = [serial |-> job'.serial, text |-> job'.text,
                said |-> job'.said, screen |-> job'.screen]
    BY <1>1 DEF Known, StreamInv, Shapes
  <2>2. UNCHANGED tail \/ \E text : Blk!SetEditor(text)
    BY DEF OnContinuation, blkVars
  <2>3. QED BY <2>1, <2>2, TailOperationKinds DEF Known, StreamInv, Shapes
<1>5. tail.kind = "Prompt" =>
        tail'.text = IF lastSubmitted # None THEN Append(lastSubmitted, "") ELSE tail.text
  <2> SUFFICES ASSUME tail.kind = "Prompt"
               PROVE  tail'.text = IF lastSubmitted # None THEN Append(lastSubmitted, "") ELSE tail.text
    OBVIOUS
  <2>1. job' = [serial |-> job'.serial, text |-> job'.text,
                said |-> job'.said, screen |-> job'.screen]
    BY <1>1 DEF Known, StreamInv, Shapes
  <2>2. IF lastSubmitted # None THEN Blk!SetEditor(Append(lastSubmitted, "")) ELSE UNCHANGED tail
    BY DEF OnContinuation, blkVars, Blk!EditorOnTail
  <2>3. QED BY <2>1, <2>2, TailOperationKinds DEF Known, StreamInv
<1>6. mode = "ShellPromptEditor" \/ HasSubmitted => mode' = "ShellPromptEditor"
  BY <1>2, <1>3 DEF Ctl!ObserveContinuation, Ctl!MayContinue, Ctl!TransitionIf, Ctl!Transition,
     HasSubmitted
<1>7. Greeting' /\ Greeted' /\ Remembered' /\ AtRunning'
  <2>1. Greeting' /\ Greeted'
    BY <1>1, <1>2, <1>3 DEF Greeting, Greeted, Dialogue
  <2>2. Remembered'
    BY <1>2 DEF Remembered, Dialogue
  <2>3. AtRunning'
    BY <1>1, <1>2, <1>4 DEF AtRunning, Dialogue, SameLines
  <2>4. QED BY <2>1, <2>2, <2>3
<1>8. AtPs2'
  <2> SUFFICES ASSUME sh = "ps2" PROVE AtPs2'
    BY <1>1 DEF AtPs2
  <2>1. /\ shell # "fish" /\ tail.kind = "Prompt" /\ Kinds \subseteq {"cont"}
        /\ ~alt /\ ~lastAlt
    BY DEF Dialogue, AtPs2
  <2>2. buf \in Seq(OpenLines) /\ Written(buf) # <<>>
    BY DEF Dialogue, AtPs2
  <2>3. Sent
    BY <1>1 DEF Dialogue, AtPs2, Aborted
  <2>4. TextOK(lastSubmitted)
    BY <2>3 DEF Sent, Dialogue, Remembered
  <2>5. tail'.text = Append(lastSubmitted, "") /\ mode' = "ShellPromptEditor"
    BY <1>5, <1>6, <2>1, <2>3 DEF Sent
  <2>6. ASSUME ptyIn = <<>> PROVE TextOK(tail'.text)
    <3>1. Unread = <<>>
      BY <2>6 DEF Unread
    <3>2. buf \o <<>> = buf
      BY <2>2, Places
    <3>3. SameLines(buf, lastSubmitted)
      BY <2>3, <3>1, <3>2 DEF Sent
    <3>4. QED BY <2>2, <2>4, <2>5, <3>3, HeldIsOpen
  <2>7. Sent'
    BY <1>1, <1>2, <2>3, <2>5, <2>6 DEF Sent, Unread, SameLines
  <2>8. QED BY <1>1, <1>2, <1>4, <2>1, <2>2, <2>7 DEF AtPs2
<1>9. AtPrompt'
  <2> SUFFICES ASSUME sh = "prompt" PROVE AtPrompt'
    BY <1>1 DEF AtPrompt
  <2>1. ~Submission
    BY <1>1 DEF Submission
  <2>2. ASSUME tail.kind = "Prompt", "preexec" \notin Kinds PROVE TextOK(tail'.text)
    <3>1. CASE lastSubmitted = None
      BY <1>5, <2>2, <3>1 DEF Dialogue, AtPrompt
    <3>2. CASE lastSubmitted # None
      <4>1. LeavesOpen(lastSubmitted) /\ TextOK(lastSubmitted)
        BY <1>1, <2>2, <3>2 DEF Dialogue, AtPrompt, Remembered
      <4>2. "" \in Lines
        BY DEF Lines
      <4>3. QED BY <1>5, <2>2, <3>2, <4>1, <4>2, NextLineIsOK
    <3>3. QED BY <3>1, <3>2
  <2>3. QED BY <1>1, <1>2, <1>4, <2>1, <2>2 DEF AtPrompt, Dialogue, LeavesOpen
<1>10. QED BY <1>1, <1>7, <1>8, <1>9 DEF Dialogue

\* Every step of a frame keeps the dialogue.
LEMMA FrameTalks == ASSUME Known, Dialogue, FrameNext PROVE Dialogue'
  BY DrainTalks, QuietFrameTalks, OtherEventsTalk, ReadyTalks, PreexecTalks, FinishedTalks,
     PrecmdTalks, ContinuationTalks DEF FrameNext

-----------------------------------------------------------------------------
(* The user.                                                               *)

\* When a user who waits can type, the screen has settled and the editor is up.
LEMMA AtTheEditor ==
  ASSUME PatientUser, Known, Dialogue, UserStep(TRUE)
  PROVE  /\ Kinds = {} /\ stream = <<>> /\ ptyIn = <<>> /\ sh \in {"prompt", "ps2"}
         /\ mode = "ShellPromptEditor" /\ integration = "Confirmed" /\ ~alt /\ ~lastAlt
         /\ tail.kind = "Prompt" /\ TextOK(tail.text) /\ EditorActive
         /\ sh = "prompt" => shell = "fish" \/ lastSubmitted = None
         /\ sh = "ps2" => /\ shell # "fish" /\ lastSubmitted # None /\ SameLines(buf, lastSubmitted)
                          /\ Written(buf) # <<>> /\ buf \in Seq(OpenLines)
<1>1. /\ phase = "input" /\ sampled /\ stream = <<>> /\ ptyIn = <<>> /\ sh \in {"prompt", "ps2"}
  BY DEF UserStep, UserReady, PatientUser, Settled
<1>2. Kinds = {}
  BY <1>1 DEF Known, StreamInv, Kinds, KindsOf, Ahead
<1>3. mode = "ShellPromptEditor" /\ integration = "Confirmed"
  BY <1>1 DEF Dialogue, Fresh, Greeting
<1>4. ~alt /\ ~lastAlt
  BY <1>1, <1>3 DEF Known, ScreenInv, Latched
<1>5. tail.kind \in {"Prompt", "Running"}
  BY DEF Known, StreamInv, Shapes
<1>6. ASSUME sh = "prompt"
      PROVE  tail.kind = "Prompt" /\ TextOK(tail.text) /\ (shell = "fish" \/ lastSubmitted = None)
  BY <1>1, <1>2, <1>3, <1>5, <1>6, Keys DEF Dialogue, AtPrompt, Submission, HasSubmitted
<1>7. ASSUME sh = "ps2"
      PROVE  /\ tail.kind = "Prompt" /\ TextOK(tail.text)
             /\ shell # "fish" /\ lastSubmitted # None /\ SameLines(buf, lastSubmitted)
             /\ Written(buf) # <<>> /\ buf \in Seq(OpenLines)
  <2>1. tail.kind = "Prompt" /\ shell # "fish" /\ Written(buf) # <<>> /\ buf \in Seq(OpenLines)
    BY <1>7 DEF Dialogue, AtPs2
  <2>2. Sent
    BY <1>1, <1>7, Keys DEF Dialogue, AtPs2, Aborted
  <2>5. buf \o <<>> = buf
    BY <2>1, Places
  <2>6. Unread = <<>>
    BY <1>1 DEF Unread
  <2>3. Unread = <<>> /\ buf \o <<>> = buf
    BY <2>5, <2>6
  <2>4. QED BY <1>1, <2>1, <2>2, <2>3 DEF Sent
<1>8. QED BY <1>1, <1>2, <1>3, <1>4, <1>6, <1>7 DEF EditorActive, Blk!EditorOnTail

\* The user changes nothing of the shell and moves no item.
LEMMA UserMoves ==
  ASSUME Dialogue, NEW inEditor, UserStep(inEditor)
  PROVE  /\ UNCHANGED <<sh, buf, job, skip, shell, stream, phase, sampled, lastAlt, events>>
         /\ UNCHANGED <<Ahead, Kinds>> /\ Ordered(Ahead')
         /\ phase = "input" /\ sampled = inEditor
<1>1. /\ UNCHANGED <<sh, buf, job, skip, shell, stream, phase, sampled, lastAlt, events>>
      /\ phase = "input" /\ sampled = inEditor
  BY DEF UserStep, shellVars
<1>2. QED BY <1>1, Unmoved

\* The editor's text changes and nothing else.
LEMMA EditingTalks ==
  ASSUME PatientUser, Known, Dialogue, UserStep(TRUE), NEW text, TextOK(text), Blk!SetEditor(text),
         UNCHANGED <<ctlVars, lastSubmitted, ptyIn>>
  PROVE  Dialogue'
<1>1. /\ UNCHANGED <<sh, buf, job, skip, shell, stream, phase, sampled, lastAlt>>
      /\ UNCHANGED Kinds /\ Ordered(Ahead')
  BY UserMoves
<1>2. /\ Kinds = {} /\ ptyIn = <<>> /\ sh \in {"prompt", "ps2"}
      /\ integration = "Confirmed" /\ tail.kind = "Prompt"
  BY AtTheEditor
<1>3. tail'.kind = "Prompt" /\ tail'.text = text /\ alt' = alt
  <2>1. job' = [serial |-> job'.serial, text |-> job'.text,
                said |-> job'.said, screen |-> job'.screen]
    BY <1>1 DEF Known, StreamInv, Shapes
  <2>2. QED BY <2>1, TailOperationKinds DEF Known, StreamInv
<1>4. UNCHANGED <<mode, last, integration, lastSubmitted, ptyIn>>
  BY DEF ctlVars
<1>5. Greeting' /\ Greeted' /\ Remembered' /\ Fresh' /\ AtRunning'
  BY <1>1, <1>2, <1>4 DEF Greeting, Greeted, Remembered, Fresh, AtRunning, Dialogue
<1>6. AtPs2'
  <2>1. Sent => Sent'
    BY <1>1, <1>2, <1>3, <1>4 DEF Sent, Unread, HasSubmitted, SameLines
  <2>2. Aborted => Aborted'
    BY <1>1, <1>3, <1>4 DEF Aborted
  <2>3. QED BY <1>1, <1>3, <2>1, <2>2 DEF AtPs2, Dialogue
<1>7. AtPrompt'
  <2>1. ~Submission
    <3>1. mode = "ShellPromptEditor"
      BY AtTheEditor
    <3>2. QED BY <3>1 DEF Submission, HasSubmitted
  <2>2. QED BY <1>1, <1>2, <1>3, <1>4, <2>1 DEF AtPrompt, Dialogue, LeavesOpen
<1>8. QED BY <1>1, <1>5, <1>6, <1>7 DEF Dialogue

\* A line typed.
LEMMA TypeTalks ==
  ASSUME PatientUser, Known, Dialogue, NEW line \in {"more", "done"}, Type(line)
  PROVE  Dialogue'
<1> DEFINE text == tail.text
           new == IF Last(text) = "" THEN [text EXCEPT ![Len(text)] = line] ELSE Append(text, line)
<1>1. UserStep(TRUE) /\ MayFollow(text, line) /\ Blk!SetEditor(new)
      /\ UNCHANGED <<ctlVars, lastSubmitted, ptyIn>>
  BY DEF Type
<1>2. TextOK(text)
  BY <1>1, AtTheEditor
<1>3. text[Len(text)] # "done"
  BY <1>1 DEF MayFollow, PatientUser, Last
<1>4. TextOK(new)
  BY <1>2, <1>3, TypedIsOK DEF Last
<1> HIDE DEF new
<1>5. QED BY <1>1, <1>4, EditingTalks

\* The editor cleared.
LEMMA ClearTalks == ASSUME PatientUser, Known, Dialogue, ClearEditor PROVE Dialogue'
<1>1. UserStep(TRUE) /\ Blk!SetEditor(<<"">>) /\ UNCHANGED <<ctlVars, lastSubmitted, ptyIn>>
  BY DEF ClearEditor
<1>2. TextOK(<<"">>)
  BY EmptyIsOK
<1>3. QED BY <1>1, <1>2, EditingTalks

\* Enter: the editor is down, the text is remembered and on its way, whole or
\* from where the shell has it.
LEMMA SubmitTalks == ASSUME PatientUser, Known, Dialogue, Submit PROVE Dialogue'
<1> DEFINE text == tail.text
<1>1. /\ UserStep(TRUE) /\ ~(AwaitingContinuation /\ Abandons(text))
      /\ ptyIn' = ptyIn \o Framed(ToSend(text)) /\ lastSubmitted' = text
      /\ Blk!SetEditor(<<"">>)
  BY DEF Submit
<1>2. /\ UNCHANGED <<sh, buf, job, skip, shell, stream, phase, sampled, lastAlt>>
      /\ UNCHANGED Kinds /\ Ordered(Ahead')
  BY <1>1, UserMoves
<1>3. /\ Kinds = {} /\ ptyIn = <<>> /\ sh \in {"prompt", "ps2"}
      /\ mode = "ShellPromptEditor" /\ integration = "Confirmed" /\ ~alt /\ ~lastAlt
      /\ tail.kind = "Prompt" /\ TextOK(text) /\ EditorActive
      /\ sh = "prompt" => shell = "fish" \/ lastSubmitted = None
      /\ sh = "ps2" => /\ shell # "fish" /\ lastSubmitted # None /\ SameLines(buf, lastSubmitted)
                       /\ Written(buf) # <<>> /\ buf \in Seq(OpenLines)
  BY <1>1, AtTheEditor
<1>4. tail'.kind = "Prompt" /\ tail'.text = <<"">> /\ alt' = alt
  <2>1. job' = [serial |-> job'.serial, text |-> job'.text,
                said |-> job'.said, screen |-> job'.screen]
    BY <1>2 DEF Known, StreamInv, Shapes
  <2>2. QED BY <1>1, <2>1, TailOperationKinds DEF Known, StreamInv
<1>5. mode' = "RawTerminal" /\ last'.reason = "EnterSubmitted" /\ integration' = integration
  <2>1. Ctl!SubmitCommand
    BY <1>3 DEF Submit
  <2>2. QED BY <2>1 DEF Ctl!SubmitCommand, Ctl!Transition
<1>6. text \in Seq(Lines) /\ text # <<>> /\ EndsLast(text)
  BY <1>3 DEF TextOK
<1>7. lastSubmitted' # None /\ TextOK(lastSubmitted')
  BY <1>1, <1>3, <1>6 DEF None
<1>8. HasSubmitted'
  BY <1>5 DEF HasSubmitted
<1>9. ASSUME sh = "prompt"
      PROVE  Submission' /\ ptyIn' # <<>> /\ ptyIn'[1][1] # "intr"
  <2>1. ToSend(text) = text
    BY <1>3, <1>9 DEF ToSend
  <2>2. ptyIn' = <<>> \o Framed(text)
    BY <1>1, <1>3, <2>1
  <2>3. CASE shell = "fish"
    <3> DEFINE x == <<"text", text>>
    <3>1. Framed(text) = <<x>> /\ x[1] = "text"
      BY <2>3 DEF Framed
    <3> HIDE DEF x
    <3>2. ptyIn' = <<x>>
      BY <2>2, <3>1
    <3>3. ptyIn' = Framed(text) /\ ptyIn' # <<>> /\ ptyIn'[1][1] # "intr"
      BY <3>1, <3>2
    <3>4. QED BY <1>1, <1>2, <1>3, <1>4, <1>7, <1>8, <3>3 DEF Submission, Framed
  <2>4. CASE shell # "fish"
    <3>1. Framed(text) = LinesOf(text)
      BY <2>4 DEF Framed, LinesOf
    <3>2. LinesOf(text) # <<>> /\ LinesOf(text)[1][1] = "line" /\ <<>> \o LinesOf(text) = LinesOf(text)
      BY <1>6, Queue, QueueLater
    <3>3. ptyIn' = Framed(text) /\ ptyIn' # <<>> /\ ptyIn'[1][1] # "intr"
      BY <2>2, <3>1, <3>2
    <3>4. QED BY <1>1, <1>2, <1>3, <1>4, <1>7, <1>8, <3>3 DEF Submission, Framed
  <2>5. QED BY <2>3, <2>4
<1>10. ASSUME sh = "ps2"
       PROVE  Sent' /\ ptyIn' # <<>> /\ ptyIn'[1][1] # "intr"
  <2> DEFINE rest == ToSend(text)
  <2>1. Extends(text, lastSubmitted)
    BY <1>1, <1>3, <1>10 DEF AwaitingContinuation, Abandons
  <2>2. lastSubmitted \in Seq(Lines) /\ lastSubmitted # <<>>
    BY <1>3, <1>10 DEF Dialogue, Remembered, TextOK
  <2>3. TextOK(lastSubmitted) /\ buf \in Seq(Lines)
    BY <1>3, <1>10, HeldIsOpen DEF Dialogue, Remembered
  <2>4. rest \in Seq(Lines) /\ rest # <<>> /\ EndsLast(rest) /\ SameLines(buf \o rest, text)
    BY <1>3, <1>10, <2>1, <2>2, <2>3, SendsTheRest
  <2> HIDE DEF rest
  <2>5. Framed(rest) = LinesOf(rest)
    BY <1>3, <1>10 DEF Framed, LinesOf
  <2>6. /\ LinesOf(rest) # <<>> /\ LinesOf(rest)[1][1] = "line"
        /\ <<>> \o LinesOf(rest) = LinesOf(rest)
    BY <2>4, Queue, QueueLater
  <2>7. ptyIn' = LinesOf(rest)
    BY <1>1, <1>3, <2>5, <2>6 DEF rest
  <2>8. Unread' = rest
    BY <2>4, <2>7, QueueLater
  <2>9. Sent'
    BY <1>1, <1>2, <1>4, <1>7, <1>8, <2>4, <2>6, <2>7, <2>8 DEF Sent, SameLines
  <2>10. QED BY <2>6, <2>7, <2>9
<1>11. AtPs2' /\ AtPrompt'
  <2>1. AtPs2'
    BY <1>2, <1>3, <1>4, <1>10 DEF AtPs2
  <2>2. AtPrompt'
    BY <1>2, <1>3, <1>4, <1>9, EmptyIsOK DEF AtPrompt, Dialogue
  <2>3. QED BY <2>1, <2>2
<1>12. Greeting' /\ Greeted' /\ Remembered' /\ Fresh' /\ AtRunning'
  BY <1>2, <1>3, <1>5, <1>7, <1>9, <1>10 DEF Greeting, Greeted, Remembered, Fresh, AtRunning, Dialogue
<1>13. QED BY <1>2, <1>11, <1>12 DEF Dialogue

\* An abort, by Ctrl+C or by Enter on another text: the shell has the open
\* lines until it reads the interrupt.
LEMMA AbortTalks ==
  ASSUME PatientUser, Known, Dialogue, SubmitHeals \/ AbortContinuation
  PROVE  Dialogue'
<1>1. /\ UserStep(TRUE) /\ AwaitingContinuation /\ shell # "fish" /\ AbortLine
      /\ UNCHANGED ctlVars
      /\ UNCHANGED blkVars \/ Blk!SetEditor(<<"">>)
  BY DEF SubmitHeals, AbortContinuation, Abandons
<1>2. /\ UNCHANGED <<sh, buf, job, skip, shell, stream, phase, sampled, lastAlt>>
      /\ UNCHANGED Kinds /\ Ordered(Ahead')
  BY <1>1, UserMoves
<1>3. /\ Kinds = {} /\ ptyIn = <<>> /\ sh \in {"prompt", "ps2"}
      /\ mode = "ShellPromptEditor" /\ integration = "Confirmed" /\ ~alt /\ ~lastAlt
      /\ tail.kind = "Prompt" /\ TextOK(tail.text)
      /\ sh = "prompt" => shell = "fish" \/ lastSubmitted = None
      /\ sh = "ps2" => Written(buf) # <<>> /\ buf \in Seq(OpenLines)
  BY <1>1, AtTheEditor
<1>4. sh = "ps2"
  BY <1>1, <1>3 DEF AwaitingContinuation
<1>5. lastSubmitted' = None /\ ptyIn' = AbortKeys
  <2> DEFINE keys == << <<"intr">>, <<"line", "">> >>
  <2>1. lastSubmitted' = None /\ ptyIn' = <<>> \o keys
    BY <1>1, <1>3 DEF AbortLine
  <2>2. <<>> \o keys = keys
    OBVIOUS
  <2>3. QED BY <2>1, <2>2 DEF AbortKeys
<1>6. tail'.kind = "Prompt" /\ TextOK(tail'.text) /\ alt' = alt
  <2>1. job' = [serial |-> job'.serial, text |-> job'.text,
                said |-> job'.said, screen |-> job'.screen]
    BY <1>2 DEF Known, StreamInv, Shapes
  <2>2. CASE UNCHANGED blkVars
    BY <1>3, <2>2 DEF blkVars
  <2>3. CASE Blk!SetEditor(<<"">>)
    BY <2>1, <2>3, TailOperationKinds, EmptyIsOK DEF Known, StreamInv
  <2>4. QED BY <1>1, <2>2, <2>3
<1>7. UNCHANGED <<mode, last, integration>>
  BY <1>1 DEF ctlVars
<1>8. Greeting' /\ Greeted' /\ Remembered' /\ Fresh' /\ AtRunning'
  BY <1>2, <1>3, <1>4, <1>5, <1>7 DEF Greeting, Greeted, Remembered, Fresh, AtRunning, Dialogue
<1>9. Aborted'
  BY <1>2, <1>3, <1>5, <1>6, <1>7 DEF Aborted
<1>10. AtPs2' /\ AtPrompt'
  BY <1>1, <1>2, <1>3, <1>4, <1>6, <1>9 DEF AtPs2, AtPrompt
<1>11. QED BY <1>2, <1>8, <1>10 DEF Dialogue

\* Ctrl+C to a program whose output has all been shown.
LEMMA InterruptTalks ==
  ASSUME PatientUser, Known, Dialogue, InterruptProgram
  PROVE  Dialogue'
<1>1. /\ UserStep(FALSE) /\ \E kept \in {ptyIn, <<>>} : ptyIn' = Append(kept, <<"intr">>)
      /\ UNCHANGED <<mode, last, integration, tail, alt, lastSubmitted>>
  BY DEF InterruptProgram, ctlVars, blkVars
<1>2. /\ UNCHANGED <<sh, buf, job, skip, shell, stream, phase, sampled, lastAlt>>
      /\ UNCHANGED Kinds /\ Ordered(Ahead')
  BY <1>1, UserMoves
<1>3. sh = "running" /\ ptyIn = <<>> /\ ~sampled
  BY <1>1 DEF UserStep, UserReady, PatientUser
<1>4. ptyIn' = Interrupt
  <2> DEFINE key == <<"intr">>
  <2>1. ptyIn' = Append(<<>>, key)
    BY <1>1, <1>3
  <2>2. Append(<<>>, key) = <<key>>
    OBVIOUS
  <2>3. QED BY <2>1, <2>2 DEF Interrupt
<1>5. integration = "Confirmed"
  BY <1>3 DEF Greeting, Dialogue
<1>6. Greeting' /\ Greeted' /\ Remembered' /\ Fresh'
  BY <1>1, <1>2, <1>3, <1>5 DEF Greeting, Greeted, Remembered, Fresh, Dialogue
<1>7. AtRunning' /\ AtPs2' /\ AtPrompt'
  BY <1>1, <1>2, <1>3, <1>4 DEF AtRunning, AtPs2, AtPrompt, Dialogue, SameLines
<1>8. QED BY <1>2, <1>6, <1>7 DEF Dialogue

\* Cmd+K touches nothing the dialogue is about.
LEMMA ClearScrollbackTalks ==
  ASSUME Known, Dialogue, ClearScrollback
  PROVE  Dialogue'
<1>1. /\ UserStep(sampled)
      /\ UNCHANGED <<mode, last, integration, tail, alt, lastSubmitted, ptyIn>>
  BY DEF ClearScrollback, Blk!ClearScrollback, ctlVars
<1>2. /\ UNCHANGED <<sh, buf, job, skip, shell, stream, phase, sampled, lastAlt>>
      /\ UNCHANGED Kinds /\ Ordered(Ahead')
  BY <1>1, UserMoves
<1>3. Greeting' /\ Greeted' /\ Remembered' /\ Fresh'
  BY <1>1, <1>2 DEF Greeting, Greeted, Remembered, Fresh, Dialogue
<1>4. AtRunning'
  BY <1>1, <1>2 DEF AtRunning, Dialogue, SameLines
<1>5. AtPs2'
  <2>1. (Sent => Sent') /\ (Aborted => Aborted')
    BY <1>1, <1>2 DEF Sent, Aborted, Unread, HasSubmitted, SameLines
  <2>2. QED BY <1>1, <1>2, <2>1 DEF AtPs2, Dialogue
<1>6. AtPrompt'
  <2>1. Submission => Submission'
    BY <1>1, <1>2 DEF Submission, HasSubmitted, Framed
  <2>2. QED BY <1>1, <1>2, <2>1 DEF AtPrompt, LeavesOpen, Dialogue
<1>7. QED BY <1>2, <1>3, <1>4, <1>5, <1>6 DEF Dialogue

\* A user who waits keeps the dialogue.
LEMMA UserTalks == ASSUME PatientUser, Known, Dialogue, UserNext PROVE Dialogue'
<1>1. ~RequestCompletion /\ \A line : ~TypeRaw(line)
  BY DEF RequestCompletion, TypeRaw, PatientUser
<1>2. QED
  BY <1>1, TypeTalks, ClearTalks, SubmitTalks, AbortTalks, InterruptTalks, ClearScrollbackTalks
     DEF UserNext

-----------------------------------------------------------------------------
(* The shell.                                                              *)

\* What a step of the shell leaves alone, and what it puts ahead.
LEMMA Said ==
  ASSUME Known, Dialogue, ShellStep, NEW T, NEW items \in Seq(T), Write(items),
         Ordered(items), \A a \in Kinds, b \in KindsOf(items) : Before(a, b)
  PROVE  /\ Kinds' = Kinds \cup KindsOf(items) /\ Ordered(Ahead') /\ Remembered'
         /\ UNCHANGED <<mode, last, integration, tail, alt, lastAlt, lastSubmitted,
                        sampled, phase, shell>>
         /\ items # <<>> => Fresh'
<1>1. UNCHANGED <<mode, last, integration, tail, alt, lastAlt, lastSubmitted,
                  sampled, phase, shell, events>>
  BY DEF ShellStep, ctlVars, blkVars, paneVars
<1>2. Typed /\ Ordered(Ahead)
  BY DEF Known, StreamInv, Dialogue
<1>3. /\ Kinds' = Kinds \cup KindsOf(items) /\ Ordered(Ahead')
      /\ items # <<>> => stream' # <<>>
  BY <1>1, <1>2, WriteAhead
<1>4. Remembered'
  BY <1>1 DEF Remembered, Dialogue
<1>5. QED BY <1>1, <1>3, <1>4 DEF Fresh

\* A shell that has spoken does not greet again.
LEMMA SaidLater ==
  ASSUME Known, Dialogue, ShellStep, NEW T, NEW items \in Seq(T), Write(items),
         Ordered(items), \A a \in Kinds, b \in KindsOf(items) : Before(a, b),
         integration = "Confirmed", sh' \notin {"boot", "mute"},
         "ready" \notin KindsOf(items), "error" \notin KindsOf(items)
  PROVE  Greeting' /\ Greeted'
  BY Said DEF Greeting, Greeted, Dialogue

\* What may follow anything, and what an open line follows.
LEMMA Follows ==
  /\ \A a : Before(a, "finished") /\ Before(a, "precmd") /\ Before(a, "eof")
  /\ \A b \in {"cont", "preexec"} : Before("cont", b)
  /\ \A a \in {"cont", "preexec", "out", "alt"}, b \in {"out", "alt"} : Before(a, b)
  BY DEF Before

\* The end of a prompt cycle, or of the shell, may be said at any time.
LEMMA SaysCycle ==
  ASSUME Known, Dialogue, ShellStep, Write(PromptCycle)
  PROVE  /\ Kinds' = Kinds \cup {"finished", "precmd"} /\ Ordered(Ahead') /\ Remembered'
         /\ UNCHANGED <<mode, last, integration, tail, alt, lastAlt, lastSubmitted,
                        sampled, phase, shell>>
         /\ Fresh'
         /\ integration = "Confirmed" /\ sh' \notin {"boot", "mute"} => Greeting' /\ Greeted'
<1>1. /\ PromptCycle \in Seq({<<"finished">>, <<"precmd">>}) /\ Ordered(PromptCycle)
      /\ KindsOf(PromptCycle) = {"finished", "precmd"} /\ PromptCycle # <<>>
  BY Items
<1>2. \A a \in Kinds, b \in KindsOf(PromptCycle) : Before(a, b)
  BY <1>1, Follows
<1>3. QED BY <1>1, <1>2, Said, SaidLater

\* One item.
LEMMA SaysOne ==
  ASSUME Known, Dialogue, ShellStep, NEW x, Write(<<x>>), \A a \in Kinds : Before(a, x[1])
  PROVE  /\ Kinds' = Kinds \cup {x[1]} /\ Ordered(Ahead') /\ Remembered'
         /\ UNCHANGED <<mode, last, integration, tail, alt, lastAlt, lastSubmitted,
                        sampled, phase, shell>>
         /\ Fresh'
         /\ integration = "Confirmed" /\ sh' \notin {"boot", "mute"} /\ x[1] \notin {"ready", "error"}
              => Greeting' /\ Greeted'
<1> DEFINE items == <<x>>
<1>1. items \in Seq({x}) /\ Ordered(items) /\ KindsOf(items) = {x[1]} /\ items # <<>>
  BY Items
<1>2. Write(items)
  OBVIOUS
<1> HIDE DEF items
<1>3. \A a \in Kinds, b \in KindsOf(items) : Before(a, b)
  BY <1>1
<1>4. QED BY <1>1, <1>2, <1>3, Said, SaidLater

\* Nothing.
LEMMA SaysNothing ==
  ASSUME Known, Dialogue, ShellStep, Write(<<>>)
  PROVE  /\ Kinds' = Kinds /\ Ordered(Ahead') /\ Remembered' /\ stream' = stream
         /\ UNCHANGED <<mode, last, integration, tail, alt, lastAlt, lastSubmitted,
                        sampled, phase, shell>>
         /\ integration = "Confirmed" /\ sh' \notin {"boot", "mute"} => Greeting' /\ Greeted'
<1>1. <<>> \in Seq({}) /\ Ordered(<<>>) /\ KindsOf(<<>>) = {}
  BY Items
<1>2. stream' = stream
  <2>1. PICK S : stream \in Seq(S)
    BY DEF Known, StreamInv, Typed
  <2>2. stream \o <<>> = stream
    BY <2>1, Places
  <2>3. QED BY <2>2 DEF Write
<1>3. QED BY <1>1, <1>2, Said, SaidLater

-----------------------------------------------------------------------------

\* The shell greets.
LEMMA BootTalks == ASSUME Known, Dialogue, Boot PROVE Dialogue'
<1>1. PICK noise \in {<<>>, << <<"out", 0>> >>},
           greeting \in {<< <<"precmd">> >>, PromptCycle} :
        Write(noise \o << <<"ready">> >> \o greeting)
  BY DEF Boot
<1> DEFINE items == noise \o << <<"ready">> >> \o greeting
<1>2. /\ items \in Seq(ScriptItems) /\ items # <<>> /\ Ordered(items)
      /\ KindsOf(items) \subseteq {"out", "ready", "finished", "precmd"}
  BY <1>1, BootItems
<1>3. Write(items)
  BY <1>1
<1> HIDE DEF items
<1>4. /\ ShellStep /\ sh = "boot" /\ sh' = "prompt"
      /\ UNCHANGED <<ptyIn, buf, job, skip>>
  BY DEF Boot
<1>5. Kinds = {} /\ integration # "Confirmed"
  BY <1>4 DEF Dialogue, Greeted
<1>6. /\ Kinds' = KindsOf(items) /\ Ordered(Ahead') /\ Remembered' /\ Fresh'
      /\ UNCHANGED <<mode, last, integration, tail, alt, lastAlt, lastSubmitted,
                     sampled, phase, shell>>
  BY <1>2, <1>3, <1>4, <1>5, Said
<1>7. Greeting' /\ Greeted' /\ AtRunning' /\ AtPs2'
  BY <1>2, <1>4, <1>5, <1>6 DEF Greeting, Greeted, AtRunning, AtPs2, Dialogue
<1>8. AtPrompt'
  BY <1>2, <1>4, <1>5, <1>6, EmptyIsOK DEF AtPrompt, Greeting, Dialogue
<1>9. QED BY <1>4, <1>6, <1>7, <1>8 DEF Dialogue

\* The script gives up, and the shell stays silent.
LEMMA BootFailsTalks == ASSUME Known, Dialogue, BootFails PROVE Dialogue'
<1> DEFINE x == <<"error">>
<1>1. /\ ShellStep /\ sh = "boot" /\ sh' = "mute" /\ Write(<<x>>)
      /\ UNCHANGED <<ptyIn, buf, job, skip>>
  BY DEF BootFails
<1>2. x[1] = "error"
  OBVIOUS
<1> HIDE DEF x
<1>3. Kinds = {} /\ integration # "Confirmed"
  BY <1>1 DEF Dialogue, Greeted
<1>4. /\ Kinds' = {"error"} /\ Ordered(Ahead') /\ Remembered' /\ Fresh'
      /\ UNCHANGED <<mode, last, integration, tail, alt, lastAlt, lastSubmitted,
                     sampled, phase, shell>>
  BY <1>1, <1>2, <1>3, SaysOne
<1>5. Greeting' /\ Greeted' /\ AtRunning' /\ AtPs2' /\ AtPrompt'
  BY <1>1, <1>3, <1>4 DEF Greeting, Greeted, AtRunning, AtPs2, AtPrompt, Dialogue
<1>6. QED BY <1>1, <1>4, <1>5 DEF Dialogue

\* A program's output and its screens.
LEMMA ProgramTalks == ASSUME Known, Dialogue, ProgramSays \/ ProgramScreen PROVE Dialogue'
<1>1. /\ ShellStep /\ sh = "running" /\ UNCHANGED <<ptyIn, sh, buf, skip>>
      /\ job'.text = job.text
      /\ \E x : x[1] \in {"out", "alt"} /\ Write(<<x>>)
  <2>1. CASE ProgramSays
    <3> DEFINE x == <<"out", job.serial>>
    <3>1. x[1] = "out" /\ Write(<<x>>)
      BY <2>1 DEF ProgramSays
    <3>2. job'.text = job.text
      BY <2>1 DEF ProgramSays, Known, StreamInv, Shapes
    <3>3. ShellStep /\ sh = "running" /\ UNCHANGED <<ptyIn, sh, buf, skip>>
      BY <2>1 DEF ProgramSays
    <3> HIDE DEF x
    <3>4. QED BY <3>1, <3>2, <3>3
  <2>2. CASE ProgramScreen
    <3> DEFINE x == <<"alt", job'.screen = "alt">>
    <3>1. x[1] = "alt" /\ Write(<<x>>)
      BY <2>2 DEF ProgramScreen
    <3>2. job'.text = job.text
      BY <2>2 DEF ProgramScreen, Known, StreamInv, Shapes
    <3>3. ShellStep /\ sh = "running" /\ UNCHANGED <<ptyIn, sh, buf, skip>>
      BY <2>2 DEF ProgramScreen
    <3> HIDE DEF x
    <3>4. QED BY <3>1, <3>2, <3>3
  <2>3. QED BY <2>1, <2>2
<1>2. PICK x : x[1] \in {"out", "alt"} /\ Write(<<x>>)
  BY <1>1
<1>3. Kinds \subseteq {"cont", "preexec", "out", "alt"} /\ integration = "Confirmed"
  BY <1>1 DEF Dialogue, AtRunning, Greeting
<1>4. \A a \in Kinds : Before(a, x[1])
  BY <1>2, <1>3, Follows
<1>5. /\ Kinds' = Kinds \cup {x[1]} /\ Ordered(Ahead') /\ Remembered' /\ Fresh'
      /\ UNCHANGED <<mode, last, integration, tail, alt, lastAlt, lastSubmitted,
                     sampled, phase, shell>>
      /\ Greeting' /\ Greeted'
  BY <1>1, <1>2, <1>3, <1>4, SaysOne
<1>6. AtRunning'
  BY <1>1, <1>2, <1>5 DEF AtRunning, Dialogue, SameLines
<1>7. AtPs2' /\ AtPrompt'
  BY <1>1 DEF AtPs2, AtPrompt
<1>8. QED BY <1>1, <1>5, <1>6, <1>7 DEF Dialogue

\* A command ends.
LEMMA FinishTalks == ASSUME Known, Dialogue, Finish PROVE Dialogue'
<1>1. /\ ShellStep /\ sh = "running" /\ sh' = "prompt" /\ skip' = FALSE
      /\ Write(PromptCycle) /\ UNCHANGED <<buf, job>>
      /\ UNCHANGED ptyIn \/ ptyIn' = Tail(ptyIn)
  BY DEF Finish, Dialogue
<1>2. ptyIn' \in {<<>>, Interrupt}
  <2>1. ptyIn = <<>> => UNCHANGED ptyIn
    BY DEF Finish
  <2>2. QED BY <1>1, <2>1, Keys DEF Dialogue, AtRunning
<1>3. integration = "Confirmed"
  BY <1>1 DEF Dialogue, Greeting
<1>4. /\ Kinds' = Kinds \cup {"finished", "precmd"} /\ Ordered(Ahead') /\ Remembered' /\ Fresh'
      /\ UNCHANGED <<mode, last, integration, tail, alt, lastAlt, lastSubmitted,
                     sampled, phase, shell>>
      /\ Greeting' /\ Greeted'
  BY <1>1, <1>3, SaysCycle
<1>5. AtRunning' /\ AtPs2'
  BY <1>1 DEF AtRunning, AtPs2
<1>6. AtPrompt'
  BY <1>1, <1>2, <1>4 DEF AtPrompt, AtRunning, Dialogue
<1>7. QED BY <1>1, <1>4, <1>5, <1>6 DEF Dialogue

\* The shell exits.
LEMMA ExitTalks == ASSUME Known, Dialogue, ShellExits PROVE Dialogue'
<1> DEFINE x == <<"eof">>
<1>1. /\ ShellStep /\ sh \in {"prompt", "running", "mute"} /\ sh' = "gone" /\ Write(<<x>>)
      /\ UNCHANGED <<ptyIn, buf, job, skip>>
  BY DEF ShellExits
<1>2. x[1] = "eof"
  OBVIOUS
<1> HIDE DEF x
<1>3. /\ Kinds' = Kinds \cup {"eof"} /\ Ordered(Ahead') /\ Remembered' /\ Fresh'
      /\ UNCHANGED <<mode, last, integration, tail, alt, lastAlt, lastSubmitted,
                     sampled, phase, shell>>
  BY <1>1, <1>2, Follows, SaysOne
<1>4. Greeting' /\ Greeted' /\ AtRunning' /\ AtPs2' /\ AtPrompt'
  BY <1>1, <1>3 DEF Greeting, Greeted, AtRunning, AtPs2, AtPrompt, Dialogue
<1>5. QED BY <1>1, <1>3, <1>4 DEF Dialogue

-----------------------------------------------------------------------------
(* The shell reads.                                                        *)

\* A line is read of a queue of lines: what it becomes with the lines held.
LEMMA TakesALine ==
  ASSUME NEW held \in Seq(Lines), NEW text \in Seq(Lines), text # <<>>, EndsLast(text)
  PROVE  /\ Append(held, text[1]) \in Seq(Lines)
         /\ Append(held, text[1]) \o Tail(text) = held \o text
         /\ EndsLast(Tail(text)) /\ Tail(text) \in Seq(Lines)
         /\ text[1] = "done" => Tail(text) = <<>> /\ Append(held, text[1]) = held \o text
<1> DEFINE x == text[1]
           t == Tail(text)
<1>1. x \in Lines /\ t \in Seq(Lines) /\ text = <<x>> \o t /\ Len(t) = Len(text) - 1
  BY Queue
<1>2. DOMAIN text = 1..Len(text) /\ Len(text) \in Nat /\ Len(text) >= 1
  BY Places
<1>3. DOMAIN t = 1..(Len(text) - 1) /\ \A i \in 1..(Len(text) - 1) : t[i] = text[i + 1]
  BY <1>1
<1> HIDE DEF x, t
<1>4. EndsLast(t)
  <2> SUFFICES ASSUME NEW i \in DOMAIN t, t[i] = "done" PROVE i = Len(t)
    BY DEF EndsLast
  <2>1. i \in Nat /\ i + 1 \in DOMAIN text /\ text[i + 1] = "done"
    BY <1>2, <1>3
  <2>2. i + 1 = Len(text)
    BY <2>1 DEF EndsLast
  <2>3. Len(t) = Len(text) - 1
    BY <1>1
  <2>4. QED BY <1>2, <2>1, <2>2, <2>3
<1>5. Append(held, x) \in Seq(Lines)
  <2>1. Append(held, x) \in Seq(Lines \cup {x})
    BY AppendAny
  <2>2. Lines \cup {x} = Lines
    BY <1>1
  <2>3. QED BY <2>1, <2>2
<1>6. Append(held, x) \o t = held \o text
  <2> DEFINE a == Append(held, x) \o t
             b == held \o text
  <2>1. <<x>> \in Seq(Lines)
    BY <1>1
  <2>2. Append(held, x) = held \o <<x>>
    BY <1>1
  <2>3. (held \o <<x>>) \o t = held \o (<<x>> \o t)
    BY <1>1, <2>1
  <2>4. QED BY <1>1, <2>2, <2>3
<1>7. ASSUME x = "done" PROVE t = <<>> /\ Append(held, x) = held \o text
  <2>1. 1 = Len(text)
    BY <1>2, <1>7 DEF EndsLast, x
  <2>2. Len(t) = 0
    BY <1>1, <2>1
  <2>3. t = <<>>
    BY <1>1, <2>2
  <2>4. Append(held, x) \o <<>> = Append(held, x)
    BY <1>5, Places
  <2>5. QED BY <1>6, <2>3, <2>4
<1>8. QED BY <1>1, <1>4, <1>5, <1>6, <1>7 DEF x, t

\* A sequence with one more item, and one that has a place.
LEMMA OneMore ==
  ASSUME NEW S, NEW s \in Seq(S), NEW x \in S
  PROVE  /\ Append(s, x) \in Seq(S) /\ Len(Append(s, x)) = Len(s) + 1
         /\ DOMAIN s = 1..Len(s) /\ DOMAIN Append(s, x) = 1..(Len(s) + 1)
         /\ \A i \in 1..Len(s) : i \in DOMAIN Append(s, x) /\ Append(s, x)[i] = s[i]
         /\ Len(s) + 1 \in DOMAIN Append(s, x) /\ Append(s, x)[Len(s) + 1] = x
  OBVIOUS

\* A sequence that has a place is not empty.
LEMMA HasAPlace == ASSUME NEW S, NEW s \in Seq(S), NEW k \in DOMAIN s PROVE s # <<>>
  OBVIOUS

\* A shell at PS2 that reads an open line and asks for the next.
LEMMA HoldsOpen ==
  ASSUME NEW line \in OpenLines, NEW held \in Seq(OpenLines),
         line = "more" \/ Written(held) # <<>>
  PROVE  /\ held \in Seq(Lines) /\ Append(held, line) \in Seq(Lines)
         /\ Append(held, line) \in Seq(OpenLines) /\ Written(Append(held, line)) # <<>>
<1> DEFINE a == Append(held, line)
<1>1. OpenLines \cup Lines = Lines
  BY DEF Lines, OpenLines
<1>2. ASSUME NEW s \in Seq(OpenLines) PROVE s \in Seq(Lines)
  <2>1. s \in Seq(OpenLines \cup Lines)
    BY WrittenBlank, Joined
  <2>2. QED BY <1>1, <2>1
<1>3. /\ a \in Seq(OpenLines) /\ DOMAIN held = 1..Len(held)
      /\ \A i \in 1..Len(held) : i \in DOMAIN a /\ a[i] = held[i]
      /\ Len(held) + 1 \in DOMAIN a /\ a[Len(held) + 1] = line
  BY OneMore
<1> HIDE DEF a
<1>4. held \in Seq(Lines) /\ a \in Seq(Lines)
  BY <1>1, <1>2, <1>3
<1>5. \E i \in DOMAIN a : a[i] # ""
  <2>1. CASE line = "more"
    BY <1>3, <2>1
  <2>2. CASE Written(held) # <<>>
    <3> DEFINE w == Written(held)
    <3>1. w \in Seq(Lines) /\ w # <<>>
      BY <1>4, <2>2, WrittenLines
    <3>2. \A k \in DOMAIN w : \E i \in DOMAIN held : held[i] # ""
      BY <1>4, WrittenLines
    <3> HIDE DEF w
    <3>3. 1 \in DOMAIN w
      <4>1. DOMAIN w = 1..Len(w)
        BY <3>1, Places
      <4>2. 1 \in 1..Len(w)
        BY <3>1, Places
      <4>3. QED BY <4>1, <4>2
    <3>4. PICK i \in DOMAIN held : held[i] # ""
      BY <3>2, <3>3
    <3>5. QED BY <1>3, <3>4
  <2>3. QED BY <2>1, <2>2
<1>6. Written(a) # <<>>
  <2>1. PICK k \in DOMAIN Written(a) : TRUE
    BY <1>4, <1>5, WrittenLines
  <2>2. Written(a) \in Seq(Lines)
    BY <1>4, WrittenLines
  <2>3. QED BY <2>1, <2>2, HasAPlace
<1>7. QED BY <1>3, <1>4, <1>6 DEF a

\* zsh and bash read a line of what was submitted, and hold it or run it all.
LEMMA LineOfSubmission ==
  ASSUME Known, Dialogue, ReadLine,
         NEW text \in Seq(Lines), text # <<>>, EndsLast(text), ptyIn = LinesOf(text),
         lastSubmitted # None, SameLines(buf \o text, lastSubmitted),
         buf \in Seq(OpenLines),
         sh = "prompt" => Submission /\ buf = <<>>,
         sh = "ps2" => /\ tail.kind = "Prompt" /\ Kinds \subseteq {"cont"} /\ ~alt /\ ~lastAlt
                       /\ mode = "ShellPromptEditor" \/ HasSubmitted
                       /\ tail.text \in {<<"">>, Append(lastSubmitted, "")},
         text[1] # "" \/ sh = "ps2"
  PROVE  Dialogue'
<1> DEFINE line == text[1]
<1>1. /\ ShellStep /\ shell # "fish" /\ sh \in {"prompt", "ps2"} /\ ptyIn # <<>>
      /\ Head(ptyIn)[2] = line /\ ptyIn' = LinesOf(Tail(text)) /\ UNCHANGED skip
      /\ Tail(text) \in Seq(Lines) /\ line \in Lines
  BY Queue DEF ReadLine
<1>2. /\ tail.kind = "Prompt" /\ Kinds \subseteq {"cont"} /\ ~alt /\ ~lastAlt
      /\ mode = "ShellPromptEditor" \/ HasSubmitted
      /\ tail.text \in {<<"">>, Append(lastSubmitted, "")}
      /\ integration = "Confirmed" /\ TextOK(lastSubmitted)
  BY <1>1 DEF Submission, Dialogue, Greeting, Remembered
<1>3. buf \in Seq(Lines)
  <2>1. "more" \in OpenLines
    BY DEF OpenLines
  <2>2. QED BY <2>1, HoldsOpen
<1>4. /\ Append(buf, line) \o Tail(text) = buf \o text /\ EndsLast(Tail(text))
      /\ line = "done" => Tail(text) = <<>> /\ Append(buf, line) = buf \o text
  BY <1>3, TakesALine
<1>5. CASE line = "more" \/ line = ""
  <2> DEFINE x == <<"cont">>
  <2>1. buf' = Append(buf, line) /\ sh' = "ps2" /\ Write(<<x>>) /\ UNCHANGED job
    BY <1>1, <1>5 DEF ReadLine
  <2>2. x[1] = "cont"
    OBVIOUS
  <2> HIDE DEF x
  <2>3. \A a \in Kinds : Before(a, x[1])
    BY <1>2, <2>2, Follows
  <2>4. /\ Kinds' = {"cont"} /\ Ordered(Ahead') /\ Remembered' /\ Fresh'
        /\ UNCHANGED <<mode, last, integration, tail, alt, lastAlt, lastSubmitted,
                       sampled, phase, shell>>
        /\ Greeting' /\ Greeted'
    BY <1>1, <1>2, <2>1, <2>2, <2>3, SaysOne
  <2>5. /\ Append(buf, line) \in Seq(OpenLines) /\ Written(Append(buf, line)) # <<>>
        /\ Append(buf, line) \in Seq(Lines)
    <3>1. line = "more" \/ Written(buf) # <<>>
      BY <1>1, <1>5 DEF Dialogue, AtPs2
    <3>2. line \in OpenLines
      BY <1>5 DEF OpenLines
    <3>3. QED BY <3>1, <3>2, HoldsOpen
  <2>6. Unread' = Tail(text)
    BY <1>1, QueueLater
  <2>7. SameLines(buf' \o Tail(text), lastSubmitted)
    BY <1>4, <2>1
  <2>8. ASSUME ptyIn' = <<>> PROVE TextOK(tail.text)
    <3>1. Tail(text) = <<>>
      BY <1>1, <2>8, Queue
    <3>2. buf' \o <<>> = buf'
      BY <2>1, <2>5, Places
    <3>3. SameLines(buf', lastSubmitted)
      BY <2>7, <3>1, <3>2
    <3>4. TextOK(Append(lastSubmitted, ""))
      BY <1>2, <2>1, <2>5, <3>3, HeldIsOpen
    <3>5. QED BY <1>2, <3>4, EmptyIsOK
  <2>9. Sent'
    <3>1. mode' = "ShellPromptEditor" \/ (HasSubmitted' /\ "cont" \in Kinds')
      BY <1>2, <2>4 DEF HasSubmitted
    <3>2. IF ptyIn' = <<>> THEN TextOK(tail'.text)
          ELSE tail'.text \in {<<"">>, Append(lastSubmitted', "")}
      BY <1>2, <2>4, <2>8
    <3>3. SameLines(buf' \o Unread', lastSubmitted')
      BY <2>4, <2>6, <2>7
    <3>4. Unread' \in Seq(Lines) /\ ptyIn' = LinesOf(Unread') /\ EndsLast(Unread')
      BY <1>1, <1>4, <2>6
    <3>5. lastSubmitted' # None
      BY <2>4
    <3>6. QED BY <3>1, <3>2, <3>3, <3>4, <3>5 DEF Sent, SameLines
  <2>10. AtPs2'
    BY <1>1, <1>2, <2>1, <2>4, <2>5, <2>9 DEF AtPs2
  <2>11. AtRunning' /\ AtPrompt'
    BY <2>1 DEF AtRunning, AtPrompt
  <2>12. ~skip'
    BY <1>1 DEF Dialogue
  <2>13. QED BY <2>4, <2>10, <2>11, <2>12 DEF Dialogue
<1>6. CASE line = "done"
  <2> DEFINE all == Append(buf, line)
             x == <<"preexec", [serial |-> job.serial + 1, text |-> all]>>
  <2>1. Execute(all)
    BY <1>1, <1>6 DEF ReadLine
  <2>2. /\ Write(<<x>>) /\ x[1] = "preexec" /\ sh' = "running" /\ job'.text = all /\ buf' = <<>>
    BY <2>1 DEF Execute
  <2> HIDE DEF x, all
  <2>3. \A a \in Kinds : Before(a, x[1])
    BY <1>2, <2>2, Follows
  <2>4. /\ Kinds' = Kinds \cup {"preexec"} /\ Ordered(Ahead') /\ Remembered' /\ Fresh'
        /\ UNCHANGED <<mode, last, integration, tail, alt, lastAlt, lastSubmitted,
                       sampled, phase, shell>>
        /\ Greeting' /\ Greeted'
    BY <1>1, <1>2, <2>2, <2>3, SaysOne
  <2>5. ptyIn' = <<>>
    <3>1. Tail(text) = <<>>
      BY <1>4, <1>6
    <3>2. LinesOf(Tail(text)) = <<>>
      BY <1>1, <3>1, Queue
    <3>3. QED BY <1>1, <3>2
  <2>6. SameLines(job'.text, lastSubmitted')
    BY <1>4, <1>6, <2>2, <2>4 DEF SameLines, all
  <2>7. AtRunning'
    BY <1>2, <2>2, <2>4, <2>5, <2>6 DEF AtRunning, SameLines
  <2>8. AtPs2' /\ AtPrompt' /\ ~skip'
    BY <1>1, <2>2 DEF AtPs2, AtPrompt, Dialogue
  <2>9. QED BY <2>4, <2>7, <2>8 DEF Dialogue
<1>7. QED BY <1>1, <1>5, <1>6 DEF Lines

\* A bare Enter, sent by itself or as the whole of a text.
LEMMA BlankTalks ==
  ASSUME Known, Dialogue, ReadLine, sh = "prompt", Head(ptyIn)[2] = "", ptyIn' = <<>>
  PROVE  Dialogue'
<1>1. /\ ShellStep /\ ptyIn # <<>> /\ UNCHANGED <<sh, buf, job, skip>> /\ Write(PromptCycle)
  BY DEF ReadLine
<1>2. integration = "Confirmed"
  BY <1>1 DEF Dialogue, Greeting
<1>3. /\ Kinds' = Kinds \cup {"finished", "precmd"} /\ Ordered(Ahead') /\ Remembered' /\ Fresh'
      /\ UNCHANGED <<mode, last, integration, tail, alt, lastAlt, lastSubmitted,
                     sampled, phase, shell>>
      /\ Greeting' /\ Greeted'
  BY <1>1, <1>2, SaysCycle
<1>4. AtPrompt'
  BY <1>1, <1>3 DEF AtPrompt, Dialogue, LeavesOpen
<1>5. AtRunning' /\ AtPs2'
  BY <1>1 DEF AtRunning, AtPs2
<1>6. QED BY <1>1, <1>3, <1>4, <1>5 DEF Dialogue

\* Nothing before a sequence, and what is left behind its only item.
LEMMA BareLine ==
  ASSUME NEW S, NEW s \in Seq(S)
  PROVE  <<>> \o s = s /\ (Len(s) = 1 => Tail(s) = <<>>)
<1>1. <<>> \o s = s
  OBVIOUS
<1>2. ASSUME Len(s) = 1 PROVE Tail(s) = <<>>
  <2>1. s # <<>>
    BY <1>2
  <2>2. Tail(s) \in Seq(S) /\ Len(Tail(s)) = 0
    BY <1>2, <2>1
  <2> DEFINE t == Tail(s)
  <2>3. t \in Seq(S) /\ Len(t) = 0
    BY <2>2
  <2> HIDE DEF t
  <2>4. t = <<>>
    BY <2>3, Places
  <2>5. QED BY <2>4 DEF t
<1>3. QED BY <1>1, <1>2

\* zsh and bash read a line.
LEMMA ReadLineTalks == ASSUME Known, Dialogue, ReadLine PROVE Dialogue'
<1>1. /\ shell # "fish" /\ sh \in {"prompt", "ps2"} /\ ptyIn # <<>>
      /\ Head(ptyIn)[1] = "line" /\ ptyIn' = Tail(ptyIn)
  BY DEF ReadLine
<1>2. ASSUME sh = "prompt" PROVE Dialogue'
  <2>1. buf = <<>> /\ (ptyIn = BareEnter \/ Submission)
    BY <1>1, <1>2, Keys DEF Dialogue, AtPrompt
  <2>2. CASE ptyIn = BareEnter
    BY <1>1, <1>2, <2>2, Keys, BlankTalks
  <2>3. CASE Submission
    <3> DEFINE text == lastSubmitted
    <3>1. text # None /\ ptyIn = LinesOf(text)
      BY <1>1, <2>3 DEF Submission, Framed, LinesOf
    <3>2. TextOK(text)
      BY <3>1 DEF Dialogue, Remembered
    <3>3. text \in Seq(Lines) /\ text # <<>> /\ EndsLast(text) /\ (text[1] = "" => Len(text) = 1)
      BY <3>2 DEF TextOK
    <3>4. CASE text[1] = ""
      <4>1. Head(ptyIn)[2] = "" /\ ptyIn' = LinesOf(Tail(text)) /\ Tail(text) \in Seq(Lines)
        BY <1>1, <3>1, <3>3, <3>4, Queue
      <4>2. Tail(text) = <<>>
        BY <3>3, <3>4, BareLine
      <4>3. ptyIn' = <<>>
        BY <4>1, <4>2, Queue
      <4>4. QED BY <1>2, <4>1, <4>3, BlankTalks
    <3>5. CASE text[1] # ""
      <4>1. <<>> \o text = text
        BY <3>3, BareLine
      <4>2. SameLines(buf \o text, lastSubmitted)
        BY <2>1, <4>1 DEF SameLines
      <4>3. <<>> \in Seq(OpenLines)
        OBVIOUS
      <4>4. buf \in Seq(OpenLines)
        BY <2>1, <4>3
      <4>5. sh # "ps2"
        BY <1>2
      <4>6. QED BY <2>1, <2>3, <3>1, <3>3, <3>5, <4>2, <4>4, <4>5, LineOfSubmission
    <3>6. QED BY <3>4, <3>5
  <2>4. QED BY <2>1, <2>2, <2>3
<1>3. ASSUME sh = "ps2" PROVE Dialogue'
  <2>1. /\ tail.kind = "Prompt" /\ Kinds \subseteq {"cont"} /\ ~alt /\ ~lastAlt
        /\ buf \in Seq(OpenLines) /\ Sent
    BY <1>1, <1>3, Keys DEF Dialogue, AtPs2, Aborted
  <2> DEFINE text == Unread
  <2>2. /\ lastSubmitted # None /\ text \in Seq(Lines) /\ ptyIn = LinesOf(text) /\ EndsLast(text)
        /\ SameLines(buf \o text, lastSubmitted)
        /\ mode = "ShellPromptEditor" \/ HasSubmitted
        /\ tail.text \in {<<"">>, Append(lastSubmitted, "")}
    BY <1>1, <2>1 DEF Sent
  <2> HIDE DEF text
  <2>3. text # <<>>
    BY <1>1, <2>2, Queue
  <2>4. sh # "prompt"
    BY <1>3
  <2>5. QED BY <1>3, <2>1, <2>2, <2>3, <2>4, LineOfSubmission
<1>4. QED BY <1>1, <1>2, <1>3

\* fish reads the whole text, and runs it or drops it and asks for it again.
LEMMA ReadTextTalks == ASSUME Known, Dialogue, ReadText PROVE Dialogue'
<1> DEFINE text == lastSubmitted
           sent == <<"text", text>>
<1>1. /\ ShellStep /\ shell = "fish" /\ sh = "prompt" /\ ptyIn # <<>> /\ UNCHANGED skip
      /\ Head(ptyIn)[1] \in {"text", "line"} /\ ptyIn' = Tail(ptyIn)
  BY DEF ReadText
<1>2. Submission /\ buf = <<>>
  BY <1>1, Keys DEF Dialogue, AtPrompt
<1>3. /\ text # None /\ ptyIn = <<sent>> /\ Kinds = {} /\ tail.kind = "Prompt" /\ tail.text = <<"">>
      /\ ~alt /\ ~lastAlt
  BY <1>1, <1>2 DEF Submission, Framed
<1>4. sent[1] = "text" /\ sent[2] = text
  OBVIOUS
<1> HIDE DEF sent
<1>5. Head(ptyIn) = sent /\ ptyIn' = <<>>
  <2>1. Head(<<sent>>) = sent /\ Tail(<<sent>>) = <<>>
    OBVIOUS
  <2>2. QED BY <1>1, <1>3, <2>1
<1>6. TextOK(text) /\ integration = "Confirmed"
  BY <1>1, <1>3 DEF Dialogue, Remembered, Greeting
<1>7. CASE LeftOpen(text)
  <2> DEFINE x == <<"cont">>
  <2>1. Write(<<x>>) /\ UNCHANGED <<sh, buf, job>>
    BY <1>4, <1>5, <1>7 DEF ReadText
  <2>2. x[1] = "cont"
    OBVIOUS
  <2> HIDE DEF x
  <2>3. /\ Kinds' = {"cont"} /\ Ordered(Ahead') /\ Remembered' /\ Fresh'
        /\ UNCHANGED <<mode, last, integration, tail, alt, lastAlt, lastSubmitted,
                       sampled, phase, shell>>
        /\ Greeting' /\ Greeted'
    BY <1>1, <1>3, <1>6, <2>1, <2>2, SaysOne
  <2>4. LeavesOpen(text)
    BY <1>6, <1>7, LeftOpenLeavesOpen
  <2>5. AtPrompt'
    BY <1>1, <1>2, <1>3, <1>5, <2>1, <2>3, <2>4, EmptyIsOK DEF AtPrompt, LeavesOpen
  <2>6. AtRunning' /\ AtPs2' /\ ~skip'
    BY <1>1, <2>1 DEF AtRunning, AtPs2, Dialogue
  <2>7. QED BY <2>3, <2>5, <2>6 DEF Dialogue
<1>8. CASE ~LeftOpen(text)
  <2> DEFINE x == <<"preexec", [serial |-> job.serial + 1, text |-> text]>>
  <2>1. Execute(text)
    BY <1>4, <1>5, <1>8 DEF ReadText
  <2>2. /\ Write(<<x>>) /\ x[1] = "preexec" /\ sh' = "running" /\ job'.text = text /\ buf' = <<>>
    BY <2>1 DEF Execute
  <2> HIDE DEF x
  <2>3. /\ Kinds' = {"preexec"} /\ Ordered(Ahead') /\ Remembered' /\ Fresh'
        /\ UNCHANGED <<mode, last, integration, tail, alt, lastAlt, lastSubmitted,
                       sampled, phase, shell>>
        /\ Greeting' /\ Greeted'
    BY <1>1, <1>3, <1>6, <2>2, SaysOne
  <2>4. AtRunning'
    BY <1>3, <1>5, <2>2, <2>3 DEF AtRunning, SameLines
  <2>5. AtPs2' /\ AtPrompt' /\ ~skip'
    BY <1>1, <2>2 DEF AtPs2, AtPrompt, Dialogue
  <2>6. QED BY <2>3, <2>4, <2>5 DEF Dialogue
<1>9. QED BY <1>7, <1>8

\* An interrupt drops the open lines, and the Enter behind it finds a prompt.
LEMMA ReadInterruptTalks == ASSUME Known, Dialogue, ReadInterrupt PROVE Dialogue'
<1>1. /\ ShellStep /\ sh \in {"prompt", "ps2"} /\ ptyIn # <<>> /\ buf' = <<>>
      /\ Head(ptyIn)[1] = "intr" /\ ptyIn' = Tail(ptyIn) /\ UNCHANGED <<job, skip>>
  BY DEF ReadInterrupt
<1>2. integration = "Confirmed"
  BY <1>1 DEF Dialogue, Greeting
<1>3. ASSUME sh = "prompt"
      PROVE  /\ ptyIn = Interrupt /\ ptyIn' = <<>>
             /\ shell = "fish" \/ lastSubmitted = None \/ "precmd" \in Kinds
  <2>1. ASSUME Submission PROVE FALSE
    <3> DEFINE text == lastSubmitted
               sent == <<"text", text>>
    <3>1. text # None /\ ptyIn = Framed(text)
      BY <2>1 DEF Submission
    <3>2. text \in Seq(Lines) /\ text # <<>>
      BY <3>1 DEF Dialogue, Remembered, TextOK
    <3>3. CASE shell = "fish"
      <4>1. ptyIn = <<sent>> /\ sent[1] = "text"
        BY <3>1, <3>3 DEF Framed
      <4> HIDE DEF sent
      <4>2. Head(<<sent>>) = sent
        OBVIOUS
      <4>3. QED BY <1>1, <4>1, <4>2
    <3>4. CASE shell # "fish"
      <4>1. ptyIn = LinesOf(text)
        BY <3>1, <3>4 DEF Framed, LinesOf
      <4>2. Head(ptyIn)[1] = "line"
        BY <3>2, <4>1, Queue
      <4>3. QED BY <1>1, <4>2
    <3>5. QED BY <3>3, <3>4
  <2>2. /\ ptyIn = Interrupt
        /\ shell = "fish" \/ lastSubmitted = None \/ "precmd" \in Kinds
    BY <1>1, <1>3, <2>1, Keys DEF Dialogue, AtPrompt
  <2>3. QED BY <1>1, <2>2, Keys
<1>4. ASSUME sh = "ps2" PROVE Aborted /\ ptyIn' = BareEnter /\ shell # "fish" /\ tail.kind = "Prompt"
  <2>1. shell # "fish" /\ tail.kind = "Prompt" /\ (Sent \/ Aborted)
    BY <1>4 DEF Dialogue, AtPs2
  <2>2. ASSUME Sent PROVE FALSE
    <3>1. Unread \in Seq(Lines) /\ ptyIn = LinesOf(Unread)
      BY <2>2 DEF Sent
    <3>2. Unread # <<>>
      BY <1>1, <3>1, Queue
    <3>3. Head(LinesOf(Unread))[1] = "line"
      BY <3>1, <3>2, Queue
    <3>4. QED BY <1>1, <3>1, <3>3
  <2>3. QED BY <1>1, <2>1, <2>2, Keys DEF Aborted
<1>5. CASE sh' = "prompt" /\ Write(<<>>)
  <2>1. /\ Kinds' = Kinds /\ Ordered(Ahead') /\ Remembered' /\ stream' = stream
        /\ UNCHANGED <<mode, last, integration, tail, alt, lastAlt, lastSubmitted,
                       sampled, phase, shell>>
        /\ Greeting' /\ Greeted'
    BY <1>1, <1>2, <1>5, SaysNothing
  <2>2. AtPrompt' /\ Fresh'
    <3>1. CASE sh = "prompt"
      <4>1. AtPrompt'
        BY <1>1, <1>3, <1>5, <2>1, <3>1 DEF AtPrompt, Dialogue, LeavesOpen
      <4>2. Fresh'
        BY <1>1, <1>3, <1>5, <2>1, <3>1, Keys DEF Fresh, Dialogue
      <4>3. QED BY <4>1, <4>2
    <3>2. CASE sh = "ps2"
      <4>1. AtPrompt'
        BY <1>1, <1>4, <1>5, <2>1, <3>2 DEF AtPrompt, Aborted
      <4>2. Fresh'
        BY <1>4, <2>1, <3>2 DEF Fresh, Aborted
      <4>3. QED BY <4>1, <4>2
    <3>3. QED BY <1>1, <3>1, <3>2
  <2>3. AtRunning' /\ AtPs2' /\ ~skip'
    BY <1>1, <1>5 DEF AtRunning, AtPs2, Dialogue
  <2>4. QED BY <2>1, <2>2, <2>3 DEF Dialogue
<1>6. CASE sh' = "prompt" /\ Write(PromptCycle) /\ shell # "fish"
  <2>1. /\ Kinds' = Kinds \cup {"finished", "precmd"} /\ Ordered(Ahead') /\ Remembered' /\ Fresh'
        /\ UNCHANGED <<mode, last, integration, tail, alt, lastAlt, lastSubmitted,
                       sampled, phase, shell>>
        /\ Greeting' /\ Greeted'
    BY <1>1, <1>2, <1>6, SaysCycle
  <2>2. AtPrompt'
    <3>1. CASE sh = "prompt"
      BY <1>1, <1>3, <1>6, <2>1, <3>1 DEF AtPrompt, Dialogue, LeavesOpen
    <3>2. CASE sh = "ps2"
      BY <1>1, <1>4, <1>6, <2>1, <3>2 DEF AtPrompt, Aborted
    <3>3. QED BY <1>1, <3>1, <3>2
  <2>3. AtRunning' /\ AtPs2' /\ ~skip'
    BY <1>1, <1>6 DEF AtRunning, AtPs2, Dialogue
  <2>4. QED BY <2>1, <2>2, <2>3 DEF Dialogue
<1>7. CASE sh' = "gone" /\ Write(<< <<"eof">> >>) /\ shell = "fish"
  <2> DEFINE x == <<"eof">>
  <2>1. Write(<<x>>) /\ x[1] = "eof"
    BY <1>7
  <2> HIDE DEF x
  <2>2. /\ Kinds' = Kinds \cup {"eof"} /\ Ordered(Ahead') /\ Remembered' /\ Fresh'
        /\ UNCHANGED <<mode, last, integration, tail, alt, lastAlt, lastSubmitted,
                       sampled, phase, shell>>
        /\ Greeting' /\ Greeted'
    BY <1>1, <1>2, <1>7, <2>1, Follows, SaysOne
  <2>3. AtRunning' /\ AtPs2' /\ AtPrompt' /\ ~skip'
    BY <1>1, <1>7 DEF AtRunning, AtPs2, AtPrompt, Dialogue
  <2>4. QED BY <2>2, <2>3 DEF Dialogue
<1>8. QED BY <1>5, <1>6, <1>7 DEF ReadInterrupt

\* Nobody asked for a completion.
LEMMA NoCompletionIsRead == ASSUME Dialogue PROVE ~ReadCompletion
<1> SUFFICES ASSUME ReadCompletion PROVE FALSE
  OBVIOUS
<1>1. sh \in {"prompt", "ps2"} /\ ptyIn # <<>> /\ Head(ptyIn)[1] = "complete"
  BY DEF ReadCompletion
<1>2. ASSUME NEW text \in Seq(Lines), ptyIn = LinesOf(text) PROVE FALSE
  <2>1. text # <<>>
    BY <1>1, <1>2, Queue
  <2>2. Head(ptyIn)[1] = "line"
    BY <1>2, <2>1, Queue
  <2>3. QED BY <1>1, <2>2
<1>3. CASE sh = "ps2"
  BY <1>1, <1>2, <1>3, Keys DEF Dialogue, AtPs2, Sent, Aborted
<1>4. CASE sh = "prompt"
  <2>1. Submission
    BY <1>1, <1>4, Keys DEF Dialogue, AtPrompt
  <2> DEFINE text == lastSubmitted
             sent == <<"text", text>>
  <2>2. text \in Seq(Lines) /\ ptyIn = Framed(text)
    BY <2>1 DEF Submission, Dialogue, Remembered, TextOK
  <2>3. CASE shell = "fish"
    <3>1. ptyIn = <<sent>> /\ sent[1] = "text"
      BY <2>2, <2>3 DEF Framed
    <3> HIDE DEF sent
    <3>2. Head(<<sent>>) = sent
      OBVIOUS
    <3>3. QED BY <1>1, <3>1, <3>2
  <2>4. CASE shell # "fish"
    BY <1>2, <2>2, <2>4 DEF Framed, LinesOf
  <2>5. QED BY <2>3, <2>4
<1>5. QED BY <1>1, <1>3, <1>4

\* Every step of the shell keeps the dialogue.
LEMMA ShellTalks == ASSUME Known, Dialogue, ShellNext PROVE Dialogue'
  BY BootTalks, BootFailsTalks, ReadLineTalks, ReadTextTalks, NoCompletionIsRead,
     ReadInterruptTalks, ProgramTalks, FinishTalks, ExitTalks DEF ShellNext

-----------------------------------------------------------------------------

\* A pane begins in dialogue.
LEMMA DialogueInit == ASSUME Init PROVE Dialogue
<1>1. /\ events = <<>> /\ stream = <<>> /\ ptyIn = <<>> /\ buf = <<>> /\ sh = "boot" /\ ~skip
      /\ lastSubmitted = None /\ ~lastAlt /\ ~sampled
      /\ integration # "Confirmed" /\ mode = "Bootstrapping"
  BY DEF Init, Ctl!Spawned
<1>2. tail.kind = "Prompt" /\ tail.text = <<"">> /\ ~alt
  <2>1. PICK n : Blk!Init(n)
    BY DEF Init
  <2>2. tail = [kind |-> "Prompt", id |-> n, command |-> [serial |-> 0, text |-> <<>>], text |-> <<"">>]
    BY <2>1 DEF Blk!Init, Blk!Prompt
  <2>3. ~alt
    BY <2>1 DEF Blk!Init
  <2>4. QED BY <2>2, <2>3
<1>3. Ahead = <<>> /\ Kinds = {} /\ Ordered(Ahead)
  <2>1. Ahead = <<>>
    BY <1>1 DEF Ahead
  <2>2. QED BY <2>1, Items DEF Kinds
<1>4. QED
  BY <1>1, <1>2, <1>3
     DEF Dialogue, Greeting, Greeted, Remembered, Fresh, AtRunning, AtPs2, AtPrompt

\* A step that changes nothing.
LEMMA DialogueStutters == ASSUME Dialogue, UNCHANGED vars PROVE Dialogue'
<1>1. UNCHANGED <<mode, integration, last, tail, alt, phase, sampled, shell, lastSubmitted,
                  lastAlt, events, stream, ptyIn, sh, buf, job, skip>>
  BY DEF vars, ctlVars, blkVars, paneVars, shellVars
<1>2. UNCHANGED <<Ahead, Kinds>> /\ Ordered(Ahead')
  BY <1>1, Unmoved
<1>3. Greeting' /\ Greeted' /\ Remembered' /\ Fresh'
  BY <1>1, <1>2 DEF Greeting, Greeted, Remembered, Fresh, Dialogue
<1>4. AtRunning'
  BY <1>1, <1>2 DEF AtRunning, SameLines, Dialogue
<1>5. AtPs2'
  <2>1. (Sent => Sent') /\ (Aborted => Aborted')
    BY <1>1, <1>2 DEF Sent, Aborted, Unread, HasSubmitted, SameLines
  <2>2. QED BY <1>1, <1>2, <2>1 DEF AtPs2, Dialogue
<1>6. AtPrompt'
  <2>1. Submission => Submission'
    BY <1>1, <1>2 DEF Submission, HasSubmitted, Framed
  <2>2. QED BY <1>1, <1>2, <2>1 DEF AtPrompt, LeavesOpen, Dialogue
<1>7. QED BY <1>1, <1>2, <1>3, <1>4, <1>5, <1>6 DEF Dialogue

\* What holds of every pane holds of this one.
LEMMA KnownHolds == Spec => []Known
<1>1. Spec => []ShownInv
  BY ShownInvHolds
<1>2. Spec => []ScreenInv
  BY ScreenInvHolds
<1>3. Spec => [](/\ Ctl!TypeOK /\ Ctl!ReasonFixesMode /\ Ctl!HandshakeGatesEditor
                 /\ Ctl!NoCommandWithoutShell /\ Ctl!BootstrapIsYoung)
  BY PaneControllerIsSafe
<1>4. ShownInv /\ ScreenInv
        /\ (/\ Ctl!TypeOK /\ Ctl!ReasonFixesMode /\ Ctl!HandshakeGatesEditor
            /\ Ctl!NoCommandWithoutShell /\ Ctl!BootstrapIsYoung)
      => Known
  BY DEF Known, ShownInv
<1>5. QED BY <1>1, <1>2, <1>3, <1>4, PTL

\* The dialogue holds of every pane whose user waits.
LEMMA DialogueHolds == ASSUME PatientUser PROVE Spec => [](Known /\ Dialogue)
<1>1. Init => Dialogue
  BY DialogueInit
<1>2. Known /\ Dialogue /\ [Next]_vars => Dialogue'
  BY ShellTalks, FrameTalks, UserTalks, DialogueStutters DEF Next
<1>3. Spec => []Known
  BY KnownHolds
<1>4. QED BY <1>1, <1>2, <1>3, PTL DEF Spec

\* A pane at PS2 that has settled has its editor up and knows what the shell
\* holds, so the next submit sends the right suffix (`continuation_to_send`).
THEOREM ContinuationIsShared == ASSUME PatientUser PROVE Spec => []ContinuationAgreement
<1>1. Known /\ Dialogue => ContinuationAgreement
  <2> SUFFICES ASSUME Dialogue, Known, Quiet, sh = "ps2"
               PROVE  AwaitingContinuation /\ SameLines(lastSubmitted, buf)
    BY DEF ContinuationAgreement
  <2>1. phase = "input" /\ stream = <<>> /\ ptyIn = <<>>
    BY DEF Quiet, Settled
  <2>2. Kinds = {}
    BY <2>1 DEF Known, StreamInv, Kinds, KindsOf, Ahead
  <2>3. tail.kind = "Prompt" /\ buf \in Seq(OpenLines) /\ Sent
    BY <2>1, Keys DEF Dialogue, AtPs2, Aborted
  <2>4. mode = "ShellPromptEditor" /\ lastSubmitted # None
    BY <2>1, <2>2, <2>3 DEF Sent
  <2>5. Unread = <<>>
    BY <2>1 DEF Unread
  <2>6. buf \o <<>> = buf
    BY <2>3, Places
  <2>7. SameLines(buf, lastSubmitted)
    BY <2>3, <2>5, <2>6 DEF Sent
  <2>8. QED BY <2>3, <2>4, <2>7 DEF AwaitingContinuation, EditorActive, Blk!EditorOnTail, SameLines
<1>2. Spec => [](Known /\ Dialogue)
  BY DialogueHolds
<1>3. QED BY <1>1, <1>2, PTL

\* The command the shell runs is the text that was submitted, whole and once,
\* through every continuation it took.
THEOREM SubmittedTextRuns == ASSUME PatientUser PROVE Spec => []RunsWhatWasSubmitted
<1>1. Known /\ Dialogue => RunsWhatWasSubmitted
  BY DEF Dialogue, AtRunning, RunsWhatWasSubmitted
<1>2. Spec => [](Known /\ Dialogue)
  BY DialogueHolds
<1>3. QED BY <1>1, <1>2, PTL

-----------------------------------------------------------------------------
(* The tally: every command has one block.                                 *)

\* An item is of a job: its output, or its start.
OfJob(item, j) ==
  /\ item[1] = "out" => item[2] = j.serial
  /\ item[1] = "preexec" => item[2] = [serial |-> j.serial, text |-> j.text]

\* The job, its items ahead and its tail have its number.
Numbered ==
  /\ job.serial \in Nat
  /\ integration # "Confirmed" => job.serial = 0
  /\ tail.kind = "Running" \/ "preexec" \in Kinds => job.serial # 0
  /\ tail.kind = "Running" => tail.command.serial = job.serial /\ "preexec" \notin Kinds
  /\ \A i \in DOMAIN Ahead : OfJob(Ahead[i], job)

\* The blocks of commands, and whether one is still to be sealed.
Ran == Keep(sealed, {i \in DOMAIN sealed : sealed[i].command.serial # 0})

Unsealed == IF tail.kind = "Running" \/ "preexec" \in Kinds THEN 1 ELSE 0

\* Every command has a block at its place, but for the one not yet sealed.
Counted ==
  ~Can("clear") =>
    /\ Len(Ran) + Unsealed = job.serial
    /\ \A i \in DOMAIN Ran : Ran[i].command.serial = i

Tally == Numbered /\ Counted

\* What is ahead after a step was ahead before it, or is of the new job.
Carried ==
  \A k \in DOMAIN Ahead' :
    (\E i \in DOMAIN Ahead : Ahead'[k] = Ahead[i]) \/ OfJob(Ahead'[k], job')

\* A step that runs nothing, starts nothing and seals nothing.
LEMMA KeepsTally ==
  ASSUME Tally, Carried, job'.serial = job.serial, job'.text = job.text, UNCHANGED sealed,
         tail'.kind = tail.kind, tail.kind = "Running" => tail'.command = tail.command,
         "preexec" \in Kinds' <=> "preexec" \in Kinds,
         integration' # "Confirmed" => integration # "Confirmed"
  PROVE  Tally'
<1>1. \A i \in DOMAIN Ahead' : OfJob(Ahead'[i], job')
  <2> SUFFICES ASSUME NEW k \in DOMAIN Ahead' PROVE OfJob(Ahead'[k], job')
    OBVIOUS
  <2>1. CASE OfJob(Ahead'[k], job')
    BY <2>1
  <2>2. CASE \E i \in DOMAIN Ahead : Ahead'[k] = Ahead[i]
    <3>1. PICK i \in DOMAIN Ahead : Ahead'[k] = Ahead[i]
      BY <2>2
    <3>2. OfJob(Ahead[i], job)
      BY DEF Tally, Numbered
    <3>3. QED BY <3>1, <3>2 DEF OfJob
  <2>3. QED BY <2>1, <2>2 DEF Carried
<1>2. Numbered'
  BY <1>1 DEF Tally, Numbered
<1>3. Counted'
  BY DEF Tally, Counted, Ran, Unsealed
<1>4. QED BY <1>2, <1>3 DEF Tally

\* A block at the end of the stack.
LEMMA RanGrows ==
  ASSUME NEW S, sealed \in Seq(S), NEW block, sealed' = Append(sealed, block)
  PROVE  /\ Ran' = IF block.command.serial # 0 THEN Append(Ran, block) ELSE Ran
         /\ Ran \in Seq(S) /\ sealed' \in Seq(S \cup {block})
<1> DEFINE T == S \cup {block}
           places == {i \in DOMAIN sealed : sealed[i].command.serial # 0}
           later == {i \in DOMAIN sealed' : sealed'[i].command.serial # 0}
<1>1. /\ sealed' \in Seq(T) /\ DOMAIN sealed' = 1..Len(sealed) + 1
      /\ \A i \in DOMAIN sealed : sealed'[i] = sealed[i]
      /\ sealed'[Len(sealed) + 1] = block
  BY AppendAny
<1>2. DOMAIN sealed = 1..Len(sealed) /\ Len(sealed) \in Nat
  BY Places
<1>3. block \in T
  OBVIOUS
<1>4. sealed \in Seq(T)
  <2>1. Ran = Ran
    OBVIOUS
  <2>2. \A i \in 1..Len(sealed) : sealed[i] \in T
    BY Places
  <2>3. sealed = [i \in 1..Len(sealed) |-> sealed[i]]
    BY Places
  <2> HIDE DEF T
  <2>4. QED BY <1>2, <2>2, <2>3
<1>5. \A n \in 1..Len(sealed) : n \in later <=> n \in places
  <2>1. \A n \in 1..Len(sealed) : n \in 1..(Len(sealed) + 1)
    BY <1>2
  <2>2. QED BY <1>1, <1>2, <2>1
<1>6. Len(sealed) + 1 \in later <=> block.command.serial # 0
  <2>1. Len(sealed) + 1 \in 1..(Len(sealed) + 1)
    BY <1>2
  <2>2. QED BY <1>1, <2>1
<1> HIDE DEF T
<1>7. Ran = Keep(sealed, places) /\ Ran' = Keep(sealed', later)
  BY DEF Ran
<1> HIDE DEF places, later
<1>8. Keep(Append(sealed, block), later)
        = IF Len(sealed) + 1 \in later THEN Append(Keep(sealed, later), block) ELSE Keep(sealed, later)
  BY <1>3, <1>4, KeepAppend
<1>9. Keep(sealed, later) = Keep(sealed, places)
  BY <1>5, KeepAgrees
<1>10. Ran \in Seq(S)
  BY <1>7, KeepType
<1>11. QED BY <1>1, <1>6, <1>7, <1>8, <1>9, <1>10 DEF T

\* An event handed out: the others are still ahead.
LEMMA HandedIsCarried ==
  ASSUME Known, NEW ev, EventStep(ev), ev # "preexec"
  PROVE  /\ Carried /\ ("preexec" \in Kinds' <=> "preexec" \in Kinds)
         /\ UNCHANGED job
<1>1. Typed
  BY DEF Known, StreamInv
<1>2. /\ Kinds = {ev} \cup Kinds'
      /\ \A k \in DOMAIN Ahead' : k \in Nat /\ k + 1 \in DOMAIN Ahead /\ Ahead'[k] = Ahead[k + 1]
  BY <1>1, HandAhead
<1>3. UNCHANGED job
  BY DEF EventStep, FrameStep, shellVars
<1>4. Carried
  BY <1>2 DEF Carried
<1>5. QED BY <1>2, <1>3, <1>4

\* The tail sealed while it ran, or a block without a command.
LEMMA SealTallies ==
  ASSUME Tally, StackInv, NEW command, Blk!SealTail(command), UNCHANGED job, Carried,
         "preexec" \notin Kinds', integration' = "Confirmed",
         \/ tail.kind = "Running" /\ command = tail.command
         \/ tail.kind = "Prompt" /\ command.serial = 0 /\ "preexec" \notin Kinds
  PROVE  Tally'
<1>1. PICK S : sealed \in Seq(S)
  BY DEF StackInv, StackShape
<1> DEFINE block == [id |-> tail.id, command |-> command, out |-> Blk!Snapshot]
<1>2. sealed' = Append(sealed, block) /\ block.command = command
  BY DEF Blk!SealTail
<1>3. tail'.kind = "Prompt"
  BY DEF Blk!SealTail, Blk!Prompt
<1> HIDE DEF block
<1>4. /\ Ran' = IF command.serial # 0 THEN Append(Ran, block) ELSE Ran
      /\ Ran \in Seq(S)
  BY <1>1, <1>2, RanGrows
<1>5. Numbered'
  <2>1. \A i \in DOMAIN Ahead' : OfJob(Ahead'[i], job')
    BY DEF Carried, Tally, Numbered, OfJob
  <2>2. QED BY <1>3, <2>1 DEF Tally, Numbered
<1>6. Counted'
  <2> SUFFICES ASSUME ~Can("clear")
               PROVE  Len(Ran') = job.serial /\ \A i \in DOMAIN Ran' : Ran'[i].command.serial = i
    BY <1>3 DEF Counted, Unsealed, Tally, Numbered
  <2>1. /\ Len(Ran) + Unsealed = job.serial
        /\ \A i \in DOMAIN Ran : Ran[i].command.serial = i
    BY DEF Tally, Counted
  <2>2. DOMAIN Ran = 1..Len(Ran) /\ Len(Ran) \in Nat
    BY <1>4, Places
  <2>3. CASE tail.kind = "Running" /\ command = tail.command
    <3>1. command.serial = job.serial /\ job.serial # 0 /\ Unsealed = 1
      BY <2>3 DEF Tally, Numbered, Unsealed
    <3>2. Ran' = Append(Ran, block)
      BY <1>4, <3>1
    <3>3. /\ Len(Ran') = Len(Ran) + 1 /\ DOMAIN Ran' = 1..Len(Ran) + 1
          /\ \A i \in DOMAIN Ran : Ran'[i] = Ran[i]
          /\ Ran'[Len(Ran) + 1] = block
      <4> DEFINE r == Ran
      <4>1. r \in Seq(S) /\ Ran' = Append(r, block)
        BY <1>4, <3>2
      <4> HIDE DEF r
      <4>2. /\ Len(Append(r, block)) = Len(r) + 1 /\ DOMAIN Append(r, block) = 1..Len(r) + 1
            /\ \A i \in DOMAIN r : Append(r, block)[i] = r[i]
            /\ Append(r, block)[Len(r) + 1] = block
        BY <4>1, AppendAny
      <4>3. QED BY <4>1, <4>2 DEF r
    <3>4. Len(Ran) + 1 = job.serial
      BY <2>1, <3>1
    <3>5. ASSUME NEW i \in DOMAIN Ran' PROVE Ran'[i].command.serial = i
      <4>1. CASE i \in DOMAIN Ran
        BY <2>1, <3>3, <4>1
      <4>2. CASE i = Len(Ran) + 1
        BY <1>2, <3>1, <3>3, <3>4, <4>2
      <4>3. i \in DOMAIN Ran \/ i = Len(Ran) + 1
        BY <2>2, <3>3
      <4>4. QED BY <4>1, <4>2, <4>3
    <3>6. QED BY <3>3, <3>4, <3>5
  <2>4. CASE tail.kind = "Prompt" /\ command.serial = 0 /\ "preexec" \notin Kinds
    <3>1. Ran' = Ran /\ Unsealed = 0
      BY <1>4, <2>4 DEF Unsealed
    <3>2. QED BY <2>1, <2>2, <3>1
  <2>5. QED BY <2>3, <2>4
<1>7. QED BY <1>5, <1>6 DEF Tally

\* A step that moves no item.
LEMMA UnmovedIsCarried ==
  UNCHANGED <<events, stream>> => Carried /\ UNCHANGED Kinds
<1>1. UNCHANGED <<events, stream>> => UNCHANGED <<Ahead, Kinds>>
  BY StillAhead
<1>2. QED BY <1>1 DEF Carried

\* A frame keeps the tally, but for the events that start and end a command.
LEMMA FrameTallies ==
  ASSUME Known, Dialogue, Tally, StackInv, FrameNext
  PROVE  Tally'
<1>1. CASE DrainSome
  <2>1. PICK n \in 0..Len(stream) : Drain(n)
    BY <1>1 DEF DrainSome
  <2>2. /\ Feed(n) /\ phase = "input" /\ UNCHANGED <<tail, sealed, job>>
        /\ integration' # "Confirmed" => integration # "Confirmed"
    <3>1. Feed(n) /\ phase = "input" /\ Ctl!Tick /\ UNCHANGED job
      BY <2>1 DEF Drain, FrameStep, shellVars
    <3>2. UNCHANGED <<tail, sealed>>
      BY <3>1 DEF Feed
    <3>3. integration' # "Confirmed" => integration # "Confirmed"
      BY <3>1 DEF Ctl!Tick, Known, Ctl!HandshakeGatesEditor
    <3>4. QED BY <3>1, <3>2, <3>3
  <2>3. Typed /\ events = <<>>
    BY <2>2 DEF Known, StreamInv
  <2>4. PICK from : Thinned(from, Ahead, Ahead')
    BY <2>2, <2>3, DrainAhead
  <2>5. Carried
    BY <2>4 DEF Thinned, Carried
  <2>6. Kinds' \subseteq Kinds /\ Kinds \cap Events \subseteq Kinds'
    BY <2>4, ThinnedInOrder DEF Kinds
  <2>7. "preexec" \in Kinds' <=> "preexec" \in Kinds
    BY <2>6 DEF Events
  <2>8. QED BY <2>2, <2>5, <2>7, KeepsTally
<1>2. CASE SyncAlt \/ RecoverAlt \/ OnPtyExit \/ EndDrain \/ ClosePane
  <2>1. UNCHANGED <<events, stream, tail, sealed, job, integration>>
    BY <1>2 DEF SyncAlt, RecoverAlt, OnPtyExit, EndDrain, ClosePane, blkVars, paneVars, ctlVars,
                FrameStep, shellVars, Ctl!ObserveAltScreen, Ctl!ObservePtyExit
  <2>2. QED BY <2>1, UnmovedIsCarried, KeepsTally
<1>3. CASE OnError \/ OnPrecmd \/ OnCompletion
  <2>1. PICK ev \in {"error", "precmd", "completion"} : EventStep(ev)
    BY <1>3 DEF OnError, OnPrecmd, OnCompletion
  <2>2. Carried /\ ("preexec" \in Kinds' <=> "preexec" \in Kinds) /\ UNCHANGED job
    BY <2>1, HandedIsCarried
  <2>3. UNCHANGED <<tail, sealed>>
    BY <1>3 DEF OnError, OnPrecmd, OnCompletion, blkVars
  <2>4. integration' # "Confirmed" => integration # "Confirmed"
    <3>1. ASSUME OnError PROVE integration # "Confirmed"
      <4>1. "error" \in Kinds
        BY <3>1, Handed DEF OnError
      <4>2. QED BY <4>1 DEF Dialogue, Greeted
    <3>2. OnPrecmd \/ OnCompletion => UNCHANGED integration
      BY DEF OnPrecmd, OnCompletion, ctlVars, Ctl!ObservePrecmd
    <3>3. QED BY <1>3, <3>1, <3>2
  <2>5. QED BY <2>2, <2>3, <2>4, KeepsTally
<1>4. CASE OnContinuation
  <2>1. EventStep("cont") /\ (UNCHANGED blkVars \/ \E text : Blk!SetEditor(text))
        /\ UNCHANGED integration
    BY <1>4 DEF OnContinuation, Ctl!ObserveContinuation
  <2>2. Carried /\ ("preexec" \in Kinds' <=> "preexec" \in Kinds) /\ UNCHANGED job
    BY <2>1, HandedIsCarried
  <2>3. job' = [serial |-> job'.serial, text |-> job'.text,
                said |-> job'.said, screen |-> job'.screen]
    BY <2>2 DEF Known, StreamInv, Shapes
  <2>4. /\ UNCHANGED sealed /\ tail'.kind = tail.kind
        /\ tail.kind = "Running" => tail'.command = tail.command
    BY <2>1, <2>3, TailOperationKinds DEF Known, StreamInv, blkVars
  <2>5. QED BY <2>1, <2>2, <2>4, KeepsTally
<1>5. CASE OnReady
  <2>1. EventStep("ready") /\ Blk!SealPreCommandOutput /\ integration' = "Confirmed"
    BY <1>5 DEF OnReady, Ctl!ObserveIntegrationReady
  <2>2. Carried /\ ("preexec" \in Kinds' <=> "preexec" \in Kinds) /\ UNCHANGED job
    BY <2>1, HandedIsCarried
  <2>3. integration # "Confirmed" /\ "preexec" \notin Kinds
    <3>1. "ready" \in Kinds
      BY <2>1, Handed
    <3>2. integration # "Confirmed"
      BY <3>1 DEF Dialogue, Greeted
    <3>3. QED BY <3>2 DEF Dialogue, Greeting
  <2>4. CASE UNCHANGED Blk!blockVars
    <3>1. UNCHANGED <<sealed, tail>>
      BY <2>4 DEF Blk!blockVars
    <3>2. QED BY <2>1, <2>2, <3>1, KeepsTally
  <2>5. CASE tail.kind = "Prompt" /\ Blk!SealTail([serial |-> 0, text |-> <<>>])
    <3> DEFINE none == [serial |-> 0, text |-> <<>>]
    <3>1. none.serial = 0 /\ Blk!SealTail(none)
      BY <2>5
    <3> HIDE DEF none
    <3>2. QED BY <2>1, <2>2, <2>3, <2>5, <3>1, SealTallies
  <2>6. QED BY <2>1, <2>4, <2>5 DEF Blk!SealPreCommandOutput
<1>6. CASE OnCommandFinished
  <2>1. EventStep("finished") /\ Blk!SealRunning /\ UNCHANGED integration
    BY <1>6 DEF OnCommandFinished, Ctl!ObserveCommandFinished
  <2>2. Carried /\ ("preexec" \in Kinds' <=> "preexec" \in Kinds) /\ UNCHANGED job
    BY <2>1, HandedIsCarried
  <2>3. "preexec" \notin Kinds'
    <3>1. \A b \in Kinds' : Before("finished", b)
      BY <2>1, Handed
    <3>2. QED BY <3>1 DEF Before
  <2>4. CASE tail.kind = "Prompt" /\ UNCHANGED Blk!blockVars
    <3>1. UNCHANGED <<sealed, tail>>
      BY <2>4 DEF Blk!blockVars
    <3>2. QED BY <2>1, <2>2, <3>1, KeepsTally
  <2>5. CASE tail.kind = "Running" /\ Blk!SealTail(tail.command)
    <3>1. integration = "Confirmed"
      BY <2>5 DEF Dialogue, Greeting
    <3>2. QED BY <2>1, <2>2, <2>3, <2>5, <3>1, SealTallies
  <2>6. QED BY <2>1, <2>4, <2>5 DEF Blk!SealRunning
<1>7. CASE OnPreexec
  <2>1. EventStep("preexec") /\ Blk!StartRunning(Head(events)[2]) /\ UNCHANGED <<integration, job>>
    BY <1>7 DEF OnPreexec, Ctl!ObservePreexec, EventStep, FrameStep, shellVars
  <2>2. /\ Ahead[1] = Head(events) /\ Ahead[1][1] = "preexec" /\ 1 \in DOMAIN Ahead
        /\ \A k \in DOMAIN Ahead' : k \in Nat /\ k + 1 \in DOMAIN Ahead /\ Ahead'[k] = Ahead[k + 1]
        /\ Kinds = {"preexec"} \cup Kinds'
    BY <2>1, HandAhead DEF Known, StreamInv
  <2>3. "preexec" \notin Kinds'
    <3>1. \A b \in Kinds' : Before("preexec", b)
      BY <2>1, Handed
    <3>2. QED BY <3>1 DEF Before
  <2>4. tail.kind = "Prompt"
    BY <2>2 DEF Tally, Numbered, Known, StreamInv, Shapes
  <2>5. Head(events)[2].serial = job.serial
    <3> DEFINE ran == [serial |-> job.serial, text |-> job.text]
    <3>1. ran.serial = job.serial
      OBVIOUS
    <3>2. Ahead[1][2] = ran
      BY <2>2 DEF Tally, Numbered, OfJob
    <3> HIDE DEF ran
    <3>3. QED BY <2>2, <3>1, <3>2
  <2>6. tail'.kind = "Running" /\ tail'.command = Head(events)[2] /\ UNCHANGED sealed
    <3>1. job' = [serial |-> job'.serial, text |-> job'.text,
                  said |-> job'.said, screen |-> job'.screen]
      BY <2>1 DEF Known, StreamInv, Shapes
    <3>2. QED BY <2>1, <2>4, <3>1, TailOperationKinds DEF Known, StreamInv
  <2>7. Numbered'
    <3>1. \A i \in DOMAIN Ahead' : OfJob(Ahead'[i], job')
      BY <2>1, <2>2 DEF Tally, Numbered
    <3>2. job.serial \in Nat /\ job.serial # 0 /\ (integration # "Confirmed" => job.serial = 0)
      BY <2>2 DEF Tally, Numbered
    <3>3. tail'.command.serial = job.serial
      BY <2>5, <2>6
    <3>4. QED BY <2>1, <2>3, <2>6, <3>1, <3>2, <3>3 DEF Numbered
  <2>8. Counted'
    BY <2>1, <2>2, <2>4, <2>6 DEF Tally, Counted, Ran, Unsealed
  <2>9. QED BY <2>7, <2>8 DEF Tally
<1>8. QED BY <1>1, <1>2, <1>3, <1>4, <1>5, <1>6, <1>7 DEF FrameNext

\* The user starts and seals nothing; Cmd+K is another matter (`Counted`).
LEMMA UserTallies ==
  ASSUME Known, Tally, UserNext
  PROVE  Tally'
<1>1. /\ UNCHANGED <<events, stream, job, integration>>
      /\ UNCHANGED sealed \/ Can("clear")
      /\ UNCHANGED tail \/ \E text : Blk!SetEditor(text)
  <2>1. \A b : UserStep(b) => UNCHANGED <<events, stream, job>>
    BY DEF UserStep, shellVars
  <2>2. CASE \E line \in {"more", "done"} : Type(line) \/ TypeRaw(line)
    BY <2>1, <2>2 DEF Type, TypeRaw, ctlVars, blkVars, Blk!SetEditor
  <2>3. CASE ClearEditor
    BY <2>1, <2>3 DEF ClearEditor, ctlVars, Blk!SetEditor
  <2>4. CASE Submit
    <3>1. UNCHANGED integration
      BY <2>4 DEF Submit, Ctl!SubmitCommand, ctlVars
    <3>2. UNCHANGED sealed /\ \E text : Blk!SetEditor(text)
      BY <2>4 DEF Submit, Blk!SetEditor
    <3>3. QED BY <2>1, <2>4, <3>1, <3>2 DEF Submit
  <2>5. CASE SubmitHeals
    BY <2>1, <2>5 DEF SubmitHeals, ctlVars, blkVars
  <2>6. CASE AbortContinuation
    BY <2>1, <2>6 DEF AbortContinuation, ctlVars, Blk!SetEditor
  <2>7. CASE RequestCompletion
    BY <2>1, <2>7 DEF RequestCompletion, ctlVars, blkVars
  <2>8. CASE InterruptProgram
    BY <2>1, <2>8 DEF InterruptProgram, ctlVars, blkVars
  <2>9. CASE ClearScrollback
    BY <2>1, <2>9 DEF ClearScrollback, ctlVars, Blk!ClearScrollback
  <2>10. QED BY <2>2, <2>3, <2>4, <2>5, <2>6, <2>7, <2>8, <2>9 DEF UserNext
<1>2. Carried /\ UNCHANGED Kinds
  BY <1>1, UnmovedIsCarried
<1>3. tail'.kind = tail.kind /\ (tail.kind = "Running" => tail'.command = tail.command)
  <2>1. job' = [serial |-> job'.serial, text |-> job'.text,
                said |-> job'.said, screen |-> job'.screen]
    BY <1>1 DEF Known, StreamInv, Shapes
  <2>2. QED BY <1>1, <2>1, TailOperationKinds DEF Known, StreamInv
<1>4. CASE UNCHANGED sealed
  BY <1>1, <1>2, <1>3, <1>4, KeepsTally
<1>5. CASE Can("clear")
  <2>1. \A i \in DOMAIN Ahead' : OfJob(Ahead'[i], job')
    BY <1>1, <1>2 DEF Carried, Tally, Numbered
  <2>2. Numbered'
    BY <1>1, <1>2, <1>3, <2>1 DEF Tally, Numbered
  <2>3. Counted'
    BY <1>5 DEF Counted
  <2>4. QED BY <2>2, <2>3 DEF Tally
<1>6. QED BY <1>1, <1>4, <1>5

\* What the shell writes in this step starts no command and is of its job.
Adds ==
  \E T : \E items \in Seq(T) :
    /\ Write(items) /\ "preexec" \notin KindsOf(items)
    /\ \A i \in DOMAIN items : OfJob(items[i], job')

\* One item, none, or a prompt cycle.
LEMMA AddsIt ==
  /\ \A x : Write(<<x>>) /\ x[1] # "preexec" /\ (x[1] = "out" => x[2] = job'.serial) => Adds
  /\ Write(<<>>) => Adds
  /\ Write(PromptCycle) => Adds
<1>1. ASSUME NEW x, Write(<<x>>), x[1] # "preexec", x[1] = "out" => x[2] = job'.serial PROVE Adds
  <2> DEFINE items == <<x>>
  <2>1. items \in Seq({x}) /\ KindsOf(items) = {x[1]}
    BY Items
  <2>2. \A i \in DOMAIN items : items[i] = x
    OBVIOUS
  <2>3. Write(items)
    BY <1>1
  <2> HIDE DEF items
  <2>4. \A i \in DOMAIN items : OfJob(items[i], job')
    BY <1>1, <2>2 DEF OfJob
  <2>5. QED BY <1>1, <2>1, <2>3, <2>4 DEF Adds
<1>2. ASSUME Write(<<>>) PROVE Adds
  <2>1. <<>> \in Seq({}) /\ KindsOf(<<>>) = {}
    BY Items
  <2>2. \A i \in DOMAIN <<>> : OfJob(<<>>[i], job')
    OBVIOUS
  <2>3. QED BY <1>2, <2>1, <2>2 DEF Adds
<1>3. ASSUME Write(PromptCycle) PROVE Adds
  <2>1. /\ PromptCycle \in Seq({<<"finished">>, <<"precmd">>})
        /\ KindsOf(PromptCycle) = {"finished", "precmd"}
    BY Items
  <2>2. \A i \in DOMAIN PromptCycle : PromptCycle[i][1] \in {"finished", "precmd"}
    BY <2>1 DEF KindsOf
  <2>3. \A i \in DOMAIN PromptCycle : OfJob(PromptCycle[i], job')
    BY <2>2 DEF OfJob
  <2>4. QED BY <1>3, <2>1, <2>3 DEF Adds
<1>4. QED BY <1>1, <1>2, <1>3

\* A step of the shell runs a command, or adds to what is ahead of the job.
LEMMA ShellAdds ==
  ASSUME Known, Dialogue, Tally, ShellNext
  PROVE  (\E text : Execute(text)) \/ (Adds /\ job'.serial = job.serial /\ job'.text = job.text)
<1>1. CASE Boot
  <2>1. PICK noise \in {<<>>, << <<"out", 0>> >>},
             greeting \in {<< <<"precmd">> >>, PromptCycle} :
          Write(noise \o << <<"ready">> >> \o greeting)
    BY <1>1 DEF Boot
  <2> DEFINE items == noise \o << <<"ready">> >> \o greeting
  <2>2. /\ items \in Seq(ScriptItems)
        /\ KindsOf(items) \subseteq {"out", "ready", "finished", "precmd"}
    BY <2>1, BootItems
  <2>3. Write(items)
    BY <2>1
  <2> HIDE DEF items
  <2>4. job.serial = 0 /\ UNCHANGED job
    BY <1>1 DEF Boot, Dialogue, Greeted, Tally, Numbered
  <2>5. \A x \in ScriptItems : x[1] # "preexec" /\ (x[1] = "out" => x[2] = 0)
    BY DEF ScriptItems
  <2>6. \A i \in DOMAIN items : items[i] \in ScriptItems
    BY <2>2
  <2>7. \A i \in DOMAIN items : OfJob(items[i], job')
    BY <2>4, <2>5, <2>6 DEF OfJob
  <2>8. "preexec" \notin KindsOf(items)
    BY <2>2
  <2>9. QED BY <2>2, <2>3, <2>4, <2>7, <2>8 DEF Adds
<1>2. CASE BootFails
  <2> DEFINE x == <<"error">>
  <2>1. Write(<<x>>) /\ x[1] = "error" /\ UNCHANGED job
    BY <1>2 DEF BootFails
  <2> HIDE DEF x
  <2>2. QED BY <2>1, AddsIt
<1>3. CASE ReadLine
  <2> DEFINE x == <<"cont">>
  <2>1. \/ Write(PromptCycle) /\ UNCHANGED job
        \/ Write(<<x>>) /\ UNCHANGED job
        \/ \E text : Execute(text)
    BY <1>3 DEF ReadLine
  <2>2. x[1] = "cont"
    OBVIOUS
  <2> HIDE DEF x
  <2>3. QED BY <2>1, <2>2, AddsIt
<1>4. CASE ReadText
  <2> DEFINE x == <<"cont">>
  <2>1. (Write(<<x>>) /\ UNCHANGED job) \/ \E text : Execute(text)
    BY <1>4 DEF ReadText
  <2>2. x[1] = "cont"
    OBVIOUS
  <2> HIDE DEF x
  <2>3. QED BY <2>1, <2>2, AddsIt
<1>5. CASE ReadCompletion
  BY <1>5, NoCompletionIsRead
<1>6. CASE ReadInterrupt
  <2> DEFINE x == <<"eof">>
  <2>1. /\ UNCHANGED job
        /\ Write(<<>>) \/ Write(PromptCycle) \/ Write(<<x>>)
    BY <1>6 DEF ReadInterrupt
  <2>2. x[1] = "eof"
    OBVIOUS
  <2> HIDE DEF x
  <2>3. QED BY <2>1, <2>2, AddsIt
<1>7. CASE ProgramSays
  <2> DEFINE x == <<"out", job.serial>>
  <2>1. Write(<<x>>) /\ x[1] = "out" /\ x[2] = job.serial
    BY <1>7 DEF ProgramSays
  <2>2. job'.serial = job.serial /\ job'.text = job.text
    BY <1>7 DEF ProgramSays, Known, StreamInv, Shapes
  <2> HIDE DEF x
  <2>3. QED BY <2>1, <2>2, AddsIt
<1>8. CASE ProgramScreen
  <2> DEFINE x == <<"alt", job'.screen = "alt">>
  <2>1. Write(<<x>>) /\ x[1] = "alt"
    BY <1>8 DEF ProgramScreen
  <2>2. job'.serial = job.serial /\ job'.text = job.text
    BY <1>8 DEF ProgramScreen, Known, StreamInv, Shapes
  <2> HIDE DEF x
  <2>3. QED BY <2>1, <2>2, AddsIt
<1>9. CASE Finish
  <2>1. Write(PromptCycle) /\ UNCHANGED job
    BY <1>9 DEF Finish, Dialogue
  <2>2. QED BY <2>1, AddsIt
<1>10. CASE ShellExits
  <2> DEFINE x == <<"eof">>
  <2>1. Write(<<x>>) /\ x[1] = "eof" /\ UNCHANGED job
    BY <1>10 DEF ShellExits
  <2> HIDE DEF x
  <2>2. QED BY <2>1, AddsIt
<1>11. QED
  BY <1>1, <1>2, <1>3, <1>4, <1>5, <1>6, <1>7, <1>8, <1>9, <1>10 DEF ShellNext

\* A command is run when the last one has been handled.
LEMMA RunsAlone ==
  ASSUME Known, Dialogue, Dialogue', ShellStep, NEW text, Execute(text)
  PROVE  /\ Kinds \subseteq {"cont"} /\ "preexec" \in Kinds'
         /\ tail.kind = "Prompt" /\ integration = "Confirmed"
         /\ \A k \in DOMAIN Ahead' :
              (\E i \in DOMAIN Ahead : Ahead'[k] = Ahead[i])
              \/ Ahead'[k] = <<"preexec", [serial |-> job.serial + 1, text |-> text]>>
<1> DEFINE x == <<"preexec", [serial |-> job.serial + 1, text |-> text]>>
           items == <<x>>
<1>1. Write(items) /\ sh' = "running" /\ x[1] = "preexec"
  BY DEF Execute
<1> HIDE DEF x
<1>2. items \in Seq({x}) /\ KindsOf(items) = {"preexec"} /\ DOMAIN items = {1} /\ items[1] = x
  BY <1>1, Items
<1> HIDE DEF items
<1>3. Typed /\ UNCHANGED <<events, tail, integration>>
  BY DEF Known, StreamInv, ShellStep, paneVars, blkVars, ctlVars
<1>4. /\ Kinds' = Kinds \cup {"preexec"}
      /\ \A i \in DOMAIN Ahead : i \in DOMAIN Ahead' /\ Ahead'[i] = Ahead[i]
      /\ \A i \in DOMAIN Ahead' :
           i \in DOMAIN Ahead \/ \E j \in DOMAIN items : i = Len(Ahead) + j /\ Ahead'[i] = items[j]
      /\ \A j \in DOMAIN items :
           /\ Len(Ahead) + j \in DOMAIN Ahead' /\ Ahead'[Len(Ahead) + j] = items[j]
           /\ \A i \in DOMAIN Ahead : i < Len(Ahead) + j
  BY <1>1, <1>2, <1>3, WriteAhead
<1>5. Kinds \subseteq {"cont"}
  <2> SUFFICES ASSUME NEW i \in DOMAIN Ahead PROVE Ahead[i][1] = "cont"
    BY DEF Kinds, KindsOf
  <2>1. /\ i \in DOMAIN Ahead' /\ Len(Ahead) + 1 \in DOMAIN Ahead' /\ i < Len(Ahead) + 1
        /\ Ahead'[i] = Ahead[i] /\ Ahead'[Len(Ahead) + 1] = x
    BY <1>2, <1>4
  <2>2. Before(Ahead'[i][1], Ahead'[Len(Ahead) + 1][1])
    BY <2>1 DEF Dialogue, Ordered
  <2>3. QED BY <1>1, <2>1, <2>2 DEF Before
<1>6. tail.kind = "Prompt" /\ integration = "Confirmed"
  BY <1>1, <1>3, <1>4 DEF Dialogue, AtRunning, Greeting
<1>7. ASSUME NEW k \in DOMAIN Ahead'
      PROVE  (\E i \in DOMAIN Ahead : Ahead'[k] = Ahead[i]) \/ Ahead'[k] = x
  BY <1>2, <1>4
<1>8. QED BY <1>4, <1>5, <1>6, <1>7 DEF x

\* The shell's steps keep the tally of commands and blocks.
LEMMA ShellTallies ==
  ASSUME Known, Dialogue, Dialogue', Tally, ShellNext
  PROVE  Tally'
<1>1. UNCHANGED <<sealed, tail, integration, events>> /\ ShellStep
  BY ShellSpeaks DEF ShellStep, paneVars, blkVars, ctlVars
<1>2. CASE Adds /\ job'.serial = job.serial /\ job'.text = job.text
  <2>1. PICK T : \E items \in Seq(T) :
          /\ Write(items) /\ "preexec" \notin KindsOf(items)
          /\ \A i \in DOMAIN items : OfJob(items[i], job')
    BY <1>2 DEF Adds
  <2>2. PICK items \in Seq(T) :
          /\ Write(items) /\ "preexec" \notin KindsOf(items)
          /\ \A i \in DOMAIN items : OfJob(items[i], job')
    BY <2>1
  <2>3. Typed
    BY DEF Known, StreamInv
  <2>4. /\ Kinds' = Kinds \cup KindsOf(items)
        /\ \A i \in DOMAIN Ahead : i \in DOMAIN Ahead' /\ Ahead'[i] = Ahead[i]
        /\ \A i \in DOMAIN Ahead' :
             i \in DOMAIN Ahead \/ \E j \in DOMAIN items : i = Len(Ahead) + j /\ Ahead'[i] = items[j]
    BY <1>1, <2>2, <2>3, WriteAhead
  <2>5. Carried
    BY <2>2, <2>4 DEF Carried
  <2>6. QED BY <1>1, <1>2, <2>2, <2>4, <2>5, KeepsTally
<1>3. ASSUME NEW text, Execute(text) PROVE Tally'
  <2>1. /\ Kinds \subseteq {"cont"} /\ "preexec" \in Kinds'
        /\ tail.kind = "Prompt" /\ integration = "Confirmed"
        /\ \A k \in DOMAIN Ahead' :
             (\E i \in DOMAIN Ahead : Ahead'[k] = Ahead[i])
             \/ Ahead'[k] = <<"preexec", [serial |-> job.serial + 1, text |-> text]>>
    BY <1>1, <1>3, RunsAlone
  <2>2. job'.serial = job.serial + 1 /\ job'.text = text
    BY <1>3 DEF Execute
  <2>3. job.serial \in Nat
    BY DEF Tally, Numbered
  <2>4. ASSUME NEW k \in DOMAIN Ahead' PROVE OfJob(Ahead'[k], job')
    <3> DEFINE x == <<"preexec", [serial |-> job.serial + 1, text |-> text]>>
    <3>1. x[1] = "preexec" /\ x[2] = [serial |-> job'.serial, text |-> job'.text]
      BY <2>2
    <3>2. (\E i \in DOMAIN Ahead : Ahead'[k] = Ahead[i]) \/ Ahead'[k] = x
      BY <2>1
    <3> HIDE DEF x
    <3>3. CASE Ahead'[k] = x
      BY <3>1, <3>3 DEF OfJob
    <3>4. CASE \E i \in DOMAIN Ahead : Ahead'[k] = Ahead[i]
      <4>1. PICK i \in DOMAIN Ahead : Ahead'[k] = Ahead[i]
        BY <3>4
      <4>2. Ahead[i][1] = "cont"
        BY <2>1 DEF Kinds, KindsOf
      <4>3. QED BY <4>1, <4>2 DEF OfJob
    <3>5. QED BY <3>2, <3>3, <3>4
  <2>5. Numbered'
    <3>1. job'.serial \in Nat /\ job'.serial # 0
      BY <2>2, <2>3
    <3>2. QED BY <1>1, <2>1, <2>4, <3>1 DEF Numbered
  <2>6. Counted'
    <3> SUFFICES ASSUME ~Can("clear")
                 PROVE  /\ Len(Ran') + Unsealed' = job'.serial
                        /\ \A i \in DOMAIN Ran' : Ran'[i].command.serial = i
      BY DEF Counted
    <3>1. Ran' = Ran /\ Unsealed = 0 /\ Unsealed' = 1
      BY <1>1, <2>1 DEF Ran, Unsealed
    <3>2. QED BY <2>2, <2>3, <3>1 DEF Tally, Counted
  <2>7. QED BY <2>5, <2>6 DEF Tally
<1>4. QED BY <1>2, <1>3, ShellAdds

\* A pane begins with the blocks of the last session, which have no command.
LEMMA TallyInit == ASSUME Init PROVE Tally
<1>1. /\ events = <<>> /\ stream = <<>> /\ integration # "Confirmed"
      /\ job = [serial |-> 0, text |-> <<>>, said |-> FALSE, screen |-> "main"]
  BY DEF Init, Ctl!Spawned, NoJob
<1>2. Ahead = <<>> /\ Kinds = {}
  <2>1. Ahead = <<>>
    BY <1>1 DEF Ahead
  <2>2. QED BY <2>1, Items DEF Kinds
<1>3. PICK n \in 0..Restored : Blk!Init(n)
  BY DEF Init
<1>4. tail.kind = "Prompt"
  BY <1>3 DEF Blk!Init, Blk!Prompt
<1>5. job.serial = 0
  BY <1>1
<1>6. Numbered
  BY <1>1, <1>2, <1>4, <1>5 DEF Numbered
<1>7. Len(Ran) = 0 /\ DOMAIN Ran = 1..0
  <2> DEFINE places == {i \in DOMAIN sealed : sealed[i].command.serial # 0}
  <2>1. \A i \in DOMAIN sealed : sealed[i].command.serial = 0
    BY <1>3 DEF Blk!Init
  <2>2. places = {}
    BY <2>1
  <2>3. PICK S : sealed \in Seq(S)
    BY StackInit DEF StackInv, StackShape
  <2>4. Ran = Keep(sealed, places)
    BY DEF Ran
  <2> HIDE DEF places
  <2>5. PICK from : KeptFrom(from, sealed, places)
    BY <2>3, KeepPlaces
  <2>6. Keep(sealed, places) \in Seq(S)
    BY <2>3, KeepType
  <2>7. \A k \in 1..Len(Keep(sealed, places)) : FALSE
    BY <2>2, <2>5 DEF KeptFrom
  <2>8. Len(Ran) \in Nat /\ DOMAIN Ran = 1..Len(Ran)
    BY <2>4, <2>6, Places
  <2>9. QED BY <2>4, <2>7, <2>8
<1>8. Counted
  BY <1>2, <1>4, <1>5, <1>7 DEF Counted, Unsealed
<1>9. QED BY <1>6, <1>8 DEF Tally

\* A step that changes nothing.
LEMMA TallyStutters == ASSUME Tally, UNCHANGED vars PROVE Tally'
<1>1. UNCHANGED <<events, stream, sealed, tail, job, integration>>
  BY DEF vars, ctlVars, blkVars, paneVars, shellVars
<1>2. QED BY <1>1, UnmovedIsCarried, KeepsTally

\* The commands and their blocks agree in every pane whose user waits.
LEMMA TallyHolds == ASSUME PatientUser PROVE Spec => [](Known /\ Dialogue /\ Tally)
<1>1. Init => Tally
  BY TallyInit
<1>2. Known /\ Dialogue /\ Dialogue' /\ StackInv /\ Tally /\ [Next]_vars => Tally'
  BY ShellTallies, FrameTallies, UserTallies, TallyStutters DEF Next
<1>3. Spec => [](Known /\ Dialogue)
  BY DialogueHolds
<1>4. Spec => []StackInv
  BY StackInvHolds
<1>5. QED BY <1>1, <1>2, <1>3, <1>4, PTL DEF Spec

\* Every command the shell ran has one block, in the order they ran, once the
\* pane has caught up: no order of the events loses, merges or duplicates one.
THEOREM EveryCommandIsABlock == ASSUME PatientUser PROVE Spec => []EveryCommandHasItsBlock
<1>1. Known /\ Dialogue /\ Tally /\ StackInv => EveryCommandHasItsBlock
  <2> SUFFICES ASSUME Known, Dialogue, Tally, StackInv, Quiet, sh = "prompt", ~Can("clear")
               PROVE  /\ Len(Ran) = job.serial
                      /\ \A i \in DOMAIN Ran : Ran[i].command.serial = i
    BY DEF EveryCommandHasItsBlock, Ran
  <2>1. phase = "input" /\ stream = <<>>
    BY DEF Quiet, Settled
  <2>2. Kinds = {}
    BY <2>1 DEF Known, StreamInv, Kinds, KindsOf, Ahead
  <2>3. Unsealed = 0
    BY <2>2 DEF Dialogue, AtPrompt, Unsealed
  <2>4. /\ Len(Ran) + Unsealed = job.serial
        /\ \A i \in DOMAIN Ran : Ran[i].command.serial = i
    BY DEF Tally, Counted
  <2>5. Len(Ran) \in Nat
    <3>1. PICK S : sealed \in Seq(S)
      BY DEF StackInv, StackShape
    <3>2. QED BY <3>1, KeepType, Places DEF Ran
  <2>6. QED BY <2>3, <2>4, <2>5
<1>2. Spec => [](Known /\ Dialogue /\ Tally)
  BY TallyHolds
<1>3. Spec => []StackInv
  BY StackInvHolds
<1>4. QED BY <1>1, <1>2, <1>3, PTL

-----------------------------------------------------------------------------
(* The rows: a block is sealed with its own command's output.              *)

\* A user who waits, and programs that leave the alternate screen they drew.
PoliteProgram == PatientUser /\ ~Can("zombie")

\* The rows on the screen are the job's.
Rows == /\ \E S : grid \in Seq(S)
        /\ \A k \in DOMAIN grid : grid[k] = job.serial

\* Rows on the screen or ahead wait for the block that will seal them.
Owned ==
  grid # <<>> \/ "out" \in Kinds =>
    integration # "Confirmed" \/ tail.kind = "Running" \/ "preexec" \in Kinds

\* The program's screen is what the last edge ahead will say, and the
\* terminal's when no edge is ahead.
Edges == {i \in DOMAIN stream : stream[i][1] = "alt"}

Screens ==
  /\ Edges = {} => (alt <=> job.screen = "alt")
  /\ \A i \in Edges : (\A j \in Edges : j <= i) => stream[i][2] = (job.screen = "alt")
  /\ "finished" \in Kinds \/ "precmd" \in Kinds => job.screen # "alt"
  /\ job.screen = "alt" => sh \in {"running", "gone"}

Own == Rows /\ Owned /\ Screens /\ SealedOutputIsOwn

\* Edges of the bytes a feed leaves are edges of the bytes it found.
LEMMA FedEdges ==
  ASSUME Typed, NEW n \in 0..Len(stream), Feed(n), Screens, UNCHANGED <<job, sh>>,
         Kinds' \subseteq Kinds
  PROVE  Screens'
<1>1. PICK S : stream \in Seq(S)
  BY DEF Typed
<1>2. /\ DOMAIN stream = 1..Len(stream) /\ Len(stream) \in Nat /\ n \in Nat /\ n <= Len(stream)
      /\ DOMAIN stream' = 1..(Len(stream) - n)
      /\ \A i \in 1..(Len(stream) - n) : stream'[i] = stream[n + i]
  BY <1>1 DEF Feed
<1> DEFINE fed == {i \in 1..n : stream[i][1] = "alt"}
<1>3. alt' = IF fed = {} THEN alt ELSE stream[Max(fed)][2]
  BY DEF Feed
<1> HIDE DEF fed
<1>4. \A i \in Edges' : i \in Nat /\ n + i \in Edges /\ stream'[i] = stream[n + i]
  BY <1>2 DEF Edges
<1>5. \A i \in Edges : i \in fed \/ (i - n \in Edges' /\ i \in Int /\ i > n)
  BY <1>2 DEF Edges, fed
<1>6. \A i \in fed : i \in Edges /\ i \in Nat /\ i <= n
  BY <1>2 DEF Edges, fed
<1>7. ASSUME NEW i \in Edges', \A j \in Edges' : j <= i
      PROVE  stream'[i][2] = (job'.screen = "alt")
  <2>1. n + i \in Edges /\ i \in Nat /\ i >= 1
    BY <1>2, <1>4 DEF Edges
  <2>2. ASSUME NEW j \in Edges PROVE j <= n + i
    <3>1. CASE j \in fed
      BY <1>2, <1>6, <2>1, <3>1
    <3>2. CASE j - n \in Edges' /\ j \in Int
      <4>1. j - n <= i
        BY <1>7, <3>2
      <4>2. QED BY <1>2, <2>1, <3>2, <4>1
    <3>3. QED BY <1>5, <3>1, <3>2
  <2>3. stream[n + i][2] = (job.screen = "alt")
    BY <2>1, <2>2 DEF Screens
  <2>4. QED BY <1>4, <2>3
<1>8. ASSUME Edges' = {} PROVE alt' <=> job'.screen = "alt"
  <2>1. CASE fed = {}
    <3>1. Edges = {}
      BY <1>5, <1>8, <2>1
    <3>2. alt' = alt
      BY <1>3, <2>1
    <3>3. QED BY <3>1, <3>2 DEF Screens
  <2>2. CASE fed # {}
    <3>1. PICK m \in fed : \A i \in fed : m >= i
      <4> DEFINE T == {k \in Nat : n - k \in fed}
      <4>1. PICK i \in fed : TRUE
        BY <2>2
      <4>2. n - (n - i) = i /\ n - i \in Nat
        BY <1>2, <1>6
      <4>3. T \in SUBSET Nat /\ T # {}
        BY <4>2
      <4>4. PICK k \in T : \A j \in T : k <= j
        <5> HIDE DEF T
        <5>1. QED BY <4>3, Least
      <4>5. ASSUME NEW j \in fed PROVE n - k >= j
        <5>1. n - (n - j) = j /\ n - j \in Nat
          BY <1>2, <1>6
        <5>2. k <= n - j
          BY <4>4, <5>1
        <5>3. QED BY <1>2, <1>6, <4>4, <5>1, <5>2
      <4>6. QED BY <4>4, <4>5
    <3>2. Max(fed) \in fed /\ \A i \in fed : Max(fed) >= i
      BY <3>1 DEF Max
    <3>3. \A j \in Edges : j <= Max(fed)
      BY <1>5, <1>6, <1>8, <3>2
    <3>4. stream[Max(fed)][2] = (job.screen = "alt")
      BY <1>6, <3>2, <3>3 DEF Screens
    <3>5. alt' = (job.screen = "alt")
      BY <1>3, <2>2, <3>4
    <3>6. QED BY <3>5
  <2>3. QED BY <2>1, <2>2
<1>9. QED BY <1>7, <1>8 DEF Screens

\* The rows a feed draws are the job's.
LEMMA FedRows ==
  ASSUME Typed, events = <<>>, NEW n \in 0..Len(stream), Feed(n), Rows, Numbered, UNCHANGED job
  PROVE  Rows' /\ (grid' # <<>> => grid # <<>> \/ "out" \in Kinds)
<1>1. PICK S : stream \in Seq(S)
  BY DEF Typed
<1>2. PICK R : grid \in Seq(R)
  BY DEF Rows
<1> DEFINE fed == Fed({"out"}, n)
           rows == [i \in 1..Len(fed) |-> fed[i][2]]
<1>3. fed \in Seq(S)
  BY <1>1, FedPlaces
<1>4. PICK f : FedFrom(f, {"out"}, n)
  BY <1>1, FedPlaces
<1>5. grid' = grid \o rows
  BY DEF Feed
<1>6. Len(fed) \in Nat /\ DOMAIN rows = 1..Len(fed) /\ \A k \in 1..Len(fed) : rows[k] = fed[k][2]
  <2> HIDE DEF fed
  <2>1. QED BY <1>3
<1>7. rows \in Seq({fed[k][2] : k \in 1..Len(fed)})
  <2> HIDE DEF fed
  <2>1. Len(fed) \in Nat
    BY <1>6
  <2>2. QED BY <2>1
<1>8. ASSUME NEW k \in 1..Len(fed) PROVE rows[k] = job.serial /\ "out" \in Kinds
  <2>1. f[k] \in 1..n /\ fed[k] = stream[f[k]] /\ stream[f[k]][1] = "out"
    BY <1>4 DEF FedFrom
  <2>2. f[k] \in DOMAIN stream
    BY <1>1, <2>1
  <2>3. Ahead = stream
    BY <1>1 DEF Ahead
  <2>4. OfJob(stream[f[k]], job)
    BY <2>2, <2>3 DEF Numbered
  <2>5. "out" \in Kinds
    BY <2>1, <2>2, <2>3 DEF Kinds, KindsOf
  <2>6. QED BY <1>6, <2>1, <2>4, <2>5 DEF OfJob
<1> DEFINE T == R \cup {fed[k][2] : k \in 1..Len(fed)}
<1> HIDE DEF fed, rows
<1>9. /\ grid' \in Seq(T)
      /\ DOMAIN grid' = 1..(Len(grid) + Len(rows)) /\ Len(grid) \in Nat /\ Len(rows) \in Nat
      /\ \A k \in 1..Len(grid) : grid'[k] = grid[k]
      /\ \A k \in 1..Len(rows) : grid'[Len(grid) + k] = rows[k]
  <2>1. grid \in Seq(T) /\ rows \in Seq(T)
    BY <1>2, <1>7
  <2> HIDE DEF T
  <2>2. QED BY <1>5, <2>1
<1>10. Len(rows) = Len(fed)
  BY <1>6, <1>9, <1>7
<1>11. ASSUME NEW k \in DOMAIN grid' PROVE grid'[k] = job.serial
  <2>1. CASE k \in 1..Len(grid)
    BY <1>2, <1>9, <2>1 DEF Rows
  <2>2. CASE k \notin 1..Len(grid)
    <3>1. k - Len(grid) \in 1..Len(rows) /\ k = Len(grid) + (k - Len(grid))
      BY <1>9, <2>2
    <3>2. grid'[k] = rows[k - Len(grid)]
      BY <1>9, <3>1
    <3>3. QED BY <1>8, <1>10, <3>1, <3>2
  <2>3. QED BY <2>1, <2>2
<1>12. Rows'
  BY <1>9, <1>11 DEF Rows
<1>13. grid' # <<>> => grid # <<>> \/ "out" \in Kinds
  <2> SUFFICES ASSUME grid = <<>>, "out" \notin Kinds PROVE grid' = <<>>
    OBVIOUS
  <2>1. Len(rows) = 0
    BY <1>6, <1>8, <1>10
  <2>2. Len(grid) = 0
    OBVIOUS
  <2>3. DOMAIN grid' = {}
    BY <1>9, <2>1, <2>2
  <2>4. QED BY <1>9, <2>3
<1>14. QED BY <1>12, <1>13

\* A step that draws nothing, seals nothing and takes no running tail down.
LEMMA KeepsOwn ==
  ASSUME Own, UNCHANGED <<sealed, grid, alt, stream, job, sh>>, Kinds' \subseteq Kinds,
         integration' = "Confirmed" => integration = "Confirmed",
         tail.kind = "Running" \/ "preexec" \in Kinds
           => tail'.kind = "Running" \/ "preexec" \in Kinds'
  PROVE  Own'
<1>1. Rows'
  BY DEF Own, Rows
<1>2. Owned'
  BY DEF Own, Owned
<1>3. UNCHANGED Edges
  BY DEF Edges
<1>4. Screens'
  BY <1>3 DEF Own, Screens
<1>5. SealedOutputIsOwn'
  BY DEF Own, SealedOutputIsOwn
<1>6. QED BY <1>1, <1>2, <1>4, <1>5 DEF Own

\* What follows the end of a command draws no edge, so the screen is down.
LEMMA ScreenIsDown ==
  ASSUME Known, Dialogue, Screens, NEW ev \in {"finished", "precmd"}, EventStep(ev)
  PROVE  ~alt /\ "out" \notin Kinds' /\ Kinds' \subseteq Kinds
<1>1. Kinds = {ev} \cup Kinds' /\ \A b \in Kinds' : Before(ev, b)
  BY Handed
<1>2. "alt" \notin Kinds' /\ "out" \notin Kinds'
  BY <1>1 DEF Before
<1>3. "alt" \notin Kinds
  BY <1>1, <1>2
<1>4. ASSUME NEW i \in DOMAIN stream PROVE stream[i][1] # "alt"
  <2>1. PICK S : events \in Seq(S) /\ stream \in Seq(S)
    BY DEF Known, StreamInv, Typed
  <2>2. /\ Len(events) + i \in DOMAIN Ahead
        /\ Ahead[Len(events) + i] = stream[i]
    BY <2>1 DEF Ahead
  <2>3. QED BY <1>3, <2>2 DEF Kinds, KindsOf
<1>5. Edges = {}
  BY <1>4 DEF Edges
<1>6. job.screen # "alt"
  BY <1>1 DEF Screens
<1>7. QED BY <1>1, <1>2, <1>5, <1>6 DEF Screens

\* A block of the job's rows.
LEMMA SealsOwn ==
  ASSUME Own, StackInv, NEW command, Blk!SealTail(command), command.serial = job.serial,
         ~alt, UNCHANGED <<stream, job, sh>>, Kinds' \subseteq Kinds, "out" \notin Kinds'
  PROVE  Own'
<1>1. PICK S : sealed \in Seq(S)
  BY DEF StackInv, StackShape
<1> DEFINE block == [id |-> tail.id, command |-> command, out |-> grid]
<1>2. sealed' = Append(sealed, block) /\ grid' = <<>> /\ alt' = alt
  BY DEF Blk!SealTail, Blk!Snapshot, Blk!ResetScreen
<1>3. block.command = command /\ block.out = grid
  OBVIOUS
<1> HIDE DEF block
<1>4. /\ DOMAIN sealed' = 1..Len(sealed) + 1 /\ Len(sealed) \in Nat /\ DOMAIN sealed = 1..Len(sealed)
      /\ \A i \in DOMAIN sealed : sealed'[i] = sealed[i]
      /\ sealed'[Len(sealed) + 1] = block
  BY <1>1, <1>2, AppendAny, Places
<1>5. SealedOutputIsOwn'
  <2> SUFFICES ASSUME NEW i \in DOMAIN sealed', NEW j \in DOMAIN sealed'[i].out
               PROVE  sealed'[i].out[j] = sealed'[i].command.serial
    BY DEF SealedOutputIsOwn
  <2>1. CASE i \in DOMAIN sealed
    BY <1>4, <2>1 DEF Own, SealedOutputIsOwn
  <2>2. CASE i = Len(sealed) + 1
    BY <1>3, <1>4, <2>2 DEF Own, Rows
  <2>3. i \in DOMAIN sealed \/ i = Len(sealed) + 1
    BY <1>4
  <2>4. QED BY <2>1, <2>2, <2>3
<1>6. Rows'
  <2>1. <<>> \in Seq({}) /\ DOMAIN <<>> = {}
    BY Items
  <2>2. (\E T : grid' \in Seq(T)) /\ DOMAIN grid' = {}
    BY <1>2, <2>1
  <2>3. QED BY <2>2 DEF Rows
<1>7. Owned'
  BY <1>2 DEF Owned
<1>8. Screens'
  <2>1. UNCHANGED Edges
    BY DEF Edges
  <2>2. QED BY <1>2, <2>1 DEF Own, Screens
<1>9. QED BY <1>5, <1>6, <1>7, <1>8 DEF Own

\* A frame seals the job's rows under the job's command.
LEMMA FrameOwns ==
  ASSUME Known, Dialogue, Tally, StackInv, Own, FrameNext
  PROVE  Own'
<1>1. CASE DrainSome
  <2>1. PICK n \in 0..Len(stream) : Drain(n)
    BY <1>1 DEF DrainSome
  <2>2. /\ Feed(n) /\ phase = "input" /\ UNCHANGED <<tail, sealed, job, sh>>
        /\ integration' = "Confirmed" => integration = "Confirmed"
    <3>1. Feed(n) /\ phase = "input" /\ Ctl!Tick /\ UNCHANGED <<job, sh>>
      BY <2>1 DEF Drain, FrameStep, shellVars
    <3>2. UNCHANGED <<tail, sealed>>
      BY <3>1 DEF Feed
    <3>3. integration' = "Confirmed" => integration = "Confirmed"
      BY <3>1 DEF Ctl!Tick
    <3>4. QED BY <3>1, <3>2, <3>3
  <2>3. Typed /\ events = <<>>
    BY <2>2 DEF Known, StreamInv
  <2>4. PICK from : Thinned(from, Ahead, Ahead')
    BY <2>2, <2>3, DrainAhead
  <2>5. Kinds' \subseteq Kinds /\ Kinds \cap Events \subseteq Kinds'
    BY <2>4, ThinnedInOrder DEF Kinds
  <2>6. "preexec" \in Kinds => "preexec" \in Kinds'
    BY <2>5 DEF Events
  <2>7. Rows' /\ (grid' # <<>> => grid # <<>> \/ "out" \in Kinds)
    BY <2>2, <2>3, FedRows DEF Own, Tally
  <2>8. Owned'
    BY <2>2, <2>5, <2>6, <2>7 DEF Own, Owned
  <2>9. Screens'
    BY <2>2, <2>3, <2>5, FedEdges DEF Own
  <2>10. SealedOutputIsOwn'
    BY <2>2 DEF Own, SealedOutputIsOwn
  <2>11. QED BY <2>7, <2>8, <2>9, <2>10 DEF Own
<1>2. CASE SyncAlt \/ OnPtyExit \/ EndDrain \/ ClosePane
  <2>1. UNCHANGED <<events, stream, tail, sealed, grid, alt, job, sh, integration>>
    BY <1>2 DEF SyncAlt, OnPtyExit, EndDrain, ClosePane, blkVars, paneVars, ctlVars,
                FrameStep, shellVars, Ctl!ObserveAltScreen, Ctl!ObservePtyExit
  <2>2. QED BY <2>1, UnmovedIsCarried, KeepsOwn
<1>3. CASE RecoverAlt
  <2>1. \A i \in DOMAIN stream : stream[i][1] # "alt"
    <3>1. PICK S : events \in Seq(S) /\ stream \in Seq(S)
      BY DEF Known, StreamInv, Typed
    <3>2. 1 \in DOMAIN Ahead /\ Ahead[1][1] = "precmd"
      BY <1>3, <3>1 DEF RecoverAlt, HasEvent, Ahead
    <3>3. ASSUME NEW i \in DOMAIN stream PROVE stream[i][1] # "alt"
      <4>1. /\ Len(events) + i \in DOMAIN Ahead /\ Ahead[Len(events) + i] = stream[i]
            /\ 1 < Len(events) + i
        BY <1>3, <3>1 DEF RecoverAlt, HasEvent, Ahead
      <4>2. Before("precmd", stream[i][1])
        BY <3>2, <4>1 DEF Dialogue, Ordered
      <4>3. QED BY <4>2 DEF Before
    <3>4. QED BY <3>3
  <2>2. Edges = {}
    BY <2>1 DEF Edges
  <2>3. "precmd" \in Kinds
    <3>1. PICK S : events \in Seq(S) /\ stream \in Seq(S)
      BY DEF Known, StreamInv, Typed
    <3>2. 1 \in DOMAIN Ahead /\ Ahead[1][1] = "precmd"
      BY <1>3, <3>1 DEF RecoverAlt, HasEvent, Ahead
    <3>3. QED BY <3>2 DEF Kinds, KindsOf
  <2>4. ~alt
    BY <2>2, <2>3 DEF Own, Screens
  <2>5. QED BY <1>3, <2>4 DEF RecoverAlt
<1>4. CASE OnError \/ OnPrecmd \/ OnCompletion
  <2>1. PICK ev \in {"error", "precmd", "completion"} : EventStep(ev)
    BY <1>4 DEF OnError, OnPrecmd, OnCompletion
  <2>2. Kinds = {ev} \cup Kinds' /\ UNCHANGED <<sh, job>>
    BY <2>1, Handed
  <2>3. UNCHANGED <<tail, sealed, grid, alt, stream>>
    BY <1>4 DEF OnError, OnPrecmd, OnCompletion, blkVars, EventStep
  <2>4. integration' = "Confirmed" => integration = "Confirmed"
    BY <1>4 DEF OnError, OnPrecmd, OnCompletion, ctlVars, Ctl!ObserveIntegrationError,
                Ctl!ObservePrecmd
  <2>5. QED BY <2>2, <2>3, <2>4, KeepsOwn
<1>5. CASE OnContinuation
  <2>1. /\ EventStep("cont") /\ (UNCHANGED blkVars \/ \E text : Blk!SetEditor(text))
        /\ UNCHANGED <<integration, stream>>
    BY <1>5 DEF OnContinuation, Ctl!ObserveContinuation, EventStep
  <2>2. Kinds = {"cont"} \cup Kinds' /\ UNCHANGED <<sh, job>>
    BY <2>1, Handed
  <2>3. job' = [serial |-> job'.serial, text |-> job'.text,
                said |-> job'.said, screen |-> job'.screen]
    BY <2>2 DEF Known, StreamInv, Shapes
  <2>4. UNCHANGED <<sealed, grid, alt>> /\ tail'.kind = tail.kind
    BY <2>1, <2>3, TailOperationKinds DEF Known, StreamInv, blkVars
  <2>5. QED BY <2>1, <2>2, <2>4, KeepsOwn
<1>6. CASE OnPreexec
  <2>1. EventStep("preexec") /\ Blk!StartRunning(Head(events)[2]) /\ UNCHANGED <<integration, stream>>
    BY <1>6 DEF OnPreexec, Ctl!ObservePreexec, EventStep
  <2>2. Kinds = {"preexec"} \cup Kinds' /\ UNCHANGED <<sh, job>>
    BY <2>1, Handed
  <2>3. job' = [serial |-> job'.serial, text |-> job'.text,
                said |-> job'.said, screen |-> job'.screen]
    BY <2>2 DEF Known, StreamInv, Shapes
  <2>4. UNCHANGED <<sealed, grid, alt>> /\ tail'.kind = "Running"
    BY <2>1, <2>3, TailOperationKinds DEF Known, StreamInv
  <2>5. QED BY <2>1, <2>2, <2>4, KeepsOwn
<1>7. CASE OnCommandFinished
  <2>1. EventStep("finished") /\ Blk!SealRunning /\ UNCHANGED <<integration, stream>>
    BY <1>7 DEF OnCommandFinished, Ctl!ObserveCommandFinished, EventStep
  <2>2. Kinds = {"finished"} \cup Kinds' /\ UNCHANGED <<sh, job>>
    BY <2>1, Handed
  <2>3. ~alt /\ "out" \notin Kinds'
    BY <2>1, ScreenIsDown DEF Own
  <2>4. CASE tail.kind = "Prompt" /\ UNCHANGED Blk!blockVars
    <3>1. UNCHANGED <<tail, sealed, grid, alt>>
      BY <2>4 DEF Blk!blockVars
    <3>2. QED BY <2>1, <2>2, <3>1, KeepsOwn
  <2>5. CASE tail.kind = "Running" /\ Blk!SealTail(tail.command)
    <3>1. tail.command.serial = job.serial
      BY <2>5 DEF Tally, Numbered
    <3>2. QED BY <2>1, <2>2, <2>3, <2>5, <3>1, SealsOwn
  <2>6. QED BY <2>1, <2>4, <2>5 DEF Blk!SealRunning
<1>8. CASE OnReady
  <2>1. EventStep("ready") /\ Blk!SealPreCommandOutput /\ UNCHANGED stream
    BY <1>8 DEF OnReady, EventStep
  <2>2. /\ Kinds = {"ready"} \cup Kinds' /\ UNCHANGED <<sh, job>>
        /\ \A b \in Kinds' : Before("ready", b)
    BY <2>1, Handed
  <2>3. "out" \notin Kinds'
    BY <2>2 DEF Before
  <2>4. integration # "Confirmed"
    BY <2>2 DEF Dialogue, Greeted
  <2>5. ~alt /\ job.serial = 0 /\ tail.kind = "Prompt"
    BY <2>4 DEF Dialogue, Greeting, Tally, Numbered
  <2>6. CASE Blk!SealTail([serial |-> 0, text |-> <<>>])
    <3> DEFINE none == [serial |-> 0, text |-> <<>>]
    <3>1. none.serial = job.serial /\ Blk!SealTail(none)
      BY <2>5, <2>6
    <3> HIDE DEF none
    <3>2. QED BY <2>1, <2>2, <2>3, <2>5, <3>1, SealsOwn
  <2>7. CASE Blk!Snapshot = <<>> /\ UNCHANGED Blk!blockVars
    <3>1. UNCHANGED <<tail, sealed, grid, alt>> /\ grid = <<>>
      BY <2>5, <2>7 DEF Blk!blockVars, Blk!Snapshot
    <3>2. Rows' /\ SealedOutputIsOwn'
      BY <2>2, <3>1 DEF Own, Rows, SealedOutputIsOwn
    <3>3. Owned'
      BY <2>3, <3>1 DEF Owned
    <3>4. UNCHANGED Edges
      BY <2>1 DEF Edges
    <3>5. Screens'
      BY <2>2, <3>1, <2>1, <3>4 DEF Own, Screens
    <3>6. QED BY <3>2, <3>3, <3>5 DEF Own
  <2>8. QED BY <2>1, <2>5, <2>6, <2>7 DEF Blk!SealPreCommandOutput
<1>9. QED BY <1>1, <1>2, <1>3, <1>4, <1>5, <1>6, <1>7, <1>8 DEF FrameNext

\* The user draws nothing; Cmd+K takes the rows away.
LEMMA UserOwns == ASSUME Known, Own, UserNext PROVE Own'
<1>1. UNCHANGED <<events, stream, job, sh, integration>>
  <2>1. \A b : UserStep(b) => UNCHANGED <<events, stream, job, sh>>
    BY DEF UserStep, shellVars
  <2>2. Submit => UNCHANGED integration
    BY DEF Submit, Ctl!SubmitCommand, ctlVars
  <2>3. UNCHANGED integration
    BY <2>2 DEF UserNext, Type, TypeRaw, ClearEditor, SubmitHeals, AbortContinuation,
                RequestCompletion, InterruptProgram, ClearScrollback, ctlVars
  <2>4. QED
    BY <2>1, <2>3 DEF UserNext, Type, TypeRaw, ClearEditor, Submit, SubmitHeals,
                      AbortContinuation, RequestCompletion, InterruptProgram, ClearScrollback
<1>2. UNCHANGED Kinds
  BY <1>1, UnmovedIsCarried
<1>3. CASE ClearScrollback
  <2>1. /\ sealed' = <<>> /\ UNCHANGED <<tail, alt>>
        /\ UNCHANGED grid \/ grid' = <<>>
    BY <1>3 DEF ClearScrollback, Blk!ClearScrollback, Blk!ResetScreen
  <2>2. Rows'
    <3>1. <<>> \in Seq({}) /\ DOMAIN <<>> = {}
      BY Items
    <3>2. CASE grid' = <<>>
      <4>1. (\E S : grid' \in Seq(S)) /\ DOMAIN grid' = {}
        BY <3>1, <3>2
      <4>2. QED BY <4>1 DEF Rows
    <3>3. CASE UNCHANGED grid
      BY <1>1, <3>3 DEF Own, Rows
    <3>4. QED BY <2>1, <3>2, <3>3
  <2>3. Owned'
    BY <1>1, <1>2, <2>1 DEF Own, Owned
  <2>4. UNCHANGED Edges
    BY <1>1 DEF Edges
  <2>5. Screens'
    BY <1>1, <1>2, <2>1, <2>4 DEF Own, Screens
  <2>6. SealedOutputIsOwn'
    BY <2>1 DEF SealedOutputIsOwn
  <2>7. QED BY <2>2, <2>3, <2>5, <2>6 DEF Own
<1>4. CASE UNCHANGED blkVars \/ \E text : Blk!SetEditor(text)
  <2>1. job' = [serial |-> job'.serial, text |-> job'.text,
                said |-> job'.said, screen |-> job'.screen]
    BY <1>1 DEF Known, StreamInv, Shapes
  <2>2. UNCHANGED <<sealed, grid, alt>> /\ tail'.kind = tail.kind
    BY <1>4, <2>1, TailOperationKinds DEF Known, StreamInv, blkVars
  <2>3. QED BY <1>1, <1>2, <2>2, KeepsOwn
<1>5. QED
  BY <1>3, <1>4 DEF UserNext, Type, TypeRaw, ClearEditor, Submit, SubmitHeals,
                    AbortContinuation, RequestCompletion, InterruptProgram

\* What the shell writes in this step draws no edge, ends no program that is
\* on its screen, and is output only of a program or of the dotfiles.
Plain ==
  \E T : \E items \in Seq(T) :
    /\ Write(items) /\ "alt" \notin KindsOf(items)
    /\ "finished" \in KindsOf(items) \/ "precmd" \in KindsOf(items) => job'.screen # "alt"
    /\ "out" \in KindsOf(items) => integration # "Confirmed" \/ sh = "running"

\* Such items.
LEMMA PlainItems ==
  /\ \A x : /\ Write(<<x>>) /\ x[1] \notin {"alt", "finished", "precmd"}
            /\ x[1] = "out" => integration # "Confirmed" \/ sh = "running"
            => Plain
  /\ Write(<<>>) => Plain
  /\ Write(PromptCycle) /\ job'.screen # "alt" => Plain
<1>1. ASSUME NEW x, Write(<<x>>), x[1] \notin {"alt", "finished", "precmd"},
             x[1] = "out" => integration # "Confirmed" \/ sh = "running"
      PROVE  Plain
  <2> DEFINE items == <<x>>
  <2>1. Write(items) /\ items \in Seq({x}) /\ KindsOf(items) = {x[1]}
    BY <1>1, Items
  <2> HIDE DEF items
  <2>2. QED BY <1>1, <2>1 DEF Plain
<1>2. ASSUME Write(<<>>) PROVE Plain
  <2>1. <<>> \in Seq({}) /\ KindsOf(<<>>) = {}
    BY Items
  <2>2. QED BY <1>2, <2>1 DEF Plain
<1>3. ASSUME Write(PromptCycle), job'.screen # "alt" PROVE Plain
  <2>1. /\ PromptCycle \in Seq({<<"finished">>, <<"precmd">>})
        /\ KindsOf(PromptCycle) = {"finished", "precmd"}
    BY Items
  <2>2. QED BY <1>3, <2>1 DEF Plain
<1>4. QED BY <1>1, <1>2, <1>3

\* The shell runs a command, its program changes screens, or its words are
\* plain.
LEMMA ShellIsPlain ==
  ASSUME ~Can("zombie"), Known, Dialogue, Screens, ShellNext
  PROVE  \/ (sh \in {"prompt", "ps2"} /\ \E text : Execute(text))
         \/ ProgramScreen
         \/ /\ Plain /\ job'.screen = job.screen /\ job'.serial = job.serial
            /\ job.screen = "alt" => sh' \in {"running", "gone"}
<1>1. job.screen = "alt" => sh \in {"running", "gone"}
  BY DEF Screens
<1>2. CASE Boot
  <2>1. PICK noise \in {<<>>, << <<"out", 0>> >>},
             greeting \in {<< <<"precmd">> >>, PromptCycle} :
          Write(noise \o << <<"ready">> >> \o greeting)
    BY <1>2 DEF Boot
  <2> DEFINE items == noise \o << <<"ready">> >> \o greeting
  <2>2. /\ items \in Seq(ScriptItems)
        /\ KindsOf(items) \subseteq {"out", "ready", "finished", "precmd"}
    BY <2>1, BootItems
  <2>3. Write(items)
    BY <2>1
  <2> HIDE DEF items
  <2>4. integration # "Confirmed" /\ UNCHANGED job /\ job.screen # "alt"
    BY <1>1, <1>2 DEF Boot, Dialogue, Greeted
  <2>5. "alt" \notin KindsOf(items)
    BY <2>2
  <2>6. Plain
    BY <2>2, <2>3, <2>4, <2>5 DEF Plain
  <2>7. QED BY <2>4, <2>6
<1>3. CASE BootFails
  <2> DEFINE x == <<"error">>
  <2>1. Write(<<x>>) /\ x[1] = "error" /\ UNCHANGED job /\ sh = "boot"
    BY <1>3 DEF BootFails
  <2> HIDE DEF x
  <2>2. QED BY <1>1, <2>1, PlainItems
<1>4. CASE ReadLine \/ ReadText
  <2> DEFINE x == <<"cont">>
  <2>1. /\ sh \in {"prompt", "ps2"}
        /\ \/ Write(PromptCycle) /\ UNCHANGED job
           \/ Write(<<x>>) /\ UNCHANGED job
           \/ \E text : Execute(text)
    BY <1>4 DEF ReadLine, ReadText
  <2>2. x[1] = "cont"
    OBVIOUS
  <2> HIDE DEF x
  <2>3. QED BY <1>1, <2>1, <2>2, PlainItems
<1>5. CASE ReadCompletion
  BY <1>5, NoCompletionIsRead
<1>6. CASE ReadInterrupt
  <2> DEFINE x == <<"eof">>
  <2>1. /\ UNCHANGED job /\ sh \in {"prompt", "ps2"}
        /\ Write(<<>>) \/ Write(PromptCycle) \/ Write(<<x>>)
    BY <1>6 DEF ReadInterrupt
  <2>2. x[1] = "eof"
    OBVIOUS
  <2> HIDE DEF x
  <2>3. QED BY <1>1, <2>1, <2>2, PlainItems
<1>7. CASE ProgramSays
  <2> DEFINE x == <<"out", job.serial>>
  <2>1. Write(<<x>>) /\ x[1] = "out" /\ sh = "running" /\ sh' = sh
    BY <1>7 DEF ProgramSays
  <2>2. job'.serial = job.serial /\ job'.screen = job.screen
    BY <1>7 DEF ProgramSays, Known, StreamInv, Shapes
  <2> HIDE DEF x
  <2>3. QED BY <2>1, <2>2, PlainItems
<1>8. CASE Finish
  <2>1. Write(PromptCycle) /\ UNCHANGED job /\ job.screen # "alt"
    BY <1>8 DEF Finish, Dialogue
  <2>2. QED BY <2>1, PlainItems
<1>9. CASE ShellExits
  <2> DEFINE x == <<"eof">>
  <2>1. Write(<<x>>) /\ x[1] = "eof" /\ UNCHANGED job /\ sh' = "gone"
    BY <1>9 DEF ShellExits
  <2> HIDE DEF x
  <2>2. QED BY <2>1, PlainItems
<1>10. QED
  BY <1>2, <1>3, <1>4, <1>5, <1>6, <1>7, <1>8, <1>9 DEF ShellNext

\* Edges written after those the pane has not read.
LEMMA WriteEdges ==
  ASSUME Typed, NEW T, NEW items \in Seq(T), Write(items)
  PROVE  /\ \A i \in Edges : i \in Edges' /\ stream'[i] = stream[i]
         /\ \A i \in Edges' :
              \/ i \in Edges
              \/ \E j \in DOMAIN items : items[j][1] = "alt" /\ stream'[i] = items[j]
         /\ \A j \in DOMAIN items : items[j][1] = "alt" => Len(stream) + j \in Edges'
         /\ \A i \in Edges : i \in Nat /\ i <= Len(stream) /\ Len(stream) \in Nat
<1>1. PICK S : stream \in Seq(S)
  BY DEF Typed
<1>2. stream' = stream \o items /\ stream \in Seq(S \cup T) /\ items \in Seq(S \cup T)
  BY <1>1 DEF Write
<1>3. /\ DOMAIN stream = 1..Len(stream) /\ Len(stream) \in Nat
      /\ DOMAIN items = 1..Len(items) /\ Len(items) \in Nat
      /\ DOMAIN stream' = 1..(Len(stream) + Len(items))
      /\ \A i \in DOMAIN stream : stream'[i] = stream[i]
      /\ \A j \in DOMAIN items : stream'[Len(stream) + j] = items[j]
  BY <1>2
<1>4. \A i \in DOMAIN stream : i \in DOMAIN stream'
  BY <1>3
<1>5. \A i \in Edges : i \in Edges' /\ stream'[i] = stream[i]
  BY <1>3, <1>4 DEF Edges
<1>6. ASSUME NEW i \in Edges', i \notin Edges
      PROVE  \E j \in DOMAIN items : items[j][1] = "alt" /\ stream'[i] = items[j]
  <2>1. i \in DOMAIN stream' /\ stream'[i][1] = "alt"
    BY DEF Edges
  <2>2. i \notin DOMAIN stream
    BY <1>3, <1>6, <2>1 DEF Edges
  <2>3. i - Len(stream) \in DOMAIN items /\ i = Len(stream) + (i - Len(stream))
    BY <1>3, <2>1, <2>2
  <2>4. QED BY <1>3, <2>1, <2>3
<1>7. ASSUME NEW j \in DOMAIN items, items[j][1] = "alt" PROVE Len(stream) + j \in Edges'
  <2>1. Len(stream) + j \in DOMAIN stream'
    BY <1>3
  <2>2. QED BY <1>3, <1>7, <2>1 DEF Edges
<1>8. \A i \in Edges : i \in Nat /\ i <= Len(stream) /\ Len(stream) \in Nat
  BY <1>3 DEF Edges
<1>9. QED BY <1>5, <1>6, <1>7, <1>8

\* No edge is ahead of a pane whose shell reads.
LEMMA NoEdgeAhead ==
  ASSUME Typed, "alt" \notin Kinds
  PROVE  Edges = {}
<1>1. PICK S : events \in Seq(S) /\ stream \in Seq(S)
  BY DEF Typed
<1>2. ASSUME NEW i \in DOMAIN stream PROVE stream[i][1] # "alt"
  <2>1. Len(events) + i \in DOMAIN Ahead /\ Ahead[Len(events) + i] = stream[i]
    BY <1>1 DEF Ahead
  <2>2. QED BY <2>1 DEF Kinds, KindsOf
<1>3. QED BY <1>2 DEF Edges

\* A command begins on a clean screen.
LEMMA ExecuteOwns ==
  ASSUME Known, Dialogue, Dialogue', Tally, Own, ShellStep, sh \in {"prompt", "ps2"},
         NEW text, Execute(text)
  PROVE  Own'
<1>1. /\ Kinds \subseteq {"cont"} /\ "preexec" \in Kinds'
      /\ tail.kind = "Prompt" /\ integration = "Confirmed"
  BY RunsAlone
<1>2. Typed /\ UNCHANGED <<events, sealed, tail, grid, alt, integration>>
  BY DEF Known, StreamInv, ShellStep, paneVars, blkVars, ctlVars
<1>3. grid = <<>>
  BY <1>1 DEF Own, Owned
<1>4. Rows'
  <2>1. <<>> \in Seq({}) /\ DOMAIN <<>> = {}
    BY Items
  <2>2. (\E S : grid' \in Seq(S)) /\ DOMAIN grid' = {}
    BY <1>2, <1>3, <2>1
  <2>3. QED BY <2>2 DEF Rows
<1>5. Owned'
  BY <1>1 DEF Owned
<1>6. Edges = {} /\ ~alt
  <2>1. Edges = {}
    BY <1>1, <1>2, NoEdgeAhead
  <2>2. job.screen # "alt"
    BY DEF Own, Screens
  <2>3. QED BY <2>1, <2>2 DEF Own, Screens
<1>7. Edges' = {}
  <2> DEFINE x == <<"preexec", [serial |-> job.serial + 1, text |-> text]>>
             items == <<x>>
  <2>1. Write(items) /\ x[1] = "preexec"
    BY DEF Execute
  <2> HIDE DEF x
  <2>2. items \in Seq({x}) /\ DOMAIN items = {1} /\ items[1] = x
    BY <2>1, Items
  <2> HIDE DEF items
  <2>3. \A i \in Edges' :
          i \in Edges \/ \E j \in DOMAIN items : items[j][1] = "alt" /\ stream'[i] = items[j]
    BY <1>2, <2>1, <2>2, WriteEdges
  <2>4. QED BY <1>6, <2>1, <2>2, <2>3
<1>8. job'.screen # "alt"
  BY DEF Execute
<1>9. Screens'
  BY <1>2, <1>6, <1>7, <1>8 DEF Screens
<1>10. SealedOutputIsOwn'
  BY <1>2 DEF Own, SealedOutputIsOwn
<1>11. QED BY <1>4, <1>5, <1>9, <1>10 DEF Own

\* A program that changes screens says so after all it has said.
LEMMA ScreenOwns ==
  ASSUME Known, Dialogue, Own, ProgramScreen
  PROVE  Own'
<1>1. Typed /\ UNCHANGED <<events, sealed, tail, grid, alt, integration, sh>> /\ sh = "running"
  BY DEF Known, StreamInv, ProgramScreen, ShellStep, paneVars, blkVars, ctlVars
<1>2. job'.serial = job.serial
  BY DEF ProgramScreen, Known, StreamInv, Shapes
<1> DEFINE x == <<"alt", job'.screen = "alt">>
           items == <<x>>
<1>3. Write(items) /\ x[1] = "alt" /\ x[2] = (job'.screen = "alt")
  BY DEF ProgramScreen
<1> HIDE DEF x
<1>4. items \in Seq({x}) /\ KindsOf(items) = {"alt"} /\ DOMAIN items = {1} /\ items[1] = x
  BY <1>3, Items
<1> HIDE DEF items
<1>5. Kinds' = Kinds \cup {"alt"}
  BY <1>1, <1>3, <1>4, WriteAhead
<1>6. Rows' /\ Owned'
  BY <1>1, <1>2, <1>5 DEF Own, Rows, Owned
<1>7. /\ \A i \in Edges' :
           i \in Edges \/ \E j \in DOMAIN items : items[j][1] = "alt" /\ stream'[i] = items[j]
      /\ \A j \in DOMAIN items : items[j][1] = "alt" => Len(stream) + j \in Edges'
      /\ \A i \in Edges : i \in Nat /\ i <= Len(stream) /\ Len(stream) \in Nat
  BY <1>1, <1>3, <1>4, WriteEdges
<1>8. Len(stream) + 1 \in Edges'
  BY <1>3, <1>4, <1>7
<1>9. ASSUME NEW i \in Edges', \A j \in Edges' : j <= i
      PROVE  stream'[i][2] = (job'.screen = "alt")
  <2>1. CASE i \in Edges
    <3>1. i \in Nat /\ i <= Len(stream) /\ Len(stream) \in Nat /\ Len(stream) + 1 <= i
      BY <1>7, <1>8, <1>9, <2>1
    <3>2. QED BY <3>1
  <2>2. CASE \E j \in DOMAIN items : items[j][1] = "alt" /\ stream'[i] = items[j]
    <3>1. stream'[i] = x
      BY <1>4, <2>2
    <3>2. QED BY <1>3, <3>1
  <2>3. QED BY <1>7, <2>1, <2>2
<1>10. "finished" \notin Kinds' /\ "precmd" \notin Kinds'
  BY <1>1, <1>5 DEF Dialogue, AtRunning
<1>11. Screens'
  BY <1>1, <1>8, <1>9, <1>10 DEF Screens
<1>12. SealedOutputIsOwn'
  BY <1>1 DEF Own, SealedOutputIsOwn
<1>13. QED BY <1>6, <1>11, <1>12 DEF Own

\* The shell's steps leave rows and blocks to their owners.
LEMMA ShellOwns ==
  ASSUME ~Can("zombie"), Known, Dialogue, Dialogue', Tally, Own, ShellNext
  PROVE  Own'
<1>1. ShellStep
  BY ShellSpeaks
<1>2. Typed /\ UNCHANGED <<events, sealed, tail, grid, alt, integration>>
  BY <1>1 DEF Known, StreamInv, ShellStep, paneVars, blkVars, ctlVars
<1>3. CASE sh \in {"prompt", "ps2"} /\ \E text : Execute(text)
  BY <1>1, <1>3, ExecuteOwns
<1>4. CASE ProgramScreen
  BY <1>4, ScreenOwns
<1>5. CASE /\ Plain /\ job'.screen = job.screen /\ job'.serial = job.serial
           /\ job.screen = "alt" => sh' \in {"running", "gone"}
  <2>1. PICK T : \E items \in Seq(T) :
          /\ Write(items) /\ "alt" \notin KindsOf(items)
          /\ "finished" \in KindsOf(items) \/ "precmd" \in KindsOf(items) => job'.screen # "alt"
          /\ "out" \in KindsOf(items) => integration # "Confirmed" \/ sh = "running"
    BY <1>5 DEF Plain
  <2>2. PICK items \in Seq(T) :
          /\ Write(items) /\ "alt" \notin KindsOf(items)
          /\ "finished" \in KindsOf(items) \/ "precmd" \in KindsOf(items) => job'.screen # "alt"
          /\ "out" \in KindsOf(items) => integration # "Confirmed" \/ sh = "running"
    BY <2>1
  <2>3. Kinds' = Kinds \cup KindsOf(items)
    BY <1>2, <2>2, WriteAhead
  <2>4. /\ \A i \in Edges : i \in Edges' /\ stream'[i] = stream[i]
        /\ \A i \in Edges' :
             i \in Edges \/ \E j \in DOMAIN items : items[j][1] = "alt" /\ stream'[i] = items[j]
    BY <1>2, <2>2, WriteEdges
  <2>5. Edges' = Edges
    BY <2>2, <2>4 DEF KindsOf
  <2>6. Rows'
    BY <1>2, <1>5 DEF Own, Rows
  <2>7. Owned'
    <3>1. sh = "running" => tail.kind = "Running" \/ "preexec" \in Kinds
      BY DEF Dialogue, AtRunning
    <3>2. QED BY <1>2, <2>2, <2>3, <3>1 DEF Own, Owned
  <2>8. Screens'
    <3>1. Edges' = {} => (alt' <=> job'.screen = "alt")
      BY <1>2, <1>5, <2>5 DEF Own, Screens
    <3>2. \A i \in Edges' : (\A j \in Edges' : j <= i) => stream'[i][2] = (job'.screen = "alt")
      BY <1>5, <2>4, <2>5 DEF Own, Screens
    <3>3. "finished" \in Kinds' \/ "precmd" \in Kinds' => job'.screen # "alt"
      BY <1>5, <2>2, <2>3 DEF Own, Screens
    <3>4. job'.screen = "alt" => sh' \in {"running", "gone"}
      BY <1>5
    <3>5. QED BY <3>1, <3>2, <3>3, <3>4 DEF Screens
  <2>9. SealedOutputIsOwn'
    BY <1>2 DEF Own, SealedOutputIsOwn
  <2>10. QED BY <2>6, <2>7, <2>8, <2>9 DEF Own
<1>6. QED BY <1>3, <1>4, <1>5, ShellIsPlain DEF Own

\* A pane begins with an empty screen, and the old blocks are read, not drawn.
LEMMA OwnInit == ASSUME Init PROVE Own
<1>1. /\ events = <<>> /\ stream = <<>> /\ integration # "Confirmed"
      /\ job = [serial |-> 0, text |-> <<>>, said |-> FALSE, screen |-> "main"]
  BY DEF Init, Ctl!Spawned, NoJob
<1>2. PICK n \in 0..Restored : Blk!Init(n)
  BY DEF Init
<1>3. grid = <<>> /\ ~alt /\ \A i \in DOMAIN sealed : DOMAIN sealed[i].out = {}
  <2>1. grid = <<>> /\ ~alt
    BY <1>2 DEF Blk!Init
  <2>2. \A i \in DOMAIN sealed : sealed[i].out = <<>>
    BY <1>2 DEF Blk!Init
  <2>3. DOMAIN <<>> = {}
    BY Items
  <2>4. QED BY <2>1, <2>2, <2>3
<1>4. Kinds = {}
  <2>1. Ahead = <<>>
    BY <1>1 DEF Ahead
  <2>2. QED BY <2>1, Items DEF Kinds
<1>5. Rows
  <2>1. <<>> \in Seq({}) /\ DOMAIN <<>> = {}
    BY Items
  <2>2. (\E S : grid \in Seq(S)) /\ DOMAIN grid = {}
    BY <1>3, <2>1
  <2>3. QED BY <2>2 DEF Rows
<1>6. Owned
  BY <1>1 DEF Owned
<1>7. Edges = {} /\ job.screen # "alt"
  BY <1>1 DEF Edges
<1>8. Screens
  BY <1>3, <1>4, <1>7 DEF Screens
<1>9. SealedOutputIsOwn
  BY <1>3 DEF SealedOutputIsOwn
<1>10. QED BY <1>5, <1>6, <1>8, <1>9 DEF Own

\* A step that changes nothing.
LEMMA OwnStutters == ASSUME Own, UNCHANGED vars PROVE Own'
<1>1. UNCHANGED <<events, stream, sealed, tail, grid, alt, job, sh, integration>>
  BY DEF vars, ctlVars, blkVars, paneVars, shellVars
<1>2. QED BY <1>1, UnmovedIsCarried, KeepsOwn

\* A sealed block holds its own command's output and nobody else's: the rows
\* on the screen when a block is sealed are the rows of its command, whatever
\* the program did to the screen, unless it died inside the alternate one.
THEOREM BlocksHoldTheirOwn == ASSUME PoliteProgram PROVE Spec => []SealedOutputIsOwn
<1>1. Init => Own
  BY OwnInit
<1>2. Known /\ Dialogue /\ Dialogue' /\ StackInv /\ Tally /\ Own /\ [Next]_vars => Own'
  BY ShellOwns, FrameOwns, UserOwns, OwnStutters DEF Next, PoliteProgram
<1>3. Spec => [](Known /\ Dialogue /\ Tally)
  BY TallyHolds DEF PoliteProgram
<1>4. Spec => []StackInv
  BY StackInvHolds
<1>5. Own => SealedOutputIsOwn
  BY DEF Own
<1>6. QED BY <1>1, <1>2, <1>3, <1>4, <1>5, PTL DEF Spec
=============================================================================
