----------------------------- MODULE BlockStack -----------------------------
(***************************************************************************)
(* The transcript of one pane (src/block.rs): sealed blocks, oldest first, *)
(* and one live tail, which is the prompt with its editor or the running   *)
(* command.  Sealing takes whatever the terminal shows, so the terminal's  *)
(* screens are part of the state: the rows of the main screen since the    *)
(* last reset, and whether the alternate screen is up.                     *)
(*                                                                         *)
(* Commands, editor texts and rows are opaque values here.                 *)
(***************************************************************************)
EXTENDS Integers, Sequences

CONSTANTS
  NoCommand,    \* the command of an output-only block
  EmptyText     \* the text of a fresh editor

VARIABLES
  sealed,    \* the Block::Sealed prefix: id, command, snapshot
  tail,      \* the live tail: Prompt with its editor text, or Running
  nextId,    \* BlockStack.next_id
  grid,      \* rows of the main screen since the last reset
  alt        \* the terminal's alternate-screen flag

blockVars == <<sealed, tail, nextId, grid, alt>>

Prompt(id, text) == [kind |-> "Prompt", id |-> id, command |-> NoCommand, text |-> text]

Running(id, command) ==
  [kind |-> "Running", id |-> id, command |-> command, text |-> EmptyText]

\* `new` (n = 0) and `with_restored_sealed`, whose blocks are numbered by restore.
Init(n) ==
  /\ sealed = [i \in 1..n |-> [id |-> i - 1, command |-> NoCommand, out |-> <<>>]]
  /\ tail = Prompt(n, EmptyText)
  /\ nextId = n + 1
  /\ grid = <<>>
  /\ alt = FALSE

-----------------------------------------------------------------------------

\* snapshot_lines_all and reset_for_new_block work on the screen that is up;
\* rows the program draws on the alternate screen are not modelled.
Snapshot == IF alt THEN <<>> ELSE grid

ResetScreen == grid' = IF alt THEN grid ELSE <<>>

\* Preexec: the prompt becomes the running block; what was being typed is lost.
StartRunning(command) ==
  /\ tail' = IF tail.kind = "Prompt" THEN Running(tail.id, command) ELSE tail
  /\ UNCHANGED <<sealed, nextId, grid, alt>>

\* Mutant: the screen is not reset for the next block.
SealTailKeepsScreen(command) ==
  /\ sealed' = Append(sealed, [id |-> tail.id, command |-> command, out |-> Snapshot])
  /\ tail' = Prompt(nextId, EmptyText)
  /\ nextId' = nextId + 1
  /\ UNCHANGED <<grid, alt>>

\* Snapshot, reset, seal the tail, and put a fresh prompt under it.
SealTail(command) ==
  /\ sealed' = Append(sealed, [id |-> tail.id, command |-> command, out |-> Snapshot])
  /\ tail' = Prompt(nextId, EmptyText)
  /\ nextId' = nextId + 1
  /\ ResetScreen
  /\ UNCHANGED alt

\* Mutant: a command that printed nothing leaves no block.
SealRunningIfItPrinted ==
  \/ tail.kind = "Running" /\ Snapshot # <<>> /\ SealTail(tail.command)
  \/ ~(tail.kind = "Running" /\ Snapshot # <<>>) /\ UNCHANGED blockVars

\* CommandFinished: seals a running block, ignored at a prompt.
SealRunning ==
  \/ tail.kind = "Running" /\ SealTail(tail.command)
  \/ tail.kind = "Prompt"  /\ UNCHANGED blockVars

\* IntegrationReady: what the dotfiles printed becomes a block of its own.
SealPreCommandOutput ==
  \/ tail.kind = "Prompt" /\ Snapshot # <<>> /\ SealTail(NoCommand)
  \/ ~(tail.kind = "Prompt" /\ Snapshot # <<>>) /\ UNCHANGED blockVars

\* The editor exists only while the tail is a prompt.
EditorOnTail == tail.kind = "Prompt"

SetEditor(text) ==
  /\ EditorOnTail
  /\ tail' = [tail EXCEPT !.text = text]
  /\ UNCHANGED <<sealed, nextId, grid, alt>>

\* Mutant: clearing starts the ids over.
ClearScrollbackAndIds ==
  /\ sealed' = <<>> /\ nextId' = 1
  /\ ResetScreen
  /\ UNCHANGED <<tail, alt>>

\* Cmd+K: clear_sealed, and clear_all on the live screen.
ClearScrollback ==
  /\ sealed' = <<>>
  /\ ResetScreen
  /\ UNCHANGED <<tail, nextId, alt>>

-----------------------------------------------------------------------------

\* Invariant 4 of the stack, and what ids are for: a block keeps its id for
\* life and no later block, restored or new, ever gets the same one.
IdsIncrease ==
  /\ \A i, j \in DOMAIN sealed : i < j => sealed[i].id < sealed[j].id
  /\ \A i \in DOMAIN sealed : sealed[i].id < tail.id
  /\ tail.id < nextId
=============================================================================
