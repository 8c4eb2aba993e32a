------------------------------- MODULE PaneSize -------------------------------
\* The size of a pane, in cells: the grid that fits what the window leaves it
\* (render_pane.rs), the debounced resize of the shell's terminal and of the
\* grid (plan_resize, PaneSession::resize), and a pane's restart (app.rs).
EXTENDS Integers, Sequences

CONSTANTS
  PaneAvail,  \* what the window may leave the pane, [rows, cols] in cells
  FirstSize,  \* the size a shell is spawned with, 24 x 80
  MinSize,    \* MIN_ROWS, MIN_COLS
  Debounce,   \* RESIZE_DEBOUNCE_SECS, in ticks
  SizeMoves,  \* "fails": a resize of the terminal may fail; "hasty": the pane
              \* changes within a debounce of a restart
  MaxSizing   \* bound: changes of the window, the screen and the shell

VARIABLES
  avail,     \* what the window leaves the pane
  onScreen,  \* the pane's tab is shown
  phase,     \* "boot", "live" or "dead"
  altUp,     \* a program has the alternate screen
  notice,    \* the notice of an old bash takes a row
  tty,       \* the size of the shell's terminal
  cells,     \* the size of the grid
  committed, \* slot.ui.last_size, NoSize at first
  settling,  \* slot.ui.pending_size: [size, age]
  steady,    \* ghost: ticks since a frame last wanted another size
  resizes,   \* ghost: the last step resized, and how long the size had held
  quiet,     \* ghost: the last step was a frame that asked for no other
  refused,   \* ghost: the last resize failed
  sizing     \* changes so far
sizeVars == <<avail, onScreen, phase, altUp, notice, tty, cells, committed, settling,
              steady, resizes, quiet, refused, sizing>>

NoSize == [rows |-> 0, cols |-> 0]
Settled == [size |-> NoSize, age |-> 0]
NoResize == [how |-> "none", held |-> 0]

AtLeast(a, b) == IF a < b THEN b ELSE a

\* What the panel of a dead pane and the notice take, in rows
Chrome == (IF phase = "dead" THEN 2 ELSE 0) + (IF notice /\ phase # "boot" THEN 1 ELSE 0)
Gutter == IF altUp /\ phase # "boot" THEN 0 ELSE 1

\* pane_grid_layout and cells_from_pixels: the grid that fits
Target == [rows |-> AtLeast(avail.rows - Chrome, MinSize.rows),
           cols |-> AtLeast(avail.cols - Gutter, MinSize.cols)]

SizeInit ==
  /\ avail \in PaneAvail /\ onScreen = TRUE /\ phase = "boot" /\ altUp = FALSE /\ notice = FALSE
  /\ tty = FirstSize /\ cells = FirstSize /\ committed = NoSize /\ settling = Settled
  /\ steady = 0 /\ resizes = NoResize /\ quiet = FALSE /\ refused = FALSE /\ sizing = 0

-----------------------------------------------------------------------------

\* PaneSession::resize: the terminal first, and the grid if it did not fail.
\* What it returns is dropped by both callers.
Resized(size) ==
  \/ tty' = size /\ cells' = size /\ refused' = FALSE
  \/ "fails" \in SizeMoves /\ refused' = TRUE /\ UNCHANGED <<tty, cells>>

NotResized == UNCHANGED <<tty, cells, refused>>

\* How long the target has held, with the frame that is drawn now
Held == IF settling.size = Target THEN settling.age ELSE 0

\* plan_resize
Plan ==
  CASE committed = Target -> [commit |-> FALSE, pending |-> Settled]
    [] committed = NoSize -> [commit |-> TRUE, pending |-> Settled]
    [] OTHER -> IF Held >= Debounce THEN [commit |-> TRUE, pending |-> Settled]
                ELSE [commit |-> FALSE, pending |-> [size |-> Target, age |-> Held]]

\* Mutant: only a pane that has no size yet is resized.
BootFrameOnce ==
  /\ onScreen /\ phase = "boot"
  /\ IF committed = NoSize THEN Resized(Target) /\ resizes' = [how |-> "boot", held |-> 0]
     ELSE NotResized /\ resizes' = NoResize
  /\ committed' = Target /\ quiet' = TRUE /\ steady' = 0
  /\ UNCHANGED <<avail, onScreen, phase, altUp, notice, settling, sizing>>

\* A frame while the shell starts: resized at once
BootFrame ==
  /\ onScreen /\ phase = "boot"
  /\ IF committed # Target THEN Resized(Target) /\ resizes' = [how |-> "boot", held |-> 0]
     ELSE NotResized /\ resizes' = NoResize
  /\ committed' = Target /\ quiet' = TRUE /\ steady' = 0
  /\ UNCHANGED <<avail, onScreen, phase, altUp, notice, settling, sizing>>

\* A frame of a pane whose shell is ready, or dead
SizeFrame ==
  /\ onScreen /\ phase # "boot"
  /\ IF Plan.commit THEN Resized(Target) ELSE NotResized
  /\ committed' = IF Plan.commit THEN Target ELSE committed
  /\ settling' = Plan.pending
  /\ steady' = IF settling.size = Target THEN steady ELSE 0
  /\ resizes' = IF Plan.commit THEN [how |-> IF committed = NoSize THEN "first" ELSE "settled", held |-> steady']
                ELSE NoResize
  /\ quiet' = (Plan.pending = Settled)
  /\ UNCHANGED <<avail, onScreen, phase, altUp, notice, sizing>>

Tick ==
  /\ settling.size # NoSize /\ settling.age < Debounce
  /\ settling' = [settling EXCEPT !.age = @ + 1]
  /\ steady' = IF steady < Debounce THEN steady + 1 ELSE steady
  /\ resizes' = NoResize /\ quiet' = FALSE
  /\ UNCHANGED <<avail, onScreen, phase, altUp, notice, tty, cells, committed, refused, sizing>>

\* What happens between two frames; a restart is drawn first.
Changed == /\ sizing < MaxSizing /\ sizing' = sizing + 1
           /\ resizes.how = "restart" => "hasty" \in SizeMoves
           /\ quiet' = FALSE
           /\ UNCHANGED <<settling, steady>>
Between == Changed /\ resizes' = NoResize
ResizeWindow == /\ Between /\ avail' \in PaneAvail \ {avail}
                /\ UNCHANGED <<onScreen, phase, altUp, notice, tty, cells, committed, refused>>
ChooseTab == /\ Between /\ onScreen' = ~onScreen
             /\ UNCHANGED <<avail, phase, altUp, notice, tty, cells, committed, refused>>
Ready == /\ phase = "boot" /\ Between /\ phase' = "live" /\ notice' \in BOOLEAN
         /\ UNCHANGED <<avail, onScreen, altUp, tty, cells, committed, refused>>
Dismiss == /\ notice /\ onScreen /\ phase # "boot" /\ Between /\ notice' = FALSE
           /\ UNCHANGED <<avail, onScreen, phase, altUp, tty, cells, committed, refused>>
SwitchScreen == /\ phase = "live" /\ Between /\ altUp' = ~altUp
                /\ UNCHANGED <<avail, onScreen, phase, notice, tty, cells, committed, refused>>
Exit == /\ phase # "dead" /\ Between /\ phase' = "dead"
        /\ UNCHANGED <<avail, onScreen, altUp, notice, tty, cells, committed, refused>>

\* "Restart shell" in a dead pane: restart_pane replaces the session, and
\* leaves the slot's sizes.
Restart ==
  /\ phase = "dead" /\ onScreen /\ ("hasty" \in SizeMoves \/ quiet)
  /\ Changed /\ resizes' = [how |-> "restart", held |-> 0]
  /\ phase' = "boot" /\ altUp' = FALSE /\ notice' = FALSE
  /\ tty' = FirstSize /\ cells' = FirstSize /\ refused' = FALSE
  /\ UNCHANGED <<avail, onScreen, committed>>

SizeNext == BootFrame \/ SizeFrame \/ Tick \/ ResizeWindow \/ ChooseTab \/ Ready
            \/ Dismiss \/ SwitchScreen \/ Exit \/ Restart
SizeSpec == SizeInit /\ [][SizeNext]_sizeVars

-----------------------------------------------------------------------------
\* Properties

\* The shell's terminal and the grid are of one size, a resize that fails
\* included: what a program draws fits what is painted (PaneSession::resize).
SizesAgree == tty = cells

\* Once a frame asks for no other, the shell draws for what the frame paints:
\* no size is left behind by a restart, a change of screen or a hidden tab.
ShellGetsItsSize == quiet /\ ~refused /\ phase # "dead" => tty = Target

\* A shell that runs is resized only to a size that every frame has wanted for
\* the length of the debounce: a drag is one SIGWINCH (plan_resize).
OneResizePerDrag == resizes.how = "settled" => resizes.held >= Debounce

\* The three together: shell, grid and frame come to one size, with one SIGWINCH
\* for a drag.
SizesSettle == SizesAgree /\ ShellGetsItsSize /\ OneResizePerDrag
=============================================================================
