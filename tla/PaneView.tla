------------------------------- MODULE PaneView -------------------------------
\* What of a pane's transcript is in view: the scroll area over the blocks, the
\* prompt's footer, the header that is pinned to the top, paging and the jump to
\* a find match (render_pane.rs). Lengths are in rows, a strip of chips is one;
\* egui's scroll area is external, and its animations end where they lead.
EXTENDS Integers, Sequences, FiniteSets

CONSTANTS
  PaneRows,     \* the height of the pane
  CommandRows,  \* lines a command may have
  OutputRows,   \* rows of output it may print
  StickyCap,    \* STICKY_MAX_CMD_LINES
  MaxViewBlocks, \* bound: commands that are run
  MaxEditRows   \* bound: lines in the editor

ASSUME ViewAssumption ==
  /\ CommandRows \subseteq Nat
  /\ {PaneRows, OutputRows, StickyCap, MaxViewBlocks} \subseteq Nat /\ MaxEditRows \in Nat \ {0}

VARIABLES
  pile,    \* the blocks: [chip, cmd, out], rows of each part
  live,    \* the last block runs
  edit,    \* lines in the prompt's editor
  scroll,  \* the first row in view
  finding, \* the find overlay is open
  seen     \* ghost: what the last step did, and the rows seen before it
viewVars == <<pile, live, edit, scroll, finding, seen>>

AtMost(a, b) == IF a < b THEN a ELSE b
NotBelow(a, b) == IF a < b THEN b ELSE a
Gap == 1 \* between blocks, BLOCK_SEPARATOR_GAP twice and a hairline

\* compute_footer_height: none while a command runs
Footer(running, lines) == IF running THEN 0 ELSE 1 + lines
ViewRows == NotBelow(PaneRows - Footer(live, edit), 0)

Rows(b) == b.chip + b.cmd + b.out

\* The blocks' estimated height, and the spacer that puts a short stack at the
\* bottom
Estimated(i) == pile[i].chip + pile[i].out
                + (IF live /\ i = Len(pile) THEN pile[i].cmd ELSE NotBelow(pile[i].cmd, 1))
Estimate == LET sum[i \in 0..Len(pile)] == IF i = 0 THEN 0 ELSE sum[i - 1] + Estimated(i)
            IN  sum[Len(pile)]
Spacer == NotBelow(ViewRows - Estimate, 0)

\* BlockExtent: the first row of a block, the row behind its last, what is
\* pinned of it
Top(i) == LET below[j \in 0..Len(pile)] ==
                IF j = 0 THEN Spacer ELSE below[j - 1] + (Rows(pile[j]) + Gap)
          IN  below[i - 1]
Bottom(i) == Top(i) + Rows(pile[i])
StickyRows(b) == b.chip + AtMost(b.cmd, StickyCap)

Height == IF pile = <<>> THEN Spacer ELSE Bottom(Len(pile)) + (IF live THEN 0 ELSE Gap)
End == NotBelow(Height - ViewRows, 0)

\* compute_sticky_header, in rows of the transcript: the header of the block
\* that straddles the top, pushed up by the next
Pinned(at) ==
  LET over == {i \in DOMAIN pile : Top(i) < at /\ at < Bottom(i)}
  IN  {LET top == IF i < Len(pile) THEN AtMost(at, Top(i + 1) - StickyRows(pile[i])) ELSE at
       IN  [block |-> i, top |-> top, end |-> top + StickyRows(pile[i])] :
         i \in {j \in over : StickyRows(pile[j]) > 0}}

\* The transcript's rows that are in view and not behind the header, and those
\* that the header shows a copy of (paint_sticky_header)
Uncovered(at) == {r \in at..(at + ViewRows - 1) : r < Height /\ \A p \in Pinned(at) : r >= p.end}
Copied(at) == UNION {{Top(p.block) + n : n \in {k \in 0..(p.end - p.top - 1) :
                                                  p.top + k \in at..(at + ViewRows - 1)}} : p \in Pinned(at)}

Unseen == [how |-> "none", rows |-> {}, row |-> 0]

-----------------------------------------------------------------------------

ViewInit == /\ pile = <<>> /\ live = FALSE /\ edit = 1 /\ scroll = 0 /\ finding = FALSE /\ seen = Unseen

\* The scroll area after a change of its content: it stays at the end if it was
\* there, unless find is open (stick_to_bottom), and never goes past it.
Sticks == scroll' = IF scroll = End /\ ~finding THEN End' ELSE AtMost(scroll, End')
Shows == seen' = Unseen

\* A submit: the block, and the view at its end; the frames that keep it there
\* (scroll_to_bottom_frames) last until the block is started.
BlockStarts ==
  /\ ~live /\ ~finding /\ Len(pile) < MaxViewBlocks
  /\ \E lines \in CommandRows : pile' = Append(pile, [chip |-> 1, cmd |-> lines, out |-> 0])
  /\ live' = TRUE /\ edit' = 1 /\ UNCHANGED finding
  /\ scroll' = End' /\ Shows

\* Output of a command that runs; of none, it is sealed without a header.
Output ==
  /\ \/ /\ live /\ pile[Len(pile)].out < OutputRows
        /\ pile' = [pile EXCEPT ![Len(pile)].out = @ + 1]
     \/ /\ ~live /\ Len(pile) < MaxViewBlocks
        /\ pile' = Append(pile, [chip |-> 0, cmd |-> 0, out |-> OutputRows])
  /\ UNCHANGED <<live, edit, finding>>
  /\ Sticks /\ Shows

Sealed == /\ live /\ live' = FALSE /\ UNCHANGED <<pile, edit, finding>>
          /\ Sticks /\ Shows

EditLine == /\ ~live /\ ~finding /\ edit' \in (1..MaxEditRows) \ {edit}
            /\ UNCHANGED <<pile, live, finding>>
            /\ Sticks /\ Shows

\* The wheel, and the jumps to either end
Scrolled == /\ scroll' \in {scroll - 1, scroll + 1, 0, End} \cap (0..End) /\ Shows
           /\ UNCHANGED <<pile, live, edit, finding>>

\* A page: the height of the view but for four rows
Page == NotBelow(ViewRows - 4, ViewRows \div 2)

\* Ctrl+PageUp and Ctrl+PageDown
PageKey == /\ \E to \in {scroll - Page, scroll + Page} : scroll' = AtMost(NotBelow(to, 0), End)
           /\ seen' = [how |-> "page", rows |-> Uncovered(scroll), row |-> 0]
           /\ UNCHANGED <<pile, live, edit, finding>>

FindOpens == /\ ~finding /\ finding' = TRUE /\ Shows /\ UNCHANGED <<pile, live, edit, scroll>>
FindCloses == /\ finding /\ finding' = FALSE /\ Shows /\ UNCHANGED <<pile, live, edit, scroll>>

\* Mutant: the header that will be pinned is not minded.
RevealedBare(i, kind, row) ==
  LET at == Top(i) + pile[i].chip + (IF kind = "output" THEN pile[i].cmd ELSE 0) + row
  IN  [row |-> at, top |-> NotBelow(at, 0)]

\* The rectangle that a match is scrolled to: from a header's height above it
\* for output, from itself for a command
Revealed(i, kind, row) ==
  LET at == Top(i) + pile[i].chip + (IF kind = "output" THEN pile[i].cmd ELSE 0) + row
  IN  [row |-> at, top |-> NotBelow(at - (IF kind = "output" THEN StickyRows(pile[i]) ELSE 0), 0)]

\* The jump to a match in a sealed block: scrolled no more than it takes
GoToMatch ==
  /\ finding /\ ViewRows > 0
  /\ \E i \in DOMAIN pile, kind \in {"command", "output"} :
       \E row \in 0..((IF kind = "command" THEN pile[i].cmd ELSE pile[i].out) - 1) :
         LET to == Revealed(i, kind, row)
         IN  /\ ~(live /\ i = Len(pile))
             /\ scroll' = AtMost(End, IF to.top < scroll THEN to.top
                                      ELSE IF to.row >= scroll + ViewRows THEN to.row - ViewRows + 1
                                      ELSE scroll)
             /\ seen' = [how |-> "find", rows |-> {}, row |-> to.row]
  /\ UNCHANGED <<pile, live, edit, finding>>

ViewNext == BlockStarts \/ Output \/ Sealed \/ EditLine \/ Scrolled \/ PageKey
            \/ FindOpens \/ FindCloses \/ GoToMatch
ViewSpec == ViewInit /\ [][ViewNext]_viewVars

-----------------------------------------------------------------------------
\* Properties

\* The pinned header never covers the next block, whose own header takes over
\* (compute_sticky_header: the next block pushes it up).
PinnedClearsTheNext ==
  \A p \in Pinned(scroll) : p.block < Len(pile) => p.end <= Top(p.block + 1)

\* A match that find goes to can be read: in view and not behind the header that
\* the jump pins, or in the header itself.
FoundRowIsVisible == seen.how = "find" => seen.row \in Uncovered(scroll) \cup Copied(scroll)

\* No row is skipped between a page and the next: what is between the rows seen
\* before and those seen now has been seen (Ctrl+PageUp, Ctrl+PageDown).
NoRowSkipped ==
  seen.how = "page" =>
    LET now == Uncovered(scroll)
    IN  \A a \in seen.rows, b \in now :
          \A r \in (a + 1)..(b - 1) \cup (b + 1)..(a - 1) :
            (\E i \in DOMAIN pile : Top(i) <= r /\ r < Bottom(i)) => r \in seen.rows \cup now

\* No row that is paged to or found stays behind the pinned header, and the header
\* never covers the next block (render_pane.rs).
NoRowStaysCovered == PinnedClearsTheNext /\ FoundRowIsVisible /\ NoRowSkipped
=============================================================================
