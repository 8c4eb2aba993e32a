----------------------------- MODULE Selection -----------------------------
\* Selecting and copying the scrollback: the press and drag routing of
\* render_pane.rs, pane_selection.rs, block_selection.rs and selection.rs over
\* sealed blocks painted through reflow.rs and over the live grid. A frame
\* refreshes the reflow cache first and then takes one gesture of the mouse.
EXTENDS Reflow

CONSTANTS
  SelBlocks,   \* what may run: [command |-> rows of its label, output |-> lines it prints]
  SelLinks,    \* links in the output: records [line, from, to], columns from 0
  SelWidths,   \* pane widths, in columns
  SelColumns,  \* columns the pointer is put on
  SelMoves,    \* of "clear", "resize", "grid", "editor", "sticky", "cmd", "shift"
  MaxSealed,   \* bound: blocks ever sealed
  MaxGestures  \* bound: presses, drags, resizes and clears

VARIABLES
  stack,    \* the sealed blocks: [id, command, output]
  running,  \* the command on the live grid, once it has printed, or <<>>
  width,    \* columns of the pane
  cache,    \* PaneUiState::reflow_cache: [cols, count, maps]
  sel,      \* PaneSession::pane_selection, or <<>>
  gsel,     \* PaneSession::selection, or <<>>
  mouse,    \* [count, at, anchor, opened, held]: click_count, last_press_pos,
            \* sealed_drag_anchor, gesture_opened_link, the widget that has the
            \* press: "none", "sealed", "grid" or the pinned label of a block
  units,    \* ghost: the unit first pressed, and the one last under the pointer
  latest,   \* ghost: where the selection begun last is: "none", "sealed" or "grid"
  gestures  \* [n, blocks]
selVars == <<stack, running, width, cache, sel, gsel, mouse, units, latest, gestures>>

\* What the constants are: text is cells, a link is a stretch of a line.
SelAssumption ==
  /\ \A b \in SelBlocks :
      b \in [command : Seq(Seq(STRING \ Spacers)), output : Seq(Seq(STRING \ Spacers))]
  /\ \A l \in SelLinks : l \in [line : Nat, from : Nat, to : Nat]
  /\ SelWidths \subseteq Nat \ {0} /\ SelColumns \subseteq Nat

PastEnd == 99
Cursor(row, col) == [row |-> row, col |-> col]
At(id, c) == [id |-> id, row |-> c.row, col |-> c.col]
Before2(a, b) == a.row < b.row \/ (a.row = b.row /\ a.col <= b.col)
NotAfter(a, b) == a.id < b.id \/ (a.id = b.id /\ Before2(a, b))
Earlier(a, b) == IF Before2(a, b) THEN a ELSE b
Later(a, b) == IF Before2(a, b) THEN b ELSE a
IsWord(c) == c \in {"a", "b", "B", "W"}

-----------------------------------------------------------------------------
\* A block and its rows

BlockOf(id) == CHOOSE b \in ToSet(stack) : b.id = id
Rows(b) == b.command \o b.output
Typed(cells) == Max({0} \cup {i \in DOMAIN cells : ~IsBlank(cells[i])})

\* sealed_row_len: output rows end at their last typed cell; -1 for no such row
RowLen(b, row) ==
  IF row < Len(b.command) THEN Len(b.command[row + 1])
  ELSE IF row < Len(Rows(b)) THEN Typed(Rows(b)[row + 1]) ELSE -1

\* word_range_in_chars, cell_word_range
WordRange(cells, col) ==
  IF col >= Len(cells) \/ ~IsWord(cells[col + 1]) THEN <<col, col>>
  ELSE LET joined(i, j) == \A k \in i..j : IsWord(cells[k + 1])
       IN  <<Min({i \in 0..col : joined(i, col)}),
             1 + Max({j \in col..Len(cells) - 1 : joined(col, j)})>>

\* sealed_word_range and sealed_line_range: <<>> for a row past the end
UnitAt(b, c, clicks) ==
  IF c.row >= Len(Rows(b)) THEN <<>>
  ELSE LET r == IF clicks = 2 THEN WordRange(Rows(b)[c.row + 1], c.col)
                ELSE <<0, RowLen(b, c.row)>>
       IN  <<Cursor(c.row, r[1]), Cursor(c.row, r[2])>>

LinkAt(b, c) ==
  {l \in SelLinks : /\ c.row = Len(b.command) + l.line /\ l.to < Len(Rows(b)[c.row + 1])
                    /\ c.col \in l.from..l.to}

\* ReflowCache::is_current and the refresh at the top of a frame
Current(c) == c.cols = width /\ c.count = Len(stack)
MapsOf(blocks, cols) ==
  [id \in {blocks[i].id : i \in DOMAIN blocks} |->
     Build((CHOOSE b \in ToSet(blocks) : b.id = id).output, cols)]
Refreshed ==
  IF Current(cache) THEN cache
  ELSE [cols |-> width, count |-> Len(stack), maps |-> MapsOf(stack, width)]

\* unified_logical_to_visual and unified_visual_to_logical; without a map the
\* logical rows stand for themselves
ToVisual(maps, b, c) ==
  IF c.row < Len(b.command) \/ b.id \notin DOMAIN maps THEN c
  ELSE LET v == LogicalToVisual(maps[b.id], c.row - Len(b.command), c.col)
       IN  Cursor(Len(b.command) + v.row, v.col)
VisualRows(maps, b) ==
  IF b.id \in DOMAIN maps THEN LET rows == maps[b.id].rows IN [r \in DOMAIN rows |-> rows[r].cells]
  ELSE b.output

\* sealed_cursor_for_pos, and the clamp to the row that follows it
CursorAt(maps, b, row, col) ==
  LET total == Len(b.command) + Len(VisualRows(maps, b))
      r == IF b.id \in DOMAIN maps THEN Min({row, Max({0, total - 1})}) ELSE row
      l == VisualToLogical(maps[b.id], r - Len(b.command), col)
      c == IF r < Len(b.command) \/ b.id \notin DOMAIN maps THEN Cursor(r, col)
           ELSE Cursor(Len(b.command) + l.line, l.col)
  IN  IF RowLen(b, c.row) < 0 THEN c ELSE [c EXCEPT !.col = Min({@, RowLen(b, c.row)})]

\* Where a pointer can be over the blocks, painted from the cache of the frame
Spots ==
  {[at |-> "in", i |-> i, row |-> r, col |-> c] :
     i \in DOMAIN stack, r \in 0..2, c \in SelColumns}
  \cup {[at |-> a, i |-> i, row |-> 0, col |-> 0] : a \in {"gap"}, i \in 1..Len(stack) - 1}
  \cup {[at |-> a, i |-> 1, row |-> 0, col |-> 0] : a \in {"above", "below"}}
OnBlock(s) == /\ s.at = "in" /\ s.col <= width
              /\ s.row < Len(stack[s.i].command) + Len(VisualRows(cache'.maps, stack[s.i]))

\* find_head_block_for_pos
HeadAt(s) ==
  LET end(b) == At(b.id, Cursor(Max({0, Len(Rows(b)) - 1}), PastEnd))
  IN  CASE s.at = "above" -> At(stack[1].id, Cursor(0, 0))
        [] s.at = "below" -> end(Last(stack))
        [] s.at = "gap"   -> end(stack[s.i])
        [] s.at = "in"    -> At(stack[s.i].id, CursorAt(cache'.maps, stack[s.i], s.row, s.col))

-----------------------------------------------------------------------------
\* PaneSelection

BothEnds(s) == IF NotAfter(s.anchor, s.head) THEN <<s.anchor, s.head>> ELSE <<s.head, s.anchor>>

\* block_range_for
RangeFor(s, b) ==
  LET o == BothEnds(s)
  IN  IF s.anchor = s.head \/ b.id < o[1].id \/ b.id > o[2].id THEN <<>>
      ELSE <<IF b.id = o[1].id THEN Cursor(o[1].row, o[1].col) ELSE Cursor(0, 0),
             IF b.id = o[2].id THEN Cursor(o[2].row, o[2].col)
             ELSE Cursor(Max({0, Len(Rows(b)) - 1}), PastEnd)>>

\* Mutant: an upward drag keeps the start of the first unit.
EndpointsFromStart(anchor, head) ==
  IF anchor.id = head.id
    THEN <<At(anchor.id, Earlier(anchor.a, head.a)), At(anchor.id, Later(anchor.b, head.b))>>
    ELSE IF head.id > anchor.id THEN <<At(anchor.id, anchor.a), At(head.id, head.b)>>
    ELSE <<At(anchor.id, anchor.a), At(head.id, head.a)>>

\* extend_multiclick_selection_endpoints: the far edge of each unit
Endpoints(anchor, head) ==
  IF anchor.id = head.id
    THEN <<At(anchor.id, Earlier(anchor.a, head.a)), At(anchor.id, Later(anchor.b, head.b))>>
    ELSE IF head.id > anchor.id THEN <<At(anchor.id, anchor.a), At(head.id, head.b)>>
    ELSE <<At(anchor.id, anchor.b), At(head.id, head.a)>>

\* The columns of a row that a range covers, as copying and painting both cut it
Covered(row, cells, from, to) ==
  IF row < from.row \/ row > to.row THEN <<>>
  ELSE SubSeq(cells, 1 + (IF row = from.row THEN from.col ELSE 0),
              IF row = to.row THEN Min({to.col, Len(cells)}) ELSE Len(cells))

\* The characters that show, of some cells
Ink(cells) == Keep(cells, {i \in DOMAIN cells : ~IsBlank(cells[i])})

\* block_selection_text, without the blanks: what is copied of a block
CopiedOf(b) ==
  LET r == RangeFor(sel, b)
  IN  IF sel = <<>> \/ r = <<>> THEN <<>>
      ELSE FlattenSeq([k \in DOMAIN Rows(b) |-> Ink(Covered(k - 1, Rows(b)[k], r[1], r[2]))])

\* pane_selection_text
Copied == FlattenSeq([i \in DOMAIN stack |-> CopiedOf(stack[i])])

\* paint_sealed_block, split_selection_at_row, paint_block_selection_overlay
HighlightedOf(maps, b) ==
  LET r == RangeFor(sel, b)
      rows == b.command \o VisualRows(maps, b)
  IN  IF sel = <<>> \/ r = <<>> THEN <<>>
      ELSE FlattenSeq([k \in DOMAIN rows |->
             Ink(Covered(k - 1, rows[k], ToVisual(maps, b, r[1]), ToVisual(maps, b, r[2])))])
Highlighted ==
  LET maps == Refreshed.maps IN FlattenSeq([i \in DOMAIN stack |-> HighlightedOf(maps, stack[i])])

-----------------------------------------------------------------------------
\* The live grid: inclusive points, in a mode of their own

Printed == IF running = <<>> THEN <<>> ELSE running[1].output
LiveRows == LET rows == GridRows(Printed, width) IN [r \in DOMAIN rows |-> rows[r].cells]
GridCells(row) == IF row < Len(LiveRows) THEN LiveRows[row + 1] ELSE <<>>
GridBounds(p, mode) ==
  IF mode = 1 THEN <<p, p>>
  ELSE IF mode = 3 THEN <<Cursor(p.row, 0), Cursor(p.row, width - 1)>>
  ELSE LET r == WordRange(GridCells(p.row), p.col)
       IN  <<Cursor(p.row, r[1]), Cursor(p.row, Max({r[1], r[2] - 1}))>>

\* effective_range, union_of_ranges
GridRange ==
  LET a == GridBounds(gsel.anchor, gsel.mode)
      h == GridBounds(gsel.head, gsel.mode)
  IN  <<Earlier(a[1], h[1]), Later(a[2], h[2])>>

\* selection_text
GridCopied ==
  IF gsel = <<>> \/ (gsel.mode = 1 /\ gsel.anchor = gsel.head) THEN <<>>
  ELSE FlattenSeq([r \in DOMAIN LiveRows |->
         Ink(Covered(r - 1, LiveRows[r], GridRange[1], [GridRange[2] EXCEPT !.col = @ + 1]))])

\* Copy: the sealed selection's text, else the grid's
CopyYields == IF Copied # <<>> THEN Copied ELSE GridCopied

-----------------------------------------------------------------------------
\* Gestures

SelInit ==
  /\ stack = <<>> /\ running = <<>> /\ width \in SelWidths
  /\ cache = [cols |-> 0, count |-> 0, maps |-> MapsOf(<<>>, 0)]
  /\ sel = <<>> /\ gsel = <<>>
  /\ mouse = [count |-> 0, at |-> <<>>, anchor |-> <<>>, opened |-> FALSE, held |-> <<"none">>]
  /\ units = <<>> /\ latest = "none"
  /\ gestures = [n |-> 0, blocks |-> 0]

\* A second or third click on the same spot counts as one gesture with the first.
Gesture == gestures.n < MaxGestures /\ gestures' = [gestures EXCEPT !.n = @ + 1]
Press(quick) == IF quick THEN UNCHANGED gestures ELSE Gesture

\* set_pane_selection
Select(id, a, b) == sel' = [anchor |-> At(id, a), head |-> At(id, b)] /\ gsel' = <<>>

\* bump_multi_click: the same spot again, in time, is one click more
Clicks(where, quick) ==
  IF quick /\ mouse.at = <<where>> THEN Min({mouse.count + 1, 3}) ELSE 1

\* A press on a sealed block, or on its pinned label, begins a selection there
\* unless it opens a link.
Begin(b, c, where, holder, quick, cmd) ==
  LET link == LinkAt(b, c)
      linked == CHOOSE l \in link : TRUE
      n == Clicks(where, quick)
      unit == IF n = 2 /\ link # {}
                THEN <<Cursor(c.row, linked.from), Cursor(c.row, linked.to + 1)>>
                ELSE UnitAt(b, c, n)
      u == [id |-> b.id, a |-> unit[1], b |-> unit[2]]
      pressed == [count |-> n, at |-> <<where>>, anchor |-> mouse.anchor, opened |-> FALSE, held |-> holder]
  IN  IF cmd /\ link # {}
        THEN /\ mouse' = [mouse EXCEPT !.opened = TRUE, !.held = holder]
             /\ UNCHANGED <<sel, gsel, units, latest>>
        ELSE IF n = 1
        THEN /\ Select(b.id, c, c) /\ mouse' = [pressed EXCEPT !.anchor = <<>>]
             /\ units' = <<>> /\ latest' = "sealed"
        ELSE IF unit = <<>> THEN mouse' = pressed /\ UNCHANGED <<sel, gsel, units, latest>>
        ELSE /\ Select(b.id, u.a, u.b) /\ mouse' = [pressed EXCEPT !.anchor = <<u>>]
             /\ units' = <<u, u>> /\ latest' = "sealed"

\* A drag, or a press with Shift, moves the head; after a double or triple
\* click both ends move to keep whole units.
Extend(head) ==
  /\ gsel' = gsel
  /\ IF mouse.count \in {2, 3} /\ mouse.anchor # <<>>
       THEN LET u == UnitAt(BlockOf(head.id), Cursor(head.row, head.col), mouse.count)
                h == [id |-> head.id, a |-> u[1], b |-> u[2]]
                e == Endpoints(mouse.anchor[1], h)
            IN  IF u = <<>> THEN UNCHANGED <<sel, units>>
                ELSE sel' = [anchor |-> e[1], head |-> e[2]] /\ units' = <<units[1], h>>
       ELSE sel' = [sel EXCEPT !.head = head] /\ UNCHANGED units

\* Every frame that takes a gesture refreshed the cache first.
Repaint == cache' = Refreshed /\ UNCHANGED <<stack, running, width>>

Shifted(shift, s) == shift => "shift" \in SelMoves /\ s # <<>>
Quick(quick, where) == quick => mouse.at = <<where>>
Extending(holder) == /\ mouse' = [mouse EXCEPT !.opened = FALSE, !.held = holder]
                     /\ UNCHANGED latest

PressSealed ==
  \E s \in Spots, shift, quick, cmd \in BOOLEAN :
    /\ ~(shift /\ quick) /\ (cmd => "cmd" \in SelMoves /\ ~shift /\ ~quick)
    /\ s.at = "in" /\ Shifted(shift, sel) /\ Quick(quick, s) /\ Press(quick)
    /\ Repaint /\ OnBlock(s)
    /\ IF shift THEN Extend(HeadAt(s)) /\ Extending(<<"sealed">>)
       ELSE Begin(stack[s.i], CursorAt(cache'.maps, stack[s.i], s.row, s.col), s, <<"sealed">>, quick, cmd)

\* The drag goes on wherever the pointer is, for as long as the press holds.
DragSealed ==
  /\ Gesture /\ mouse.held = <<"sealed">> /\ stack # <<>>
  /\ \E s \in Spots :
      /\ Repaint /\ (s.at = "in" => OnBlock(s))
      /\ ~mouse.opened /\ sel # <<>> /\ Extend(HeadAt(s))
      /\ UNCHANGED <<mouse, latest>>

\* A press on the pinned copy of a command label; its drags stay in the label.
PinnedCursor(b, row, col) == CursorAt(cache'.maps, b, Min({row, Len(b.command) - 1}), col)

PressSticky ==
  \E b \in ToSet(stack), row \in 0..1, col \in SelColumns, shift, quick \in BOOLEAN :
    LET where == [at |-> "pinned", i |-> b.id, row |-> row, col |-> col]
        c == PinnedCursor(b, row, col)
    IN  /\ "sticky" \in SelMoves /\ Shifted(shift, sel) /\ ~(shift /\ quick)
        /\ Quick(quick, where) /\ Press(quick) /\ row < Len(b.command) /\ Repaint
        /\ IF shift THEN Extend(At(b.id, c)) /\ Extending(<<"pinned", b.id>>)
           ELSE Begin(b, c, where, <<"pinned", b.id>>, quick, FALSE)

DragSticky ==
  /\ Gesture
  /\ \E b \in ToSet(stack), row \in 0..2, col \in SelColumns :
      /\ mouse.held = <<"pinned", b.id>> /\ Repaint
      /\ sel # <<>> /\ Extend(At(b.id, PinnedCursor(b, row, col)))
      /\ UNCHANGED <<mouse, latest>>

\* A press in the editor ends the sealed selection and leaves the grid's.
PressEditor ==
  /\ "editor" \in SelMoves /\ Gesture /\ Repaint
  /\ sel' = <<>> /\ units' = <<>> /\ latest' = IF latest = "sealed" THEN "none" ELSE latest
  /\ mouse' = [mouse EXCEPT !.count = 1, !.at = <<>>, !.anchor = <<>>, !.held = <<"editor">>]
  /\ UNCHANGED gsel

PressGrid ==
  \E row \in 0..1, col \in SelColumns, shift, quick \in BOOLEAN :
    LET p == Cursor(row, col)
        where == [at |-> "grid", i |-> 1, row |-> row, col |-> col]
        n == Clicks(where, quick)
    IN  /\ "grid" \in SelMoves /\ Shifted(shift, gsel) /\ ~(shift /\ quick)
        /\ Quick(quick, where) /\ Press(quick) /\ row < Len(LiveRows) /\ col < width /\ Repaint
        /\ IF shift
             THEN gsel' = [gsel EXCEPT !.head = p] /\ Extending(<<"grid">>) /\ UNCHANGED <<sel, units>>
             ELSE /\ gsel' = [anchor |-> p, head |-> p, mode |-> n]
                  /\ sel' = <<>> /\ units' = <<>> /\ latest' = "grid"
                  /\ mouse' = [mouse EXCEPT !.count = n, !.at = <<where>>, !.opened = FALSE, !.held = <<"grid">>]

DragGrid ==
  /\ Gesture
  /\ \E row \in 0..1, col \in SelColumns :
      /\ mouse.held = <<"grid">> /\ row < Len(LiveRows) /\ col < width /\ Repaint
      /\ gsel # <<>> /\ ~mouse.opened
      /\ gsel' = [gsel EXCEPT !.head = Cursor(row, col)]
      /\ UNCHANGED <<sel, mouse, units, latest>>

Release == /\ mouse.held # <<"none">> /\ mouse' = [mouse EXCEPT !.held = <<"none">>]
           /\ UNCHANGED <<stack, running, width, cache, sel, gsel, units, latest, gestures>>

-----------------------------------------------------------------------------
\* What goes on around them

\* A command prints; it ends and its block is sealed.
CommandPrints == /\ running = <<>> /\ gestures.blocks < MaxSealed
                 /\ \E b \in SelBlocks : running' = <<b>>
                 /\ UNCHANGED <<stack, width, cache, sel, gsel, mouse, units, latest, gestures>>

SealBlock ==
  /\ running # <<>> /\ gestures.blocks < MaxSealed
  /\ stack' = Append(stack, [id |-> gestures.blocks + 1, command |-> running[1].command,
                              output |-> Unwrap(SnapshotLinesAll(GridRows(Printed, width)))])
  /\ running' = <<>> /\ gestures' = [gestures EXCEPT !.blocks = @ + 1]
  /\ UNCHANGED <<width, cache, sel, gsel, mouse, units, latest>>

\* A frame with nothing to do
Idle == /\ ~Current(cache) /\ Repaint /\ UNCHANGED <<sel, gsel, mouse, units, latest, gestures>>

Resize == /\ "resize" \in SelMoves /\ Gesture
          /\ \E w \in SelWidths \ {width} : width' = w
          /\ UNCHANGED <<stack, running, cache, sel, gsel, mouse, units, latest>>

\* Cmd+K, late in a frame: the selection keeps its endpoints in blocks that went.
ClearScrollback ==
  /\ "clear" \in SelMoves /\ Gesture
  /\ cache' = Refreshed
  /\ stack' = <<>> /\ running' = [i \in DOMAIN running |-> [running[i] EXCEPT !.output = <<>>]]
  /\ UNCHANGED <<width, sel, gsel, mouse, units, latest>>

SelNext == PressSealed \/ DragSealed \/ PressSticky \/ DragSticky \/ PressEditor \/ PressGrid \/ DragGrid \/ Release
           \/ CommandPrints \/ SealBlock \/ Idle \/ Resize \/ ClearScrollback
SelSpec == SelInit /\ [][SelNext]_selVars

-----------------------------------------------------------------------------
\* Properties

\* What copying yields is what the highlight shows, at every pane width: the
\* same characters in the same order, cut at the same places.
HighlightIsCopied == sel # <<>> => Highlighted = Copied

\* After a double or triple click the selection holds the unit first pressed
\* and the unit last under the pointer, whichever way and however far it went.
WholeUnitsStaySelected ==
  units # <<>> /\ sel # <<>> =>
    \A u \in ToSet(units) : /\ NotAfter(BothEnds(sel)[1], At(u.id, u.a))
                            /\ NotAfter(At(u.id, u.b), BothEnds(sel)[2])

\* Copying takes the selection that was begun last, of the two that can be.
CopyIsOfTheLastSelection ==
  /\ latest = "sealed" => CopyYields = Copied
  /\ latest = "grid" => CopyYields = GridCopied

\* What is sealed holds what was printed, whatever the width it was printed
\* at; any width it is shown at and a chunk on disk give the same lines back,
\* a cursor finds its way there and back, a match lights up its own characters,
\* and a damaged chunk is refused.
Survives(b, printed) ==
  LET typed(line) == SubSeq(line, 1, Typed(line))
      chunk == EncodeChunk(b.output)
  IN  /\ \A n \in DOMAIN b.output : typed(b.output[n]) = typed(printed[n])
      /\ \A n \in DOMAIN printed : Typed(printed[n]) > 0 => n \in DOMAIN b.output
      /\ \A w \in SelWidths :
           LET map == Build(b.output, w)
           IN  /\ Unwrap(map.rows) = b.output
               /\ \A n \in DOMAIN b.output : \A c \in 0..Len(b.output[n]) :
                    LET v == LogicalToVisual(map, n - 1, c)
                    IN  VisualToLogical(map, v.row, v.col) = [line |-> n - 1, col |-> c]
               /\ \A n \in DOMAIN b.output : \A c \in 1..Len(b.output[n]) : \A d \in 0..c - 1 :
                    LET segments == Segments(map, n - 1, d, c)
                        cells(s) == SubSeq(map.rows[s.row + 1].cells, s.start + 1, s.stop)
                        lit == FlattenSeq([k \in DOMAIN segments |-> cells(segments[k])])
                    IN  Text(lit) = SubSeq(b.output[n], d + 1, c)
      /\ DecodeChunk(chunk) = [ok |-> TRUE, lines |-> b.output]
      /\ \A cut \in 0..Len(chunk) - 1 :
           LET d == DecodeChunk(SubSeq(chunk, 1, cut))
           IN  d.ok => d.lines = SubSeq(b.output, 1, Len(d.lines)) /\ Len(d.lines) < Len(b.output)
      /\ \A i \in DOMAIN chunk :
           i > 2 /\ "style" \in DOMAIN chunk[Min({i + 1, Len(chunk)})] /\ "num" \in DOMAIN chunk[i]
             => ~DecodeChunk([chunk EXCEPT ![i].num = @ + 1]).ok
SealSurvives == Len(stack') > Len(stack) => Survives(Last(stack'), Printed)
TextSurvives == [][SealSurvives]_stack

\* The cache a frame paints from has a map for every block it paints.
CacheFollowsBlocks == \A b \in ToSet(stack) : b.id \in DOMAIN Refreshed.maps
=============================================================================
