----------------------------- MODULE PromptEditor ---------------------------
(***************************************************************************)
(* The editor at the prompt (src/prompt_editor.rs) with the keys and mouse *)
(* gestures that reach it (src/render_pane.rs) and the history walk of the *)
(* bare arrows (src/history/recall.rs).                                    *)
(*                                                                         *)
(* Text is its bytes: "w" a word character, "s" a separator, "n" a newline,*)
(* "L" and "C" the two bytes of a longer word character.  Carets are byte  *)
(* indices from 0, as in the code.                                         *)
(***************************************************************************)
EXTENDS Integers, Sequences, FiniteSets, SequencesExt, FiniteSetsExt, Sublist

CONSTANTS
  EditorKeys,    \* what the user does, see EditorNext
  EditorTexts,   \* what is pasted, or was run before
  MaxEdits       \* bound: how many things the user does

\* A text is a Rust string: the second byte of a character follows its first.
\* "x" is a control character.
WellFormed(t) == \A i \in 1..Len(t) : t[i] = "C" => i > 1 /\ t[i - 1] = "L"
ASSUME EditorAssumption ==
  \A t \in EditorTexts : t \in Seq({"w", "s", "n", "L", "C", "x"}) /\ WellFormed(t)

VARIABLES
  ed,      \* PromptEditor: text, cursor, selection_anchor and the UndoStack
  walk,    \* RecallState
  grip,    \* PaneUiState: click_count and editor_drag_anchor
  past,    \* the pane's runs, newest first
  edits,   \* bound: see MaxEdits
  span     \* history: the text the session began with, and the last one edited

editorVars == <<ed, walk, grip, past, edits, span>>

None == -1
Chars == {<<"w">>, <<"s">>, <<"n">>, <<"L", "C">>}

NewEditor == [text |-> <<>>, cur |-> 0, anc |-> None, undo |-> <<>>, redo |-> <<>>, last |-> "none"]
NotWalking == [saved |-> <<>>, caret |-> 0, cached |-> <<>>, at |-> 0]

-----------------------------------------------------------------------------
\* Positions

IsBoundary(t, i) == i \in 0..Len(t) /\ (i < Len(t) => t[i + 1] # "C")
Boundaries(t) == {i \in 0..Len(t) : IsBoundary(t, i)}
Clamped(t, i) == Max({k \in Boundaries(t) : k <= i})
PrevBoundary(t, i) == Max({k \in Boundaries(t) : k < i} \cup {0})
NextBoundary(t, i) == Min({k \in Boundaries(t) : k > i} \cup {Len(t)})

Word == {"w", "L", "C"}
Sep == {"s", "n"}
\* As far back, or forward, from i as the bytes are of one class
Back(t, i, class) == Min({k \in 0..i : \A j \in k + 1..i : t[j] \in class})
Ahead(t, i, class) == Max({k \in i..Len(t) : \A j \in i + 1..k : t[j] \in class})

WordLeft(t, i) == Back(t, Back(t, i, Sep), Word)
WordRight(t, i) == Ahead(t, Ahead(t, i, Sep), Word)
LineStart(t, i) == Back(t, i, Word \cup {"s"})
LineEnd(t, i) == Ahead(t, i, Word \cup {"s"})

WordRangeAt(t, i) == <<Back(t, i, Word), Ahead(t, i, Word)>>
LineRangeAt(t, i) == <<LineStart(t, i), Min({LineEnd(t, i) + 1, Len(t)})>>

\* cursor_row_col_chars, byte_index_for_row_col
RowOf(t, i) == Cardinality({k \in 1..i : t[k] = "n"})
ColOf(t, i) == Cardinality({k \in Boundaries(t) : k > LineStart(t, i) /\ k <= i})
IndexAt(t, row, col) ==
  LET line == {k \in Boundaries(t) : RowOf(t, k) = row}
  IN  Max({k \in line : ColOf(t, k) <= col})

-----------------------------------------------------------------------------
\* The undo stack

Snapshot(e) == [text |-> e.text, cur |-> e.cur, anc |-> e.anc]
At(e, shot) == [e EXCEPT !.text = shot.text, !.cur = shot.cur, !.anc = shot.anc]

\* Mutant: a new edit leaves the redo stack alone.
RecordedKeepsRedo(e, kind, pre) ==
  IF kind # "other" /\ e.last = kind THEN e
  ELSE [e EXCEPT !.undo = Append(@, pre), !.last = kind]

\* Single characters of one kind share an entry.
Recorded(e, kind, pre) ==
  IF kind # "other" /\ e.last = kind THEN e
  ELSE [e EXCEPT !.undo = Append(@, pre), !.redo = <<>>, !.last = kind]

Undone(e) ==
  IF e.undo = <<>> THEN e
  ELSE [At(e, Last(e.undo)) EXCEPT !.undo = Front(@), !.redo = Append(@, Snapshot(e)),
                                   !.last = "none"]
Redone(e) ==
  IF e.redo = <<>> THEN e
  ELSE [At(e, Last(e.redo)) EXCEPT !.redo = Front(@), !.undo = Append(@, Snapshot(e)),
                                   !.last = "none"]

-----------------------------------------------------------------------------
\* Edits

Splice(t, from, to, s) == SubSeq(t, 1, from) \o s \o SubSeq(t, to + 1, Len(t))

HasSelection(e) == e.anc # None /\ e.anc # e.cur
SelectionStart(e) == Min({e.anc, e.cur})
SelectionEnd(e) == Max({e.anc, e.cur})

\* Mutant: an anchor under the caret is left behind.
DeletedSelectionOnly(e) ==
  IF HasSelection(e)
    THEN [e EXCEPT !.text = Splice(@, SelectionStart(e), SelectionEnd(e), <<>>),
                   !.cur = SelectionStart(e), !.anc = None]
    ELSE e

\* An anchor under the caret goes even though nothing is selected.
DeletedSelection(e) ==
  IF HasSelection(e)
    THEN [e EXCEPT !.text = Splice(@, SelectionStart(e), SelectionEnd(e), <<>>),
                   !.cur = SelectionStart(e), !.anc = None]
    ELSE [e EXCEPT !.anc = None]

Typed(e, c) ==
  LET d == DeletedSelection(e)
  IN  Recorded([d EXCEPT !.text = Splice(@, d.cur, d.cur, c), !.cur = @ + Len(c)],
               IF HasSelection(e) THEN "other" ELSE "type", Snapshot(e))

\* Control characters, "x", are dropped on the way in; dropping them all still
\* makes an entry.
Pasted(e, s) ==
  LET d == DeletedSelection(e)
      kept == Keep(s, {i \in 1..Len(s) : s[i] # "x"})
  IN  Recorded([d EXCEPT !.text = Splice(@, d.cur, d.cur, kept), !.cur = @ + Len(kept)],
               "other", Snapshot(e))

\* What backspace, delete and their kin share: the selection goes, or else
\* the range does and the caret is left where it began.
Deleted(e, from, to, kind) ==
  LET d == DeletedSelection(e)
  IN  CASE HasSelection(e) -> Recorded(d, "other", Snapshot(e))
        [] ~HasSelection(e) /\ from = to -> d
        [] OTHER -> Recorded([d EXCEPT !.text = Splice(@, from, to, <<>>), !.cur = from],
                             kind, Snapshot(e))

DeletedBy(e, key) ==
  CASE key = "backspace"   -> Deleted(e, PrevBoundary(e.text, e.cur), e.cur, "backspace")
    [] key = "delete"      -> Deleted(e, e.cur, NextBoundary(e.text, e.cur), "delete")
    [] key = "word_left"   -> Deleted(e, WordLeft(e.text, e.cur), e.cur, "other")
    [] key = "word_right"  -> Deleted(e, e.cur, WordRight(e.text, e.cur), "other")
    [] key = "line_start"  ->
         Deleted(e, Min({LineStart(e.text, e.cur), PrevBoundary(e.text, e.cur)}),
                 e.cur, "other")

Transposed(e) ==
  LET mid == CASE e.cur = 0           -> NextBoundary(e.text, 0)
               [] e.cur >= Len(e.text) -> PrevBoundary(e.text, Len(e.text))
               [] OTHER               -> e.cur
      a == PrevBoundary(e.text, mid)
      c == NextBoundary(e.text, mid)
      left == SubSeq(e.text, a + 1, mid)
      right == SubSeq(e.text, mid + 1, c)
  IN  IF a >= mid \/ mid >= c \/ <<"n">> \in {left, right} THEN e
      ELSE Recorded([e EXCEPT !.text = Splice(@, a, c, right \o left), !.cur = c, !.anc = None],
                    "other", Snapshot(e))

CutOut(e) == IF HasSelection(e) THEN Recorded(DeletedSelection(e), "other", Snapshot(e)) ELSE e

Cleared(e) ==
  LET c == [e EXCEPT !.text = <<>>, !.cur = 0, !.anc = None]
  IN  IF e.text = <<>> /\ e.anc = None THEN c ELSE Recorded(c, "other", Snapshot(e))

\* replace_editor_buffer, and the history walk
Replaced(e, s) == Pasted(Cleared(e), s)

-----------------------------------------------------------------------------
\* Moves and selections: they end the run of single characters

Moved(e, to, extend) ==
  [e EXCEPT !.anc = CASE ~extend               -> None
                      [] extend /\ @ = None    -> e.cur
                      [] OTHER                 -> @,
            !.cur = to, !.last = "none"]

Selected(e, anchor, head) ==
  [e EXCEPT !.anc = IF anchor = head THEN None ELSE anchor, !.cur = head, !.last = "none"]

Motion(e, key) ==
  CASE key = "left"      -> PrevBoundary(e.text, e.cur)
    [] key = "right"     -> NextBoundary(e.text, e.cur)
    [] key = "word<"     -> WordLeft(e.text, e.cur)
    [] key = "word>"     -> WordRight(e.text, e.cur)
    [] key = "home"      -> LineStart(e.text, e.cur)
    [] key = "end"       -> LineEnd(e.text, e.cur)
    [] key = "doc<"      -> 0
    [] key = "doc>"      -> Len(e.text)

\* move_up and move_down do not end the run.
Rowed(e, row) ==
  [e EXCEPT !.cur = IndexAt(e.text, row, ColOf(e.text, e.cur)), !.anc = None]

Pressed(e, i, count) ==
  LET word == WordRangeAt(e.text, i)
      line == LineRangeAt(e.text, i)
  IN  CASE count = 1 -> Moved(e, i, FALSE)
        [] count = 2 -> IF word[1] = word[2] THEN Moved(e, i, FALSE)
                        ELSE Selected(e, word[1], word[2])
        [] count = 3 -> [e EXCEPT !.anc = line[1], !.cur = line[2], !.last = "none"]

\* By character, or by the word or line first pressed, whose bytes may be stale
Stretched(e, i, g) ==
  LET now == IF g.count = 2 THEN WordRangeAt(e.text, i) ELSE LineRangeAt(e.text, i)
  IN  IF g.count = 1 THEN Moved(e, i, TRUE)
      ELSE Selected(e, Clamped(e.text, Min({g.range[1], now[1]})),
                       Clamped(e.text, Max({g.range[2], now[2]})))

-----------------------------------------------------------------------------
\* The walk through history

Walking(w) == w.at > 0

\* step_back: the first step saves the buffer and drops an entry equal to it.
SteppedBack(w, e) ==
  LET list == IF past # <<>> /\ past[1] = e.text THEN Tail(past) ELSE past
  IN  CASE Walking(w)                      -> [w EXCEPT !.at = Min({@ + 1, Len(w.cached)})]
        [] ~Walking(w) /\ list = <<>>      -> [w EXCEPT !.saved = <<>>, !.cached = <<>>]
        [] OTHER -> [saved |-> e.text, caret |-> e.cur, cached |-> list, at |-> 1]

Recalled(e, w, w1) ==
  IF w1.at = w.at THEN e ELSE Replaced(e, w1.cached[w1.at])

\* step_forward, and past the newest entry the saved buffer and caret
SteppedForward(w) ==
  IF w.at <= 1 THEN NotWalking ELSE [w EXCEPT !.at = @ - 1]
Returned(e, w) == Moved(Replaced(e, w.saved), Clamped(w.saved, w.caret), FALSE)

-----------------------------------------------------------------------------
EditorInit ==
  /\ \E t \in EditorTexts : past = <<t>> /\ ed \in {NewEditor, Pasted(NewEditor, t)}
  /\ walk = NotWalking
  /\ grip = [count |-> 1, range |-> <<0, 0>>]
  /\ edits = 0
  /\ span = [from |-> <<>>, to |-> ed.text]

\* One gesture: the editor after it, and whether it changed the text by editing
Did(e) ==
  /\ edits < MaxEdits /\ edits' = edits + 1
  /\ ed' = e
Edited(e) == Did(e) /\ span' = IF Len(e.undo) > Len(ed.undo) \/ e.text # ed.text
                                 THEN [span EXCEPT !.to = e.text] ELSE span
Uses(key) == key \in EditorKeys

Abandon == walk' = NotWalking
Same == UNCHANGED <<grip, past>>

\* The keys that edit leave the walk.
Type ==
  /\ Uses("type")
  /\ \E c \in Chars : Edited(Typed(ed, c)) /\ Abandon /\ Same
Paste ==
  /\ Uses("paste")
  /\ \E s \in EditorTexts \cup {<<"x">>} : Edited(Pasted(ed, s)) /\ Abandon /\ Same
Delete ==
  \E key \in {"backspace", "delete", "word_left", "word_right", "line_start"} :
    Uses(key) /\ Edited(DeletedBy(ed, key)) /\ Abandon /\ Same
Transpose == Uses("transpose") /\ Edited(Transposed(ed)) /\ Abandon /\ Same
Undo == Uses("undo") /\ Did(Undone(ed)) /\ Abandon /\ Same /\ UNCHANGED span
Redo == Uses("undo") /\ Did(Redone(ed)) /\ Abandon /\ Same /\ UNCHANGED span

\* Cut and an entry picked in the history overlay edit and leave the walk alone.
Cut == Uses("cut") /\ Edited(CutOut(ed)) /\ UNCHANGED walk /\ Same
Pick ==
  /\ Uses("pick")
  /\ \E s \in EditorTexts : Edited(Replaced(ed, s)) /\ UNCHANGED walk /\ Same

Move ==
  \E key \in {"left", "right", "word<", "word>", "home", "end", "doc<", "doc>"},
     extend \in {FALSE} \cup ({TRUE} \cap {Uses("extend")}) :
    /\ Uses(key)
    /\ Did(Moved(ed, Motion(ed, key), extend)) /\ UNCHANGED <<walk, span>> /\ Same
SelectAll ==
  /\ Uses("select_all")
  /\ ed.text # <<>>
  /\ Did(Selected(ed, 0, Len(ed.text))) /\ UNCHANGED <<walk, span>> /\ Same

\* The pointer is on a byte of the text, whatever character that splits.
Press ==
  /\ Uses("mouse")
  /\ \E b \in 0..Len(ed.text), count \in 1..3 :
       LET i == Clamped(ed.text, b)
       IN  /\ Did(Pressed(ed, i, count))
           /\ grip' = [count |-> count,
                       range |-> CASE count = 1 -> <<0, 0>>
                                   [] count = 2 -> WordRangeAt(ed.text, i)
                                   [] count = 3 -> LineRangeAt(ed.text, i)]
  /\ UNCHANGED <<walk, span, past>>
Stretch ==
  /\ Uses("mouse")
  /\ \E b \in 0..Len(ed.text) : Did(Stretched(ed, Clamped(ed.text, b), grip))
  /\ UNCHANGED <<walk, span>> /\ Same

\* The bare arrows move by rows, and beyond the first or last one walk.
Up ==
  /\ Uses("arrows")
  /\ IF RowOf(ed.text, ed.cur) > 0
       THEN Did(Rowed(ed, RowOf(ed.text, ed.cur) - 1)) /\ UNCHANGED <<walk, span>>
       ELSE LET w1 == SteppedBack(walk, ed)
            IN  Edited(Recalled(ed, walk, w1)) /\ walk' = w1
  /\ Same
Down ==
  /\ Uses("arrows")
  /\ IF RowOf(ed.text, ed.cur) < RowOf(ed.text, Len(ed.text))
       THEN Did(Rowed(ed, RowOf(ed.text, ed.cur) + 1)) /\ UNCHANGED <<walk, span>>
       ELSE /\ walk' = SteppedForward(walk)
            /\ Edited(CASE walk.at = 0 -> ed
                        [] walk.at = 1 -> Returned(ed, walk)
                        [] OTHER       -> Recalled(ed, walk, walk'))
  /\ Same

\* submit_editor_command; a shell that wants more gives the text back with a
\* new line, and only a command that runs becomes history.
Emptied(e) == [Cleared(e) EXCEPT !.undo = <<>>, !.redo = <<>>, !.last = "none"]
Submit ==
  /\ Uses("submit")
  /\ Did(Emptied(ed)) /\ Abandon /\ UNCHANGED grip
  /\ past' = <<ed.text>> \o past
  /\ span' = [from |-> <<>>, to |-> <<>>]
SubmitContinues ==
  /\ Uses("submit")
  /\ LET e == Typed(Pasted(Cleared(Emptied(ed)), ed.text), <<"n">>)
     IN  Did(e) /\ span' = [from |-> <<>>, to |-> e.text]
  /\ Abandon /\ Same

EditorNext ==
  \/ Type \/ Paste \/ Delete \/ Transpose \/ Undo \/ Redo \/ Cut \/ Pick
  \/ Move \/ SelectAll \/ Press \/ Stretch \/ Up \/ Down \/ Submit \/ SubmitContinues

EditorSpec == EditorInit /\ [][EditorNext]_editorVars

-----------------------------------------------------------------------------
\* Properties

EditorTypeOK ==
  /\ ed.last \in {"none", "type", "backspace", "delete", "other"}
  /\ walk.at \in 0..Len(walk.cached)
  /\ grip.count \in 1..3
  /\ edits \in 0..MaxEdits

\* The caret and the anchor are on character boundaries of the text, now and
\* in every snapshot an undo or redo may bring back: slicing never splits a
\* character nor runs past the end, whatever was selected before the text shrank.
CaretsOnBoundaries ==
  \A shot \in {Snapshot(ed)} \cup ToSet(ed.undo) \cup ToSet(ed.redo) :
    /\ IsBoundary(shot.text, shot.cur)
    /\ shot.anc # None => IsBoundary(shot.text, shot.anc)

\* No edit escapes the undo stack: undoing everything gives back the text the
\* session began with, redoing everything the text last edited, however edits,
\* merged runs, undos and redos alternate.
UndoCoversEveryEdit ==
  /\ (IF ed.undo = <<>> THEN ed.text ELSE ed.undo[1].text) = span.from
  /\ (IF ed.redo = <<>> THEN ed.text ELSE ed.redo[1].text) = span.to

\* While a walk is on, the editor shows the entry it stands at: an edit leaves
\* the walk (spec/04, history walk).
WalkShowsItsEntry == Walking(walk) => ed.text = walk.cached[walk.at]
=============================================================================
