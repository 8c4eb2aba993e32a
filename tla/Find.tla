-------------------------------- MODULE Find --------------------------------
\* In-pane find: find.rs, with the frame of render_pane.rs that recomputes the
\* matches before it paints and lets the overlay change the question after.
\* Rows are sequences of characters, "_" a blank; a frame is one edit, one
\* click and one key at most, in the order the overlay takes them.
EXTENDS Integers, Sequences, FiniteSets, SequencesExt, FiniteSetsExt, Sublist

CONSTANTS
  FindBlocks,  \* what may be sealed: [command |-> rows, output |-> rows]
  FindQueries, \* what may stand in the query field
  FindPast,    \* the queries of earlier searches in the pane, newest first
  FindMoves,   \* "reopen": Cmd+F with the overlay open; "alt": a full-screen program
  MaxBlocks,   \* bound: sealed blocks
  MaxAsks      \* bound: things the user does

ASSUME FindAssumption ==
  /\ FindBlocks \subseteq [command : Seq(Seq(STRING)), output : Seq(Seq(STRING))]
  /\ FindQueries \subseteq Seq(STRING) /\ FindPast \in Seq(Seq(STRING)) /\ MaxAsks \in Nat

VARIABLES
  sealed,  \* the sealed blocks, oldest first
  find,    \* PaneUiState::find_overlay
  findHistory,    \* PaneUiState::find_history
  alt,     \* the alternate screen is up
  shown,   \* ghost: the bright match of the last recomputed frame, and whether the user
           \* has done nothing since
  asks     \* [n |-> things done, live |-> last query not walked to, sent |-> queries submitted]
findVars == <<sealed, find, findHistory, alt, shown, asks>>

Closed == [open |-> FALSE]
Filters == <<"both", "command", "output">>
HistoryCap == 100
Clicks == {"none", "case", "regex", "prev", "next", "close"}
Keys == {"none", "enter", "shift_enter", "escape", "up", "down"}

-----------------------------------------------------------------------------
\* The search core

Trimmed(row) == SubSeq(row, 1, Max({0} \cup {i \in DOMAIN row : row[i] # "_"}))

Stripped(row) == Reverse(Trimmed(Reverse(Trimmed(row))))

\* collect_searchable_lines: command rows before output rows, oldest block first
LinesIn(block, id) ==
  [r \in DOMAIN block.command |-> [id |-> id, kind |-> "command", row |-> r,
                                   text |-> block.command[r]]]
  \o [r \in DOMAIN block.output |-> [id |-> id, kind |-> "output", row |-> r,
                                     text |-> Trimmed(block.output[r])]]
SearchableLines == FlattenSeq([id \in DOMAIN sealed |-> LinesIn(sealed[id], id)])

Folded(c, sensitive) == IF c = "A" /\ ~sensitive THEN "a" ELSE c
OccursAt(text, needle, sensitive, i) ==
  /\ i + Len(needle) <= Len(text)
  /\ \A k \in DOMAIN needle : Folded(text[i + k], sensitive) = Folded(needle[k], sensitive)

\* Mutant: the scan stops one column early.
RangesShort(text, needle, sensitive) ==
  LET from[i \in 0..Len(text)] ==
        IF i + Len(needle) >= Len(text) THEN <<>>
        ELSE IF OccursAt(text, needle, sensitive, i)
               THEN <<[start |-> i, stop |-> i + Len(needle)]>> \o from[i + Len(needle)]
               ELSE from[i + 1]
  IN  IF needle = <<>> THEN <<>> ELSE from[0]

\* substring_char_ranges: left to right, each match behind the one before
Ranges(text, needle, sensitive) ==
  LET from[i \in 0..Len(text)] ==
        IF i + Len(needle) > Len(text) THEN <<>>
        ELSE IF OccursAt(text, needle, sensitive, i)
               THEN <<[start |-> i, stop |-> i + Len(needle)]>> \o from[i + Len(needle)]
               ELSE from[i + 1]
  IN  IF needle = <<>> THEN <<>> ELSE from[0]

Includes(filter, kind) == filter \in {"both", kind}

\* find_matches, in document order
MatchesIn(f, line) ==
  LET ranges == Ranges(line.text, f.query, f.case)
  IN  IF Includes(f.filter, line.kind)
        THEN [k \in DOMAIN ranges |-> [id |-> line.id, kind |-> line.kind, row |-> line.row,
                                       start |-> ranges[k].start, stop |-> ranges[k].stop]]
        ELSE <<>>
Matches(f) == LET lines == SearchableLines
              IN  FlattenSeq([n \in DOMAIN lines |-> MatchesIn(f, lines[n])])

\* build_matcher: of the queries here only an open bracket is no pattern
BadRegex(f) == f.regex /\ "(" \in ToSet(f.query)

-----------------------------------------------------------------------------
\* FindOverlay

Opened(history) ==
  [open |-> TRUE, query |-> <<>>, case |-> FALSE, regex |-> FALSE, filter |-> "both",
   matches |-> <<>>, sel |-> 0, history |-> history, pos |-> 0, draft |-> <<>>, bottom |-> TRUE]

\* Mutant: every frame goes home to the bottom.
RecomputedAtBottom(f) ==
  IF f.query = <<>> \/ BadRegex(f) THEN [f EXCEPT !.matches = <<>>, !.sel = 0]
  ELSE [f EXCEPT !.matches = Matches(f), !.bottom = FALSE, !.sel = Max({Len(Matches(f)) - 1, 0})]

Recomputed(f) ==
  IF f.query = <<>> \/ BadRegex(f) THEN [f EXCEPT !.matches = <<>>, !.sel = 0]
  ELSE LET last == Max({Len(Matches(f)) - 1, 0})
       IN  [f EXCEPT !.matches = Matches(f), !.bottom = FALSE,
                     !.sel = IF f.bottom THEN last ELSE Min({@, last})]

Current(f) == IF f.open /\ f.sel < Len(f.matches) THEN <<f.matches[f.sel + 1]>> ELSE <<>>

\* next_match, prev_match
Stepped(f, step) ==
  IF f.matches = <<>> THEN f ELSE [f EXCEPT !.sel = (@ + step) % Len(f.matches)]

\* The text field, and the filter's menu
Queried(f, query) ==
  IF query = f.query THEN f ELSE [f EXCEPT !.query = query, !.pos = 0, !.bottom = TRUE]
Filtered(f, filter) == IF filter = f.filter THEN f ELSE [f EXCEPT !.filter = filter, !.bottom = TRUE]

Older(f) ==
  IF f.history = <<>> THEN f
  ELSE LET at == Min({f.pos + 1, Len(f.history)})
       IN  [f EXCEPT !.pos = at, !.query = f.history[at],
                     !.draft = IF f.pos = 0 THEN f.query ELSE @]
Newer(f) ==
  CASE f.pos = 0 -> f
    [] f.pos = 1 -> [f EXCEPT !.pos = 0, !.query = f.draft]
    [] f.pos > 1 -> [f EXCEPT !.pos = @ - 1, !.query = f.history[f.pos - 1]]

PickHistory(f, i) == [f EXCEPT !.query = f.history[i], !.pos = 0]

\* The history once q is sent: q in front, once, and no more than HistoryCap
Sent(history, q) ==
  LET rest == Keep(history, {i \in DOMAIN history : history[i] # q})
  IN  IF q = <<>> THEN history ELSE SubSeq(<<q>> \o rest, 1, Min({HistoryCap, Len(rest) + 1}))

\* commit_history: a blank query leaves the walk alone
Committed(f) ==
  [f EXCEPT !.history = Sent(@, Stripped(f.query)),
            !.pos = IF Stripped(f.query) = <<>> THEN @ ELSE 0]

\* paint_overlay: what the mouse and then the keys do to an open overlay
Clicked(f, click) ==
  CASE click = "case"  -> [f EXCEPT !.case = ~@, !.bottom = TRUE]
    [] click = "regex" -> [f EXCEPT !.regex = ~@, !.bottom = TRUE]
    [] click = "prev"  -> Stepped(f, -1)
    [] click = "next"  -> Stepped(f, 1)
    [] OTHER           -> f
KeyPressed(f, key) ==
  CASE key = "enter"       -> Committed(Stepped(f, -1))
    [] key = "shift_enter" -> Committed(Stepped(f, 1))
    [] key = "up"          -> Older(f)
    [] key = "down"        -> Newer(f)
    [] OTHER               -> f

-----------------------------------------------------------------------------

FindInit ==
  /\ sealed = <<>> /\ find = Closed /\ findHistory = FindPast /\ alt = FALSE
  /\ shown = [match |-> <<>>, untouched |-> FALSE]
  /\ asks = [n |-> 0, live |-> <<>>, sent |-> ToSet(FindPast)]

Asks(n) == asks.n + n <= MaxAsks

\* A command ends and its block is sealed.
Seal ==
  /\ Len(sealed) < MaxBlocks
  /\ \E b \in FindBlocks : sealed' = Append(sealed, b)
  /\ UNCHANGED <<find, findHistory, alt, shown, asks>>

AltFlips == "alt" \in FindMoves /\ Asks(1) /\ alt' = ~alt /\ asks' = [asks EXCEPT !.n = @ + 1]
             /\ UNCHANGED <<sealed, find, findHistory, shown>>

\* apply_pane_action, OpenFind
OpenFind ==
  /\ ~alt /\ Asks(1)
  /\ ~find.open \/ "reopen" \in FindMoves
  /\ find' = Opened(findHistory)
  /\ asks' = [asks EXCEPT !.n = @ + 1, !.live = <<>>]
  /\ shown' = [shown EXCEPT !.untouched = FALSE]
  /\ UNCHANGED <<sealed, findHistory, alt>>

\* close_all_popups: another popup takes its place
OtherPopup ==
  /\ find.open /\ Asks(1)
  /\ findHistory' = find.history /\ find' = Closed
  /\ asks' = [asks EXCEPT !.n = @ + 1] /\ shown' = [shown EXCEPT !.untouched = FALSE]
  /\ UNCHANGED <<sealed, alt>>

\* A frame with the overlay open: recompute, paint, then what the user does
Frame(query, click, filter, pick, key) ==
  LET f0 == IF alt THEN find ELSE Recomputed(find)
      f1 == Filtered(Clicked(Queried(f0, query), click), filter)
      f2 == IF pick = 0 THEN f1 ELSE PickHistory(f1, pick)
      f3 == KeyPressed(f2, key)
  IN  /\ IF click = "close" \/ key = "escape"
           THEN find' = Closed /\ findHistory' = f3.history
           ELSE find' = f3 /\ UNCHANGED findHistory
      /\ shown' = [match |-> IF alt THEN shown.match ELSE Current(f0),
                   untouched |-> f3 = f0 /\ (alt => shown.untouched)]
      /\ asks' = [n |-> asks.n + (IF query # find.query THEN 1 ELSE 0)
                        + (IF click # "none" THEN 1 ELSE 0) + (IF filter # find.filter THEN 1 ELSE 0)
                        + (IF pick # 0 THEN 1 ELSE 0) + (IF key # "none" THEN 1 ELSE 0),
                  live |-> IF f3.pos = 0 THEN f3.query ELSE IF f2.pos = 0 THEN f2.query ELSE asks.live,
                  sent |-> IF key \in {"enter", "shift_enter"} /\ Stripped(f2.query) # <<>>
                             THEN asks.sent \cup {Stripped(f2.query)} ELSE asks.sent]

FindFrame ==
  /\ find.open /\ UNCHANGED <<sealed, alt>>
  /\ \/ \E query \in (IF Asks(1) THEN FindQueries ELSE {find.query}), key \in Keys :
          /\ Asks(IF query # find.query /\ key # "none" THEN 2 ELSE IF key # "none" THEN 1 ELSE 0)
          /\ Frame(query, "none", find.filter, 0, key)
     \/ \E click \in Clicks \ {"none"} : Asks(1) /\ Frame(find.query, click, find.filter, 0, "none")
     \/ \E filter \in ToSet(Filters) : Asks(1) /\ Frame(find.query, "none", filter, 0, "none")
     \/ \E pick \in DOMAIN find.history : Asks(1) /\ Frame(find.query, "none", find.filter, pick, "none")

FindNext == Seal \/ AltFlips \/ OpenFind \/ OtherPopup \/ FindFrame
FindSpec == FindInit /\ [][FindNext]_findVars

-----------------------------------------------------------------------------
\* Properties

Match == [id : Nat, kind : {"command", "output"}, row : Nat, start : Nat, stop : Nat]
FindOverlay == [open : {TRUE}, query : Seq(STRING), case : BOOLEAN, regex : BOOLEAN,
            filter : ToSet(Filters), matches : Seq(Match), sel : Nat,
            history : Seq(Seq(STRING)), pos : Nat, draft : Seq(STRING), bottom : BOOLEAN]

FindTypeOK ==
  /\ sealed \in Seq(FindBlocks) /\ findHistory \in Seq(Seq(STRING)) /\ alt \in BOOLEAN
  /\ find = Closed \/ find \in FindOverlay
  /\ shown \in [match : Seq(Match), untouched : BOOLEAN]
  /\ asks \in [n : 0..MaxAsks, live : Seq(STRING), sent : SUBSET Seq(STRING)]

\* What find highlights is every occurrence there is to see and nothing else:
\* ranges that do not overlap, in document order, each an occurrence of what
\* was asked, and no occurrence that touches none of them.
EveryOccurrenceIsShown ==
  find.open /\ ~alt /\ ~BadRegex(find) /\ find.query # <<>> =>
    LET ms == Recomputed(find).matches
        lines == ToSet(SearchableLines)
        Same(m, o) == m.id = o.id /\ m.kind = o.kind /\ m.row = o.row
    IN  /\ \A i, j \in DOMAIN ms : i < j => ms[i] # ms[j] /\ ms[i].id <= ms[j].id
        /\ \A line \in lines :
             \A i \in 0..Len(line.text) :
               OccursAt(line.text, find.query, find.case, i) /\ Includes(find.filter, line.kind)
                 => \E m \in ToSet(ms) : Same(m, line) /\ m.start < i + Len(find.query) /\ i < m.stop
        /\ \A m \in ToSet(ms) :
             /\ \E line \in lines : /\ Same(m, line) /\ Includes(find.filter, line.kind)
                                   /\ OccursAt(line.text, find.query, find.case, m.start)
             /\ \A o \in ToSet(ms) \ {m} : Same(m, o) => o.stop <= m.start \/ m.stop <= o.start

\* From one painted frame to the next the bright match stays where it is unless
\* the user did something: output that arrives meanwhile must not move it.
SelectionStays == shown.untouched /\ shown.match # <<>> => shown'.match = shown.match
MatchHolds == [][SelectionStays]_findVars

\* A walk shows the entry it stands on, stepping past its newest end brings back
\* what was being typed, and every query submitted is still offered.
QueriesAreKept ==
  /\ asks.sent \subseteq ToSet(IF find.open THEN find.history ELSE findHistory)
  /\ find.open /\ find.pos # 0 => find.query = find.history[find.pos] /\ find.draft = asks.live

\* Find highlights every occurrence and nothing else, and keeps the queries that
\* were submitted and the one being typed (find.rs).
FindIsExact == EveryOccurrenceIsShown /\ QueriesAreKept
=============================================================================
