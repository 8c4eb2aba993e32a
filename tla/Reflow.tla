------------------------------- MODULE Reflow -------------------------------
\* Grid rows, logical lines, visual rows and chunks: terminal.rs's snapshot,
\* persist/chunk.rs (unwrap, wrap, encode, decode) and reflow.rs (the map
\* between a logical cursor and the visual one). A cell is one character:
\* "W" takes two columns, "_" is the default blank, "#" a blank in colour, "B"
\* a bold letter; "sp" and "lead" are the spacers of a wide character.
EXTENDS Integers, Sequences, FiniteSets, SequencesExt, FiniteSetsExt, Sublist

Spacers == {"sp", "lead"}
IsSpacer(c) == c \in Spacers
IsBlank(c) == c \in {"_", "#"} \cup Spacers
Glyph(c) == IF c = "W" THEN <<"W", "sp">> ELSE <<c>>

-----------------------------------------------------------------------------
\* Logical lines and rows. A row carries WRAPLINE when the next continues it.

\* wrap_logical_line, a character at a time: the rows that are full, the one being
\* filled and its columns. A row takes what fits, and one character at least; a
\* leading spacer fills the column that a wide character leaves.
Wrap(line, cols) ==
  LET wide(k) == IF line[k] = "W" THEN 2 ELSE 1
      ended(w, k) == [cells |-> w.row \o (IF line[k] = "W" /\ w.col + 1 = cols THEN <<"lead">> ELSE <<>>),
                      wraps |-> TRUE]
      put(w, k) == IF w.row # <<>> /\ w.col + wide(k) > cols
                     THEN [rows |-> Append(w.rows, ended(w, k)), row |-> Glyph(line[k]), col |-> wide(k)]
                     ELSE [rows |-> w.rows, row |-> w.row \o Glyph(line[k]), col |-> w.col + wide(k)]
      wrapped[k \in 0..Len(line)] ==
        IF k = 0 THEN [rows |-> <<>>, row |-> <<>>, col |-> 0] ELSE put(wrapped[k - 1], k)
      end == wrapped[Len(line)]
  IN  Append(end.rows, [cells |-> end.row, wraps |-> FALSE])

\* trim_trailing_default
Trimmed(cells) == SubSeq(cells, 1, Max({0} \cup {i \in DOMAIN cells : cells[i] # "_"}))

\* The characters of a row
Text(cells) == Keep(cells, {i \in DOMAIN cells : ~IsSpacer(cells[i])})

\* Mutant: every row is trimmed, the wrapped ones too.
UnwrapTrimsRows(rows) ==
  LET put(u, row) ==
        LET cells == u.line \o Trimmed(Text(row.cells))
        IN  IF row.wraps THEN [out |-> u.out, line |-> cells]
            ELSE [out |-> Append(u.out, cells), line |-> <<>>]
      read[r \in 0..Len(rows)] ==
        IF r = 0 THEN [out |-> <<>>, line |-> <<>>] ELSE put(read[r - 1], rows[r])
      end == read[Len(rows)]
  IN  IF end.line = <<>> THEN end.out ELSE Append(end.out, Trimmed(end.line))

\* unwrap_rows: the lines read, and the one that still goes on
Unwrap(rows) ==
  LET put(u, row) ==
        LET cells == u.line \o Text(row.cells)
        IN  IF row.wraps THEN [out |-> u.out, line |-> cells]
            ELSE [out |-> Append(u.out, Trimmed(cells)), line |-> <<>>]
      read[r \in 0..Len(rows)] ==
        IF r = 0 THEN [out |-> <<>>, line |-> <<>>] ELSE put(read[r - 1], rows[r])
      end == read[Len(rows)]
  IN  IF end.line = <<>> THEN end.out ELSE Append(end.out, Trimmed(end.line))

-----------------------------------------------------------------------------
\* ReflowMap. Rows, lines and columns count from 0, as in the code.

\* Where the rows of a line begin in it
Origins(line, rows) ==
  LET col[r \in DOMAIN rows] == IF r = 1 THEN 0 ELSE col[r - 1] + Len(Text(rows[r - 1].cells))
  IN  [r \in DOMAIN rows |-> [line |-> line, col |-> col[r]]]

\* build: the visual rows, and for each its line and first logical column
Build(lines, cols) ==
  LET put(map, n) ==
        LET rows == Wrap(lines[n], cols)
        IN  [rows |-> map.rows \o rows, origin |-> map.origin \o Origins(n - 1, rows)]
      built[n \in 0..Len(lines)] ==
        IF n = 0 THEN [rows |-> <<>>, origin |-> <<>>] ELSE put(built[n - 1], n)
  IN  built[Len(lines)]

\* What the terminal's grid holds once `lines` are printed at this width:
\* full rows that continue, a last row padded to the margin.
Padded(row, cols) ==
  IF row.wraps THEN row
  ELSE [row EXCEPT !.cells = @ \o [i \in 1..Max({0, cols - Len(@)}) |-> "_"]]
GridRows(lines, cols) ==
  LET rows == Build(lines, cols).rows IN [r \in DOMAIN rows |-> Padded(rows[r], cols)]

\* snapshot_lines_all: without the blank rows at the bottom
SnapshotLinesAll(rows) ==
  SubSeq(rows, 1, Max({0} \cup {r \in DOMAIN rows : \E i \in DOMAIN rows[r].cells :
                                                       ~IsBlank(rows[r].cells[i])}))

\* The characters of a row up to a column
Before(row, col) == Len(Text(SubSeq(row.cells, 1, col)))

VisualToLogical(map, row, col) ==
  IF map.rows = <<>> THEN [line |-> 0, col |-> 0]
  ELSE LET r == Min({row + 1, Len(map.rows)})
           cells == map.rows[r].cells
           c == Min({col, Len(cells)})
           onSpacer == c < Len(cells) /\ IsSpacer(cells[c + 1])
           offset == Before(map.rows[r], c)
       IN  [line |-> map.origin[r].line,
            col |-> map.origin[r].col + (IF onSpacer THEN Max({0, offset - 1}) ELSE offset)]

\* Mutant: the spacers of wide characters are counted as characters.
LogicalToVisualByCells(map, line, col) ==
  LET rs == {r \in DOMAIN map.rows : map.origin[r].line = line}
  IN  IF map.rows = <<>> THEN [row |-> 0, col |-> 0]
      ELSE IF rs = {} THEN [row |-> Len(map.rows), col |-> 0]
      ELSE LET r == Max({q \in rs : map.origin[q].col <= col})
           IN  [row |-> r - 1, col |-> Min({col - map.origin[r].col, Len(map.rows[r].cells)})]

\* logical_to_visual: the row that holds the column, past the spacer it may land on
LogicalToVisual(map, line, col) ==
  LET rs == {r \in DOMAIN map.rows : map.origin[r].line = line}
  IN  IF map.rows = <<>> THEN [row |-> 0, col |-> 0]
      ELSE IF rs = {} THEN [row |-> Len(map.rows), col |-> 0]
      ELSE LET r == Max({q \in rs : map.origin[q].col <= col})
               cells == map.rows[r].cells
               want == col - map.origin[r].col
               at == Min({Len(cells)} \cup
                         {c \in 0..Len(cells) : Before(map.rows[r], c) >= want})
           IN  [row |-> r - 1,
                col |-> IF at < Len(cells) /\ IsSpacer(cells[at + 1]) THEN at + 1 ELSE at]

\* output_match_visual_segments: what a match on columns [from, to) of a line
\* highlights, a piece for every visual row it runs through
Segments(map, line, from, to) ==
  LET a == LogicalToVisual(map, line, from)
      b == LogicalToVisual(map, line, to)
      width(r) == IF r < Len(map.rows) THEN Len(map.rows[r + 1].cells) ELSE 0
  IN  IF to <= from THEN <<>>
      ELSE [k \in 1..b.row - a.row + 1 |->
              LET r == a.row + k - 1
              IN  [row |-> r, start |-> IF r = a.row THEN a.col ELSE 0,
                   stop |-> IF r = b.row THEN b.col ELSE width(r)]]

-----------------------------------------------------------------------------
\* The chunk codec, by tokens: a line is its two lengths, its characters, the
\* number of its runs, and each run's length and style.

Style(c) == CASE c = "W" -> "wide" [] c = "B" -> "bold" [] c = "#" -> "colour" [] OTHER -> "plain"
Letter(c) == CASE c = "B" -> "b" [] c = "#" -> "_" [] OTHER -> c
Cell(letter, style) ==
  LET cs == {c \in {"a", "b", ".", "_", "W", "B", "#"} : Letter(c) = letter /\ Style(c) = style}
  IN  IF cs = {} THEN letter ELSE CHOOSE c \in cs : TRUE

\* encode_style_runs
StyleRuns(line) ==
  FoldLeft(LAMBDA runs, c :
             IF runs # <<>> /\ Last(runs).style = Style(c)
               THEN [runs EXCEPT ![Len(runs)].n = @ + 1]
               ELSE Append(runs, [n |-> 1, style |-> Style(c)]), <<>>, line)

EncodeLine(line) ==
  LET runs == StyleRuns(line)
  IN  <<[num |-> Len(line)], [num |-> 1 + 2 * Len(runs)]>>
      \o [i \in DOMAIN line |-> [letter |-> Letter(line[i])]]
      \o <<[num |-> Len(runs)]>>
      \o FlattenSeq([r \in DOMAIN runs |-> <<[num |-> runs[r].n], [style |-> runs[r].style]>>])

EncodeChunk(lines) == FlattenSeq([n \in DOMAIN lines |-> EncodeLine(lines[n])])

Refused == [ok |-> FALSE, lines |-> <<>>]

\* decode_logical_line, once both byte ranges are there: the runs have to use
\* their bytes up and to cover the characters exactly
DecodeLine(letters, styles) ==
  IF styles = <<>> \/ Len(styles) # 1 + 2 * styles[1].num THEN Refused
  ELSE LET runs == [r \in 1..styles[1].num |-> [n |-> styles[2 * r].num, style |-> styles[2 * r + 1].style]]
           cells == FlattenSeq([r \in DOMAIN runs |-> [i \in 1..runs[r].n |-> runs[r].style]])
       IN  IF Len(cells) # Len(letters) THEN Refused
           ELSE [ok |-> TRUE, lines |-> <<[i \in DOMAIN cells |-> Cell(letters[i].letter, cells[i])]>>]

\* decode_chunk: from[i] is what the tokens from i on say
DecodeChunk(tokens) ==
  LET size == Len(tokens)
      from[i \in 1..size + 1] ==
        IF i = size + 1 THEN [ok |-> TRUE, lines |-> <<>>]
        ELSE IF i + 1 > size THEN Refused
        ELSE LET text == i + 2
                 style == text + tokens[i].num
                 next == style + tokens[i + 1].num
             IN  IF next > size + 1 THEN Refused
                 ELSE LET line == DecodeLine(SubSeq(tokens, text, style - 1),
                                             SubSeq(tokens, style, next - 1))
                      IN  IF ~line.ok \/ ~from[next].ok THEN Refused
                          ELSE [ok |-> TRUE, lines |-> line.lines \o from[next].lines]
  IN  from[1]
=============================================================================
