---------------------------- MODULE PathCompletion ----------------------------
\* Completing the name of a file: completion/local.rs's quoting, the local path
\* source and resolve_driver of completion/mod.rs, and the popup's accept and
\* tab_extend. A line is a command and one argument, typed and completed at its
\* end; the shells that answer, and read the line in the end, are external.
\* A character stands for its kind: "_" a blank, "B" a backslash, "S" and "D"
\* the quotes, "*" a glob; "=" stands before a name as in --file=name.
EXTENDS Integers, Sequences, FiniteSets, SequencesExt

CONSTANTS
  PathShells, \* of {"zsh", "fish", "bash"}
  PathKeys,   \* the characters that are typed
  PathTree,   \* node |-> the entries of its directory, [name, dir]
  PathMoves,  \* "dollar": a word with a variable; "midquote": a quote inside
              \* a word; "tilde": a quoted or an escaped one; "split": bash
              \* takes apart a word that is quoted; "verbatim": it says that
              \* names with characters to quote are no file names
  MaxKeys     \* bound: keys typed

VARIABLES
  line,   \* the editor's text
  menu,   \* the popup, an answer to wait for, or neither
  shellOf, \* the pane's shell
  keys,   \* keys typed
  taken   \* ghost: the last row taken, and where the line ended before a blank
pathVars == <<line, menu, shellOf, keys, taken>>

NoMenu == [state |-> "none", origin |-> 0, token |-> <<>>, quote |-> "none", rows |-> {}]
NoFile == [node |-> "none", name |-> <<>>]
NotTaken == [how |-> "none", file |-> NoFile, end |-> 0]
Prompt == <<"c", "_">>

StartsWith(s, prefix) == Len(prefix) <= Len(s) /\ SubSeq(s, 1, Len(prefix)) = prefix
LastSlash(s) == LET is == {i \in DOMAIN s : s[i] = "/"}
                IN  IF is = {} THEN 0 ELSE CHOOSE i \in is : \A j \in is : j <= i
Stripped(s) == IF s # <<>> /\ Last(s) = "/" THEN Front(s) ELSE s

-----------------------------------------------------------------------------
\* completion_context: [start, prefix, quote], start the characters before it
Context(text) ==
  LET step(s, c, i) ==
        CASE s.esc -> [s EXCEPT !.prefix = Append(@, c), !.esc = FALSE]
          [] ~s.esc /\ s.quote = "S" ->
               IF c = "S" THEN [s EXCEPT !.quote = "none"] ELSE [s EXCEPT !.prefix = Append(@, c)]
          [] ~s.esc /\ s.quote = "D" ->
               IF c = "B" THEN [s EXCEPT !.esc = TRUE]
               ELSE IF c = "D" THEN [s EXCEPT !.quote = "none"] ELSE [s EXCEPT !.prefix = Append(@, c)]
          [] ~s.esc /\ s.quote = "none" ->
               LET w == IF s.word = -1 THEN i - 1 ELSE s.word
               IN  IF c = "_" THEN [s EXCEPT !.word = -1, !.prefix = <<>>]
                   ELSE IF c = "B" THEN [s EXCEPT !.word = w, !.esc = TRUE]
                   ELSE IF c \in {"S", "D"} THEN [s EXCEPT !.word = w, !.quote = c, !.open = i]
                   ELSE [s EXCEPT !.word = w, !.prefix = Append(@, c)]
      read[i \in 0..Len(text)] ==
        IF i = 0 THEN [word |-> -1, prefix |-> <<>>, quote |-> "none", open |-> 0, esc |-> FALSE]
        ELSE step(read[i - 1], text[i], i)
      end == read[Len(text)]
  IN  [start  |-> IF end.quote # "none" THEN end.open ELSE IF end.word = -1 THEN Len(text) ELSE end.word,
       prefix |-> end.prefix, quote |-> end.quote, esc |-> end.esc, word |-> end.word]

\* Mutant: a blank is left alone in a word that is not quoted.
EscapedButBlanks(value, quote) ==
  FlattenSeq([i \in DOMAIN value |->
     IF quote = "none" /\ value[i] \in {"B", "S", "D", "$", "*"} THEN <<"B", value[i]>> ELSE <<value[i]>>])

\* escape_for_context
Escaped(value, quote) ==
  LET special == CASE quote = "none" -> {"_", "B", "S", "D", "$", "*"}
                   [] quote = "D"    -> {"D", "$", "B"}
                   [] quote = "S"    -> {}
  IN  FlattenSeq([i \in DOMAIN value |-> IF value[i] \in special THEN <<"B", value[i]>> ELSE <<value[i]>>])

\* unescape: a lone backslash at the end stays.
Unescaped(value) ==
  LET read[i \in 0..Len(value)] ==
        IF i = 0 THEN [out |-> <<>>, esc |-> FALSE]
        ELSE IF value[i] = "B" /\ ~read[i - 1].esc THEN [read[i - 1] EXCEPT !.esc = TRUE]
        ELSE [out |-> Append(read[i - 1].out, value[i]), esc |-> FALSE]
      end == read[Len(value)]
  IN  IF end.esc THEN Append(end.out, "B") ELSE end.out

\* split_path_token
SplitToken(token) ==
  LET i == LastSlash(token)
  IN  IF token = <<"~">> THEN [dir |-> token, file |-> <<>>]
      ELSE [dir |-> SubSeq(token, 1, IF i = 1 THEN 1 ELSE i - 1), file |-> SubSeq(token, i + 1, Len(token))]

\* resolve_dir and read_dir_entries: what Termica can list
Resolved(dir) ==
  LET rest == IF StartsWith(dir, <<".", "/">>) THEN SubSeq(dir, 3, Len(dir)) ELSE dir
  IN  CASE dir \in {<<>>, <<".">>} -> "cwd"
        [] dir \in {<<"~">>, <<"$", "V">>} -> "home"
        [] OTHER -> IF \E e \in PathTree.cwd : e.dir /\ e.name = rest THEN "sub" ELSE "none"

IsPath(token) == "/" \in ToSet(token) \/ (token # <<>> /\ token[1] = "~")
IsVariable(token) == token # <<>> /\ token[1] = "$" /\ "/" \notin ToSet(token)

Row(value, file) == [value |-> value, file |-> file]

\* local_candidates_at, in argument position
Local(ctx) ==
  LET parts == SplitToken(ctx.prefix)
      node == Resolved(parts.dir)
      full(e) == LET name == IF e.dir THEN Append(e.name, "/") ELSE e.name
                 IN  IF parts.dir # <<>> THEN parts.dir \o <<"/">> \o name
                     ELSE IF ~IsPath(ctx.prefix) /\ ctx.quote = "none" THEN <<".", "/">> \o name ELSE name
  IN  IF IsVariable(ctx.prefix)
        THEN {Row(<<"$", "V">>, NoFile) : x \in {1} \cap (IF StartsWith(<<"$", "V">>, ctx.prefix) THEN {1} ELSE {})}
      ELSE IF node = "none" THEN {}
      ELSE {Row(Escaped(full(e), ctx.quote), [node |-> node, name |-> e.name]) :
              e \in {d \in PathTree[node] : StartsWith(d.name, parts.file)}}

\* align_driver_value_to_token
Aligned(token, value) ==
  LET dir == SubSeq(token, 1, LastSlash(token))
  IN  IF dir = <<>> \/ StartsWith(value, dir) \/ value[1] = "/" THEN value ELSE dir \o value

\* The directories that a token names on its way
Components(token) ==
  LET dir == SubSeq(token, 1, LastSlash(token))
      cuts == {0} \cup {i \in DOMAIN dir : dir[i] = "/"}
  IN  {SubSeq(dir, c[1] + 1, c[2] - 1) : c \in {d \in cuts \X cuts : d[1] + 1 < d[2] /\
                                                 \A k \in cuts : ~(d[1] < k /\ k < d[2])}}

\* rebase_replace_to_word: the range shrinks to the word that bash completed.
Rebased(origin, token, cur) ==
  IF Len(cur) < Len(token) /\ IsSuffix(cur, token)
    THEN [origin |-> origin + Len(token) - Len(cur), token |-> cur, trimmed |-> TRUE]
    ELSE [origin |-> origin, token |-> token, trimmed |-> FALSE]

\* realign_driver_path_candidates: bash says whether its words are file names
\* to be escaped.
Realigned(token, quote, replies, filenames) ==
  LET aligned(r) == Aligned(token, Unescaped(r.value))
      name(r) == SubSeq(Stripped(aligned(r)), LastSlash(Stripped(aligned(r))) + 1, Len(Stripped(aligned(r))))
  IN  {Row(IF filenames THEN Escaped(aligned(r), quote) ELSE aligned(r), r.file) :
         r \in {s \in replies : "/" \in ToSet(token) =>
                   StartsWith(aligned(s), token) /\ name(s) \notin Components(token)}}

-----------------------------------------------------------------------------
\* The shell: how it reads the last word, [c, live] for each character of it,
\* live when it means more than itself

ShellWord(text) ==
  LET add(s, c, live) == [s EXCEPT !.word = Append(@, [c |-> c, live |-> live]), !.esc = FALSE]
      step(s, c) ==
        CASE s.esc -> IF s.quote = "D" /\ c \notin {"D", "B", "$"}
                        THEN add(add(s, "B", FALSE), c, FALSE) ELSE add(s, c, FALSE)
          [] ~s.esc /\ s.quote = "none" ->
               IF c = "_" THEN [s EXCEPT !.word = <<>>]
               ELSE IF c = "B" THEN [s EXCEPT !.esc = TRUE]
               ELSE IF c \in {"S", "D"} THEN [s EXCEPT !.quote = c]
               ELSE add(s, c, c \in {"*", "$"} \/ (c = "~" /\ s.word = <<>>))
          [] ~s.esc /\ s.quote # "none" ->
               IF c = s.quote THEN [s EXCEPT !.quote = "none"]
               ELSE IF s.quote = "D" /\ c = "B" THEN [s EXCEPT !.esc = TRUE]
               ELSE add(s, c, s.quote = "D" /\ c = "$")
      read[i \in 0..Len(text)] ==
        IF i = 0 THEN [word |-> <<>>, quote |-> "none", esc |-> FALSE] ELSE step(read[i - 1], text[i])
  IN  read[Len(text)].word

\* What stands behind the last = of a word
Operand(word) ==
  LET n == Max({0} \cup {i \in DOMAIN word : word[i].c = "="})
  IN  SubSeq(word, n + 1, Len(word))

\* The directory and the name a word denotes; a glob or a lone variable, none
Denoted(word) ==
  LET w == IF word # <<>> /\ Last(word).c = "/" THEN Front(word) ELSE word
      s == [i \in DOMAIN w |-> w[i].c]
      i == LastSlash(s)
      dir == SubSeq(s, 1, IF i = 1 THEN 1 ELSE i - 1)
      live == {j \in DOMAIN w : w[j].live}
      node == CASE live = {} /\ "~" \notin ToSet(dir) /\ "$" \notin ToSet(dir) -> Resolved(dir)
                [] live = {1} /\ dir \in {<<"~">>, <<"$", "V">>} -> "home"
                [] live = {1} /\ dir = <<"~", "a">> -> "named"
                [] OTHER -> "none"
  IN  [node |-> node, name |-> SubSeq(s, i + 1, Len(s))]

\* __termica_bc_split_words: blanks and COMP_WORDBREAKS part words, quoted or
\* not, and a break is a word of its own.
WordBreaks == {"S", "D", "="}
BashWord(text) ==
  LET parts == {i \in DOMAIN text : text[i] \in WordBreaks \cup {"_"}}
  IN  IF Last(text) \in WordBreaks THEN <<Last(text)>>
      ELSE SubSeq(text, Max({0} \cup parts) + 1, Len(text))

\* The files that continue a word, each behind the word's own directory
Continuing(word) ==
  LET said == [i \in DOMAIN word |-> word[i].c]
      at == Denoted(Append(word, [c |-> "a", live |-> FALSE]))
      from == SubSeq(said, LastSlash(said) + 1, Len(said))
      files == IF at.node = "none" THEN {} ELSE {e \in PathTree[at.node] : StartsWith(e.name, from)}
  IN  {[path |-> SubSeq(said, 1, LastSlash(said)) \o e.name, entry |-> e,
        file |-> [node |-> at.node, name |-> e.name]] : e \in files}

\* A function of bash's answers for the word it is given, as file names, or as
\* words that it has quoted itself; a command may have no function.
BashReplies(text) ==
  LET cur == BashWord(text)
      files == Continuing(ShellWord(cur))
      whole == {Row(f.path, f.file) : f \in files}
      quoted == {Row(Escaped(f.path, "none"), f.file) : f \in files}
      plain == {r \in quoted : Unescaped(r.value) = r.value}
      reply(rows, filenames) == [rows |-> rows, filenames |-> filenames, cur |-> cur]
  IN  {reply({}, FALSE), reply(whole, TRUE),
       reply(IF "verbatim" \in PathMoves THEN quoted ELSE plain, FALSE)}

\* A shell answers with the files that continue the word, zsh both as they are
\* and escaped, and with the path's own components; fish the whole word.
Replies(text) ==
  LET word == ShellWord(text)
      files == Continuing(word)
      reply(rows) == [rows |-> rows, filenames |-> TRUE, cur |-> Context(text).prefix]
  IN  CASE shellOf = "zsh"  -> {reply({Row(f.entry.name, f.file) : f \in files}
                               \cup {Row(Escaped(f.entry.name, "none"), f.file) : f \in files}
                               \cup {Row(c, NoFile) : c \in Components([i \in DOMAIN word |-> word[i].c])})}
        [] shellOf = "fish" -> {reply({Row(f.path \o (IF f.entry.dir THEN <<"/">> ELSE <<>>), f.file) : f \in files})}
        [] shellOf = "bash" -> BashReplies(text)

-----------------------------------------------------------------------------

PathInit == /\ line = Prompt /\ menu = NoMenu /\ keys = 0 /\ taken = NotTaken
            /\ shellOf \in PathShells

\* A file was accepted: the line is sent, and another begins.
Done == taken.how = "accept" /\ Len(line) > taken.end
Run == /\ Done
       /\ line' = Prompt /\ keys' = 0 /\ menu' = NoMenu /\ taken' = NotTaken
       /\ UNCHANGED shellOf

\* A key: the popup's filter is Completion's, here it closes.
Type ==
  /\ ~Done /\ keys < MaxKeys /\ keys' = keys + 1
  /\ \E c \in PathKeys :
      LET ctx == Context(line)
          fresh == ctx.word = -1
      IN  /\ c \in {"S", "D"} => fresh \/ ctx.quote = c \/ ctx.esc \/ "midquote" \in PathMoves
          /\ c = "~" => (fresh /\ ctx.quote = "none") \/ "tilde" \in PathMoves
          /\ c = "$" => "dollar" \in PathMoves
          /\ line' = Append(line, c)
  /\ menu' = NoMenu /\ taken' = NotTaken
  /\ UNCHANGED shellOf

\* Accepting a row: a blank behind it, unless it is a directory
Accepted(origin, row) ==
  /\ line' = SubSeq(line, 1, origin) \o row.value \o (IF Last(row.value) = "/" THEN <<>> ELSE <<"_">>)
  /\ taken' = [how |-> "accept", file |-> row.file, end |-> origin + Len(row.value)]
  /\ menu' = NoMenu

Shown(rows, origin, token) ==
  [state |-> "open", origin |-> origin, token |-> token, quote |-> "none", rows |-> rows]

\* show_or_autoaccept, asked for by Tab
Opened(rows, origin, token) ==
  IF rows = {} THEN menu' = NoMenu /\ UNCHANGED <<line, taken>>
  ELSE IF Cardinality({r.value : r \in rows}) = 1 THEN \E r \in rows : Accepted(origin, r)
  ELSE menu' = Shown(rows, origin, token) /\ UNCHANGED <<line, taken>>

\* The word that bash completes is neither the line's, as a shell reads it, nor
\* what stands behind an = that is typed bare.
SplitApart(text) ==
  LET ctx == Context(text)
      word == ShellWord(BashWord(text))
      base == Rebased(ctx.start, ctx.prefix, BashWord(text))
  IN  /\ shellOf = "bash"
      /\ [i \in DOMAIN word |-> word[i].c] # ctx.prefix
      /\ ~(/\ SubSeq(text, ctx.start + 1, Len(text)) = ctx.prefix
           /\ base.trimmed /\ text[base.origin] = "=")

\* Tab with nothing open: plan_completion
Tab ==
  /\ menu.state = "none" /\ ~Done
  /\ SplitApart(line) => "split" \in PathMoves
  /\ LET ctx == Context(line)
         rows == Local(ctx)
     IN  IF "/" \in ToSet(ctx.prefix) /\ rows # {} THEN Opened(rows, ctx.start, ctx.prefix)
         ELSE /\ menu' = [state |-> "pending", origin |-> ctx.start, token |-> ctx.prefix,
                          quote |-> ctx.quote, rows |-> rows]
              /\ UNCHANGED <<line, taken>>
  /\ UNCHANGED <<shellOf, keys>>

\* resolve_driver: what a reply offers, local rows only for the whole word
Offered(locals, base, quote, reply) ==
  (IF base.trimmed THEN {} ELSE locals)
    \cup Realigned(base.token, quote, reply.rows, reply.filenames)

\* The answer
Resolve ==
  /\ menu.state = "pending"
  /\ \E reply \in Replies(line) :
      LET base == Rebased(menu.origin, menu.token, reply.cur)
      IN  Opened(Offered(menu.rows, base, menu.quote, reply), base.origin, base.token)
  /\ UNCHANGED <<shellOf, keys>>

\* tab_extend: as far as another row goes with the one that is selected
Extension(row, rows, from) ==
  LET v == row.value
      shared(n) == \E r \in rows : r.value # v /\ StartsWith(r.value, SubSeq(v, 1, n))
      stops == {n \in from..Len(v) : n = Len(v) \/ ~shared(n + 1)}
  IN  IF from >= Len(v) THEN v ELSE SubSeq(v, 1, CHOOSE n \in stops : \A k \in stops : n <= k)

TabOnPopup ==
  /\ menu.state = "open"
  /\ \E row \in menu.rows :
      LET from == Len(line) - menu.origin
          e == Extension(row, menu.rows, from)
      IN  IF e # row.value /\ Len(e) > from
            THEN /\ line' = SubSeq(line, 1, menu.origin) \o e
                 /\ taken' = [how |-> "extend", file |-> row.file, end |-> Len(line')]
                 /\ menu' = NoMenu
            ELSE Accepted(menu.origin, row)
  /\ UNCHANGED <<shellOf, keys>>

Enter == /\ menu.state = "open" /\ \E row \in menu.rows : Accepted(menu.origin, row)
         /\ UNCHANGED <<shellOf, keys>>

PathNext == Run \/ Type \/ Tab \/ Resolve \/ TabOnPopup \/ Enter
PathSpec == PathInit /\ [][PathNext]_pathVars

-----------------------------------------------------------------------------
\* Properties

\* What is accepted for a file is read by the shell as that file, however its
\* word began, was quoted and was escaped, and whichever source offered it
\* (escape_for_context, realign_driver_path_candidates).
AcceptedNameIsRead ==
  taken.how = "accept" /\ taken.file # NoFile
    => Denoted(Operand(ShellWord(SubSeq(line, 1, taken.end)))) = taken.file

\* No row of the popup extends the path to something that is not there
\* (spec/04a: "completion must not extend to a bad path").
RowsExist ==
  menu.state = "open" /\ "/" \in ToSet(menu.token) => \A r \in menu.rows : r.file # NoFile

\* A word that Tab extends still leads to the file it was extended for, and to
\* another row: no choice is made before the rows part (tab_extend).
ExtensionKeepsTheChoice ==
  taken.how = "extend" /\ taken.file # NoFile
    => LET ctx == Context(line)
           rows(reply) == Offered(Local(ctx), Rebased(ctx.start, ctx.prefix, reply.cur), ctx.quote, reply)
       IN  \E reply \in Replies(line) :
             /\ \E r \in rows(reply) : r.file = taken.file
             /\ \E r, other \in rows(reply) : r.value # other.value

\* A line is ready for the next argument once a file is accepted: the blank
\* behind it ends the word (popup.rs, accept).
ReadyForTheNext ==
  taken.how = "accept" /\ Len(line) > taken.end => ShellWord(line) = <<>>
=============================================================================
