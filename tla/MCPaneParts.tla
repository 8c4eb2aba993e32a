----------------------------- MODULE MCPaneParts ----------------------------
\* What a pane shows and how it is driven, but for the session: the editor's
\* buffer, find, the keyboard, file names, sizes, the scrolled
\* view. Each is a behaviour of its own: `which` says whose it is, the
\* variables of the others rest.
EXTENDS PromptEditor, PaneSize, KeyRouting, PaneView, Find

CONSTANTS
  PathShells, PathKeys, PathTree, PathMoves, MaxKeys

VARIABLES which,
  line, menu, shellOf, keys, taken

\* Pastes and earlier commands: a word, a blank, a line end, and a character of
\* more than one unit.
MCTexts == {<<"w", "s", "L", "C">>, <<"w", "n", "L", "C">>}
MCPastRest == <<<<"w", "s", "L", "C">>>>

\* Find: a match across a repeated letter, two cases, an empty command.
MCFindBlocks == {[command |-> <<<<"a">>>>, output |-> <<<<"A", "a", "a", "_">>>>],
                 [command |-> <<>>, output |-> <<<<"a", "_", "a">>, <<"_", "_">>>>]}
MCQueries == {<<>>, <<"a">>, <<"a", "a">>, <<"(">>, <<"_">>}
MCPast == <<<<"a">>, <<"a", "a">>>>

\* Keyboard: every single key, and the pairs where the first changes the reader
\* of the second.
MCKeyFrames ==
  {<<>>}
  \cup {<<k>> : k \in {"x", "enter", "esc", "tab", "ctrl_c", "ctrl_d", "ctrl_x",
                       "history", "sheet", "find", "copy"}}
  \cup {<<"enter", "x">>, <<"enter", "ctrl_d">>, <<"x", "enter">>, <<"history", "enter">>,
        <<"ctrl_c", "x">>, <<"x", "ctrl_x">>, <<"sheet", "x">>, <<"esc", "x">>,
        <<"find", "history">>}

\* Names: blanks, stars and dollars, two names with a common head, and one
\* name in two directories.
MCTree == [cwd |-> {[name |-> <<"a", "_", "a">>, dir |-> TRUE],
                    [name |-> <<"a", "_", "*">>, dir |-> FALSE],
                    [name |-> <<"a", "a">>, dir |-> FALSE]},
           sub |-> {[name |-> <<"a", "_">>, dir |-> FALSE]},
           home |-> {[name |-> <<"a", "B">>, dir |-> FALSE],
                     [name |-> <<"a", "D", "$">>, dir |-> FALSE]},
           named |-> {[name |-> <<"a", "_", "a">>, dir |-> FALSE],
                      [name |-> <<"a", "*">>, dir |-> FALSE]}]

\* Sizes, in cells.
MCAvail == {[rows |-> 4, cols |-> 4], [rows |-> 6, cols |-> 4], [rows |-> 5, cols |-> 6]}
MCRest == [rows |-> 5, cols |-> 6]
MCFirst == [rows |-> 24, cols |-> 80]
MCMin == [rows |-> 2, cols |-> 2]

Names == INSTANCE PathCompletion

nameVars == <<line, menu, shellOf, keys, taken>>

NamesIdle == /\ line = "idle" /\ menu = "idle" /\ shellOf = "idle" /\ keys = "idle"
             /\ taken = "idle"

PanePartsInit ==
  /\ which \in {"editor", "find", "keys", "path", "size", "view"}
  /\ EditorInit /\ (which # "editor" => ed = NewEditor /\ past = MCPastRest)
  /\ FindInit
  /\ KeyInit /\ (which # "keys" => os = "mac")
  /\ IF which = "path" THEN Names!PathInit ELSE NamesIdle
  /\ SizeInit /\ (which # "size" => avail = MCRest)
  /\ ViewInit

EditorStep ==
  /\ which = "editor" /\ EditorNext
  /\ UNCHANGED <<which, findVars, keyVars, nameVars, sizeVars, viewVars>>
FinderStep ==
  /\ which = "find" /\ FindNext
  /\ UNCHANGED <<which, editorVars, keyVars, nameVars, sizeVars, viewVars>>
KeyboardStep ==
  /\ which = "keys" /\ KeyNext
  /\ UNCHANGED <<which, editorVars, findVars, nameVars, sizeVars, viewVars>>
NamesStep ==
  /\ which = "path" /\ Names!PathNext
  /\ UNCHANGED <<which, editorVars, findVars, keyVars, sizeVars, viewVars>>
SizeStep ==
  /\ which = "size" /\ SizeNext
  /\ UNCHANGED <<which, editorVars, findVars, keyVars, nameVars, viewVars>>
ScrollStep ==
  /\ which = "view" /\ ViewNext
  /\ UNCHANGED <<which, editorVars, findVars, keyVars, nameVars, sizeVars>>

PanePartsNext == EditorStep \/ FinderStep \/ KeyboardStep \/ NamesStep \/ SizeStep \/ ScrollStep
PanePartsSpec ==
  PanePartsInit /\ [][PanePartsNext]_<<which, editorVars, findVars, keyVars,
                                       nameVars, sizeVars, viewVars>>
-----------------------------------------------------------------------------
\* The properties of the parts; each module states its own. Those of
\* the modules that are extended also hold of what rests, and are checked as they
\* stand.

\* An accepted file name is read by the shell as that file; no row and no Tab
\* leads anywhere else (local.rs, popup.rs).
NamesAreRead ==
  which = "path" => /\ Names!AcceptedNameIsRead /\ Names!RowsExist
                    /\ Names!ExtensionKeepsTheChoice
=============================================================================
