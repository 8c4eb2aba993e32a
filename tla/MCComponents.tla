---------------------------- MODULE MCComponents ----------------------------
\* What a process keeps beside the pane sessions: the stream filter, the tabs,
\* the text of finished commands and what is selected of it, the history and the
\* probes. Each is a behaviour of its own: `which` says whose it is, the
\* variables of the others rest.
EXTENDS StreamFilter, History, Workspace, Probes, Selection

VARIABLE which

\* Submitted lines, and what the shell may answer with: an echo, markers whole
\* and cut, a title, text behind a marker.
MCLines == {<<"a", "cr">>, <<"a", "lf", "b", "cr">>}
MCOutputs == {<<"a">>, <<"hook", "precmd1", "unhook">>, <<"hook", "finished", "unhook">>,
              <<"osc2">>, <<"hook", "a">>}

\* The theorem about the echo and the markers is about streams like these.
ASSUME StreamIsPlain

\* Selection: wide, bold and coloured cells, blank and empty rows, a link.
MCSelBlocks == {[command |-> <<>>, output |-> <<<<"a", "_", "W", "b", "_">>, <<>>, <<".", "#">>>>],
                [command |-> <<<<"a", "_", "a">>, <<"b">>>>, output |-> <<<<"W", "W", "B">>>>]}
MCLinks == {[line |-> 0, from |-> 2, to |-> 3]}

MCTexts == {<<"a", "b">>}

\* What the theorem about whole units supposes of text and links.
ASSUME SelAssumption

ComponentsInit ==
  /\ which \in {"stream", "tabs", "text", "history", "probes"}
  /\ FilterInit /\ HistoryInit
  /\ WsInit /\ (which # "tabs" => Open(ws) = {1})
  /\ SelInit /\ (which # "text" => width = 2)
  /\ ProbesInit /\ (which # "probes" => tree = "main" /\ chips.dir = "home")

StreamStep ==
  /\ which = "stream" /\ FilterNext
  /\ UNCHANGED <<which, wsVars, selVars, historyVars, probeVars>>
TabsStep ==
  /\ which = "tabs" /\ WsNext
  /\ UNCHANGED <<which, filterVars, selVars, historyVars, probeVars>>
MarksStep ==
  /\ which = "text" /\ SelNext
  /\ UNCHANGED <<which, filterVars, wsVars, historyVars, probeVars>>
HistoryStep ==
  /\ which = "history" /\ HistoryNext
  /\ UNCHANGED <<which, filterVars, wsVars, selVars, probeVars>>
ProbesStep ==
  /\ which = "probes" /\ ProbesNext
  /\ UNCHANGED <<which, filterVars, wsVars, selVars, historyVars>>

ComponentsNext == StreamStep \/ TabsStep \/ MarksStep \/ HistoryStep \/ ProbesStep
ComponentsSpec ==
  ComponentsInit /\ [][ComponentsNext]_<<which, filterVars, wsVars, selVars,
                                         historyVars, probeVars>>
-----------------------------------------------------------------------------
\* The properties are those of the modules; they hold of what rests too.
=============================================================================
