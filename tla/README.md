# Termica: verification

Termica is a desktop terminal in Rust (egui). Instead of the shell's line
editor it shows one of its own: a script injected into zsh, bash or fish
reports the life cycle of every command through escape sequences, and the
terminal turns each command into a *block* with its own output. What can go
wrong is mostly a matter of *who thinks what when*: the UI thread learns of the
shell through a byte stream read once per frame, the user types in between,
worker threads answer late, several processes share one database, and the shell
has its own idea of where it is.

This directory holds TLA+ models of the program, TLC configurations that check
them on small instances, and TLAPS proofs of what matters most for all of them.

## The system

| Component | Source | State | Operations |
|---|---|---|---|
| Pane mode controller | `src/shell.rs` | mode, integration, last transition, spawn frame, pending and completed command | lifecycle events, alternate-screen edges, PTY exit, frame tick, submit, leave, restart |
| Block stack | `src/block.rs` | sealed blocks, the live tail with its editor, next id | start running, seal, clear, adopt restored blocks |
| Pane session | `src/pane.rs` | the two above, `last_submitted`, `last_alt_screen`, `exited`, requests in flight | `drain` per frame, submit, abort, completion request, write, clear, restart |
| Integration scripts | `integration/*-bootstrap.*` | skip flag, hooks | markers around each command, PS2, the completion sentinel |
| Stream | `src/echo_suppress.rs`, `markers.rs`, `osc.rs`, `terminal.rs` | one armed echo, a marker half read, main and alternate grids | prime, filter, sniff, feed, snapshot, reset |
| Keyboard | `src/render_pane.rs`, `input.rs`, `keybindings.rs` | egui's focus, open popups and overlays, `editor_active` of the frame | claim focus, popup chords, editor keys, pass-through, copy |
| Prompt editor | `src/prompt_editor.rs` | text, caret, anchor, undo and redo, history walk | edits, motions, pointer, undo, walk |
| Completion | `src/completion/` | plan, popup, awaited request, driver worker and cache | Tab, live filter, poll, time out, accept |
| History | `src/history/`, `history_overlay.rs` | the runs table, captures in progress, replay of the shells' files | record, stamp, recall, search, replay, trim |
| Find | `src/find.rs` | query, matches, the bright one, past queries | recompute, step, walk, submit |
| Text | `src/reflow.rs`, `persist/chunk.rs` | none (functions) | unwrap, wrap, encode, decode, logical and visual places |
| Selection | `src/block_selection.rs`, `pane_selection.rs`, `selection.rs` | the grid's and the blocks' selection | press, drag, double click, Shift, copy |
| Sizes and view | `src/render_pane.rs` | committed and awaited size; scroll, pinned header | plan a resize, page, jump to a match |
| Persistence | `src/persist/` | chunk files, rows, locks, layout | seal, clear, restore, collect |
| Window | `src/app.rs`, `behavior.rs`, `pane_slot.rs` | panes, tab strips, focus, pending closes, quit, saved layout | the frame, tabs, drag, close, restart, quit |
| Probes | `src/git_probe.rs`, `gh_probe.rs` | a request slot and a worker each, the chips | request, coalesce, answer |

They interact through calls on the UI thread, in a fixed order inside a frame;
through two byte streams to and from the shell; through channels to worker
threads (chunk writer, collector, completion driver, probes); and, between
processes, through one database and one data directory. The hard parts: a drain
that feeds *all* bytes before it handles the *first* event; a frame that decides
early and acts late; a belief about the shell (`last_submitted`) that must
survive multi-line commands and aborts; programs that die with the alternate
screen up; answers that come after their question was dropped; crashes between a
file and its row; and two pieces of code that compute the same thing, one to
paint and one to copy. `PROJECT.json` lists every hazard at its line.

## The modules

| Module | Models | Its state and steps |
|---|---|---|
| `PromptController` | `shell.rs` | the mode machine: an action for each event, edge, tick and gesture |
| `InputGate` | (abstract) | the owner of the keyboard, and whether the shell is trusted |
| `PromptControllerHistory` | | the controller with history variables, and its mapping to `InputGate` |
| `BlockStack` | `block.rs` | the transcript, and the screens a seal looks at |
| `PaneSession` | `pane.rs`, the scripts | one pane: instances of the two above, the streams, the shell, the user |
| `StreamFilter` | echo, markers, OSC 7 | bytes with a ghost tag, echo or output; reads cut anywhere |
| `ScrollbackStore` | `persist/`, its tables | processes, writer threads with a queue, collectors; a step is one file or database operation |
| `Transcript` | (abstract) | a pane's restorable transcript: one more block at its end, or fewer blocks |
| `Completion` | `completion/` | a frame (drain, paint, mouse, keys, live filter) against the shell and the driver thread |
| `PathCompletion` | `local.rs`, `popup.rs`, the scripts' word | names quoted into a line and read back by a shell; bash's capture parts words in a way of its own |
| `History` | `history/` | processes with panes on one table; replays of files that grow |
| `Workspace` | `app.rs`, `behavior.rs` | a step is one frame of `TermicaApp::update`, its stages composed in order |
| `PromptEditor` | `prompt_editor.rs` | text in units, caret as a byte offset, undo, walk, pointer |
| `Find` | `find.rs` | sealed and live text that changes while an overlay is open |
| `KeyRouting` | `render_pane.rs`, `input.rs` | two panes rendered one after the other, a frame's press, wheel and keys |
| `Reflow`, `Selection` | `reflow.rs`, `chunk.rs`; selections | pure functions; press and drag over blocks of wrapped text |
| `PaneSize`, `PaneView` | `render_pane.rs`, `app.rs` | sizes in cells and ticks; heights in rows |
| `Probes` | `git_probe.rs`, `gh_probe.rs` | requests, workers, checkouts |
| `Sublist` | | the entries of a sequence at a set of places, in order |
| `*Proofs`, `ScrollbackStoreInvariant` | | invariants and theorems, see below |
| `MC*` | | what TLC runs; the `.cfg` files choose the bounds |

**Controller.** A frame counter only matters as "was the last transition made
in this frame" (`last.fresh`, the debounce) and "how old is this shell run"
(`age`, capped at the timeout). The command in `PendingCommand` matters as
absent, unnamed (after Enter, before Preexec) or named.

**Block stack.** Texts, commands and rows are opaque. `grid` holds the rows of
the main screen since the last reset, `alt` whether the other screen is up;
`Snapshot` and `ResetScreen` act on the one that is up, as `terminal.rs` does
through the active grid.

**Pane session.** `drain` is split into steps: feed and tick (`Drain`), the
alternate-screen edge (`SyncAlt`), one action per event, `RecoverAlt` for a
Precmd that finds the alternate screen up, then `OnPtyExit` and `EndDrain`,
where `render_pane` samples `editor_is_active`. Between drains (`phase =
"input"`) the user's keys and the shell act; during a drain neither does,
because the drain works on bytes delivered before it began. A drain may take any
prefix of what the shell has written. A text is a sequence of lines, each
complete (`"done"`), open (`"more"`) or empty: that is what continuation and the
diff against `last_submitted` depend on. The diff is on lines: editing *inside*
the last line already sent is replacing that line. The shell is the bootstrap
script: zsh stands for bash too, which differs only in a bootstrap that can
fail; fish reads a whole text per line, runs even a blank one, and holds nothing
between reads. `Moves` names what a run's shell and user may do: the program
prints (`out`), uses the alternate screen (`alt`), may die inside it (`zombie`);
the bootstrap fails (`fail`) or is slower than the timeout (`slow`), the shell
exits (`exit`); texts of several commands (`paste`); Tab, lines typed with no
editor, Cmd+K (`complete`, `raw`, `clear`). Outside `src/`, and modelled from
how the code meets them, are the program in the pane (`ProgramSays`,
`ProgramScreen`, `Finish`), which may swallow the keys that wait for it, and the
shell process going away (`ShellExits`). The tty may or may not throw away
unread input on a Ctrl+C.

**Store.** The ghosts remember which block was sealed where, discarded, durable
or collected. A crash may come between any two steps; only one that cuts a
discard short lets its blocks come back. A collector acts late, by ids, on what
it saw early: `Calm` keeps restarts, clears and closes from running while a
collector does, which in the program is the second or so after a launch, and
`StartGc` keeps a process from starting while another one's collector is at
work or its pane is half begun. The code does neither. The moves `"hasty"` and
`"overlap"` take these restrictions away; what is lost then is in the second
table below.

**Window.** The tree is a row of strips; a strip is its tabs and the active one.
Nested splits are not modelled: no stage looks at more than the strip of a tab.
A pane's slot says whether it has a row in the database (`mapped`); a new shell
may come without one or not start at all, which uses up a pane id (`Spawns`).

The parts that share no state with the session are checked side by side in two
compositions: `which` chooses whose behaviour it is, the variables of the others
rest. `MCComponents` takes the stream, the window, text and selection, the
history and the probes; `MCPaneParts` the editor, find, keyboard, path names,
sizes and the view.

## What the runs check

| Run | Question | Bounds |
|---|---|---|
| `controller` | every order of events, ticks and gestures | a timeout of 4 frames |
| `pane_lockstep` | a user who waits for the screen to settle | 3 submits, 3 lines, zsh and fish |
| `pane_returns` | does the editor come back after every command, dead programs included | 2 submits, 2 lines |
| `pane_any_order` | a user and a shell that act whenever they can | 2 gestures, one line, one restored block |
| `store` | two processes, crashes, failing writes, collectors | 2 panes, 3 sessions, 2 launches, 2 blocks (one of no lines) |
| `completion` | keys and answers in every order | 4 user actions, 2 keys, mouse, expiry |
| `components` | see below | 2 submits and 2 outputs; 4 panes, 2 strips, 3 things in any frames; widths 2 and 3, 2 blocks, 2 gestures; 2 processes, 2 runs, a cap of 1; 2 moves, 2 checkouts |
| `pane_parts` | see below | 3 edits; 2 blocks, 5 asks; 6 events; 3 keys; 5 changes of size; 2 blocks of 1 to 6 rows in 10 |

`controller`: `TypeOK`; a user who left the editor is not pulled back
(`RawByChoice`); the bootstrap ends (`BootstrapEnds`, liveness); the controller
implements `InputGate` (`ImplementsGate`).

`pane_lockstep`: what the pane believes the shell holds is what it holds, blank
lines apart (`ContinuationAgreement`); the shell runs what was submitted, whole
and once (`RunsWhatWasSubmitted`); a sealed block holds only its own command's
output (`SealedOutputIsOwn`); every command has one block, in order
(`EveryCommandHasItsBlock`). These are promises to a user in lockstep: typing
ahead and pasting break the first (`v_stuck`), and several commands finishing
inside one drain share the first one's seal.

`pane_returns`: after every command the editor comes back (`EditorReturns`).
`pane_any_order`, without lockstep: `EditorNeverCoversProgram`, `AltMatchesMode`
(mode and screen agree between frames), `IdsIncrease`.

`store`: what a pane shows is on disk or on its way (`ScreenIsStored`); what was
cleared or closed does not come back (`ClearedStaysCleared`); what got a file
and a row is lost only to the user or the collector (`DurableUntilDiscarded`);
the collector takes nothing of a live pane (`CollectsNoneAlive`); the store
implements `Transcript` (`ImplementsTranscript`).

`completion`: a cached answer fits its question (`CacheFitsTheQuestion`); what
is merely typed never inserts a candidate (`TypingNeverAccepts`); what is
awaited is answered, timed out or dropped (`AwaitedIsResolved`, liveness).

`components`: wherever a read cuts the stream, the same comes through
(`ChunksDoNotMatter`), and neither echoes nor markers reach the grid of a
program (`EchoAndMarkersAreOut`); every strip shows one of its tabs
(`EveryStripShowsItsOwn`), a layout that differs from the saved one is due
(`NoUnsavedLayout`), no program dies without its user's word
(`NoProgramKilledUnasked`); what is highlighted is what is copied
(`HighlightIsCopied`; that it is of the selection begun last,
`CopyIsOfTheLastSelection`, holds under the same bounds and is in no run), a word or line taken by clicks stays whole while the drag
goes on (`WholeUnitsStaySelected`), text survives the wrap, the seal and the
disk (`TextSurvives`); an exit code is stamped on its own run (`ExitIsOfItsRun`),
a pane recalls its own commands and the overlay lists its scope
(`RecallIsExact`), a line of a shell's file is one
run, however often it is replayed (`ReplayIsIdempotent`); the chips are of the
directory and branch the pane is in once the probes are quiet
(`ChipsAreCurrent`).

`pane_parts`: carets lie on boundaries, `UndoCoversEveryEdit`, `FindIsExact`,
the bright match stays while output arrives (`MatchHolds`), a key is read once,
by the reader the frame's state says, in order (`KeysReachTheirReader`), an
accepted name is read by the shell as that file, through bash's own words and
the range that moves to them too (`NamesAreRead`), shell, grid
and frame come to one size (`SizesSettle`), no row is skipped by paging or left
under the pinned header (`NoRowStaysCovered`).

*Why the bounds are enough.* A continuation needs an open line, a second one to
close it and a third to be wrong about. A mistake in a seal shows in the next
block, so two commands suffice; a third starts from the state of the second. The
timeout matters as before, at and after. In the store the shortest losses need
two launches of one process with another beside it, or a collector that decides,
another launch, and the deletion; sequence numbers only matter as used again or
not, which two blocks in one session show. An answer can be late by one request
and no more, since only the latest id is kept. The window's hazards are pairs:
two things in one frame, or one in a frame after another; three things on four
panes also cover what is held over from an earlier frame. A wide character at an
edge needs widths 2 and 3. The history's hazards are an id freed by a trim and
given out again (a cap of one row), and two replays at once. The editor's undo
coalesces two edits and ends the group with a third. Runs with such bounds stop
when they are used up, so all but `controller` leave deadlock unchecked. Each
property has a mutant in `PROJECT.json`, a plausible bug that TLC finds under
the same bounds.

*Fairness.* The app repaints, and drains every pane, at least every 300 ms
(`app.rs`, `update`): `WF(Tick)` in the controller; `WF(FrameNext)` and
`SF(DrainAll)` in the pane, since a drain takes all that has been delivered;
`WF` of the steps of a frame in `Completion`. That the shell reads its input and
its commands end (`SF` of `Boot`, of the reads and of `Finish`) is assumed only
for `EditorReturns`, which would otherwise be about the shell. A live completion
times out after 600 ms (`SF(TimesOut)`: the clock goes on whatever else the
frame does) and the driver's worker works (`WF`). Nothing is assumed of the
user, nor of the shell in `Completion`.

## Where the docs and the code differ

| Run | The docs say | The run shows |
|---|---|---|
| `v_stuck` | `awaiting_continuation` is true when a continuation is pending (`pane.rs:1476`) | paste a whole command and an open one: it is false, Ctrl+C is inert |
| `v_stale_completion` | a superseded request's late answer is dropped (`pane.rs:1263`) | it waits for whoever polls next: the next Tab gets the answers to the last one |
| `v_tabless` | a window never stays without tabs (`app.rs:1003`) | one of two shells exits in the frame in which the other's tab is closed by its X: the window stays, with no tab, no quit and no question whether to quit |
| `v_cleared` | cleared content does not reappear on the next launch (`pane.rs:1004`) | Cmd+K in a restored, dead pane has no writer to clear with: it reappears |

The modules state more of what the docs say; these definitions are in no run and
fail with the constants given (the others
as in the run that has the module).

| Definition | Fails with | Because |
|---|---|---|
| `PromptControllerHistory!DegradedNeverEdits` | | a late handshake and the alternate screen on and off open the editor of a run that "will never" have one (`shell.rs:82`) |
| `PaneSession!CompletionOnlyAtPrompt` | lockstep, `Moves {"complete"}`, 2 submits of 2 lines | Tab at PS2 types the sentinel into the command (`pane.rs:1244`) |
| `PaneSession!SealedOutputIsOwn` | lockstep, `Moves {"out", "alt", "zombie"}`, 2 submits | a program that prints and dies in the alternate screen leaves its output to the next block (`terminal.rs:522`) |
| `StreamFilter!NoOutputDropped`, `EchoNeverShown` | | one expectation is held: output that looks like the echo goes, and a second submit shows the first one's echo (`echo_suppress.rs:24`) |
| `KeyRouting!OneKeyboard` | `KeyMoves {"together"}` | a press on the later pane and a key in one frame: both panes type it (`render_pane.rs:3297`, `3695`) |
| `KeyRouting!KeysArriveInOrder` | `KeyMoves {"let_go"}` | Shift up before the frame is read turns a copy into SIGINT on Linux (`render_pane.rs:3789`) |
| `KeyRouting!KeysStayHome` | `KeyMoves {"slow"}` or `{"leave"}` | Cmd+F leaves a completion pending, which opens beside it (`pane_slot.rs:248`); a popup left open in a pane, or opened by an answer after the pane lost the keyboard, takes the keys of another |
| `Probes!PullRequestOfTheBranch` | `ChipMoves {"back"}` | back on the branch that git was last asked about, no new request is made, and another branch's pull request stays |
| `Completion!AwaitedIsResolved` | `Moves {"nowrite"}` | a PTY write that fails leaves a request nobody answers or times out (`pane.rs:1268`) |
| `Completion!AwaitedIsResolved` | `Moves {"nocwd"}` | in a pane that knows no directory nothing is asked, though a completion is awaited (`pane.rs:1215`, `render_pane.rs:4177`) |
| `Completion!TypingNeverAccepts` | `Moves {"fast"}` | a command that ends before a frame sees the editor gone keeps its completion pending |
| `PathCompletion!ReadyForTheNext` | | a name accepted inside an open quote gets its blank inside the quote: the line is not ready for the next argument (`popup.rs:91`) |
| `PathCompletion!AcceptedNameIsRead` | `PathMoves {"dollar"}` with the keys `$` and `V`, `{"midquote"}`, `{"tilde"}` | a `$V` in front of a slash, a quote inside a word and a tilde behind an open quote are read in another way than the shell does (`local.rs:144`, `307`) |
| `PathCompletion!AcceptedNameIsRead` | `PathMoves {"split"}`, bash | the capture parts a line at blanks, quotes and `=`, also inside quotes and behind a backslash, so it completes another word than the shell reads, and the range is computed from the unescaped token (`bash-bootstrap.bash:124`, `completion/mod.rs:363`) |
| `PathCompletion!AcceptedNameIsRead` | `PathMoves {"verbatim"}`, bash | candidates that are not file names lose their own backslashes and are inserted without new ones (`completion/mod.rs:476`, against "exactly as bash would", `:420`) |
| `History!ExitIsOfItsRun` | `HistFaults {"busy", "overrun"}` | an insert that fails while the last run is unfinished leaves that run's id, on which the exit of the new one is stamped (`capture.rs:67`) |
| `PromptEditor!WalkShowsItsEntry` | | a cut, a drag or an accepted overlay entry changes the text and keeps the walk (spec/04:355) |
| `Find!QueriesAreKept` | `FindMoves {"reopen"}` | Cmd+F in an open overlay drops the submitted queries (`app.rs:772`) |
| `PaneSize!ShellGetsItsSize` | `SizeMoves {"hasty"}` | `restart_pane` keeps `last_size`: back at that size within a debounce, no resize is sent (`app.rs:597`) |
| `PaneView!FoundRowIsVisible`, `NoRowSkipped` | `CommandRows {5}`, the second with `{4}` too | a command taller than the pinned header's cap: no margin is left for its hidden rows; and a page minds the viewport, not what the header covers, which with its gap is more than the page's margin of four rows (`render_pane.rs:1711`, `2240`) |
| `Selection!CacheFollowsBlocks` | | the cache is kept by width and number of blocks: after a clear and a seal the map is that of a block that is gone (`render_pane.rs:1451`) |
| `Workspace!RefocusesMostRecent` | 2 strips, 4 acts | a tab closed in the frame in which it gets the focus is put back into `focus_history`, and is the heir when the next one closes (`app.rs:1259`) |
| `History!NewestFirst` | | a line of bash gets its place in the file, negated, for a time: later lines count as older (`replay.rs:110`) |
| `ScrollbackStore!CollectsNoneAlive` | `Procs {p}`, `Moves {"quit", "gc", "hasty"}`, 2 launches, 2 sessions | `gc` probes a pane's lock, drops it and deletes later: a pane restarted in between is live and loses its chunks (`gc.rs:100`, against "never deletes a chunk a live pane could re-page", `gc.rs:193`) |
| `ScrollbackStore!DurableUntilDiscarded` | `Moves {"quit", "gc", "overlap"}`, 3 launches, 2 panes, 2 sessions | row ids are given out again (`db.rs:277`): of two collectors that listed one row the second deletes, by its id, a live pane's new row (`gc.rs:170`, against spec/08:338) |
| `ScrollbackStore!NoPaneInTwoProcesses` | `Moves {"dual", "quit"}`, 3 launches, 4 sessions | two processes restore one saved workspace (spec/08:317) |

Smaller ones seen on the way: the wheel in the alternate screen works in the
focused pane only, though `render_pane.rs:1317` says otherwise; `needs_focus` is used
up under a modal; keys behind an Enter in its frame are lost; the collector's
cleanup may remove a live writer's temporary file (`gc.rs:213`); the failed
delete of a clear starts the sequence numbers over; orphaned chunks are not
recovered (spec/08:307); two processes overwrite each other's layout; `git_context` is not compared with the
directory of its probe (`pane.rs:863`).

## What is proved

For every value of the constants, under the named assumptions:

| Theorem | Says | Assumes |
|---|---|---|
| `PromptControllerProofs!ControllerSafety` | types, mode and reason agree, the handshake gates the editor, no command without a shell, a bootstrap is young | `TimeoutAssumption` |
| `PromptControllerProofs!RawByChoiceHolds` | `RawByChoice` | `TimeoutAssumption` |
| `PromptControllerProofs!ControllerImplementsGate` | the refinement of `InputGate` | `TimeoutAssumption` |
| `PaneSessionProofs!SessionIdsIncrease` | `IdsIncrease` | `ShellAssumption`, `BoundAssumption` |
| `PaneSessionProofs!PaneControllerIsSafe` | every pane's controller is as safe as one alone | `FramesAssumption`, and those of the pane |
| `PaneSessionProofs!ScreenAgrees` | `AltMatchesMode` | the same |
| `PaneSessionProofs!ProgramKeepsItsKeys` | `EditorNeverCoversProgram` | the same, whatever the moves |
| `PaneSessionProofs!ContinuationIsShared` | `ContinuationAgreement` | the same, and `PatientUser` |
| `PaneSessionProofs!SubmittedTextRuns` | `RunsWhatWasSubmitted` | the same |
| `PaneSessionProofs!EveryCommandIsABlock` | `EveryCommandHasItsBlock` | the same |
| `PaneSessionProofs!BlocksHoldTheirOwn` | `SealedOutputIsOwn` | the same, and no `"zombie"` among the moves |
| `ScrollbackStoreProofs!ScreensAreStored` | `ScreenIsStored` | `StoreAssumption`, and `CalmUser` |
| `ScrollbackStoreProofs!ClearedStaysGone` | `ClearedStaysCleared` | the same |
| `ScrollbackStoreProofs!WrittenStays` | `DurableUntilDiscarded` | the same |
| `ScrollbackStoreProofs!StoreKeepsItsPromise` | `ImplementsTranscript`: the refinement of `Transcript` | the same |
| `ScrollbackStoreProofs!CollectorSparesTheLiving` | `CollectsNoneAlive` | `StoreAssumption`, no `"hasty"`, `"overlap"` or `"dual"` |
| `ComponentsProofs!FilterIgnoresChunks` | `ChunksDoNotMatter` | `StreamAssumption`: lines and outputs are sequences |
| `ComponentsProofs!EchoesStayOut` | `EchoAndMarkersAreOut` | `StreamIsPlain`: what Termica writes has no escapes and no messages, and a message is written in one piece with its escapes |
| `CompletionProofs!CacheHoldsAnswers` | `CacheFitsTheQuestion` | none |
| `CompletionProofs!TypingIsSafe` | `TypingNeverAccepts` | no `"fast"` among the moves |
| `PanePartsProofs!SizesAreRight` | `SizesSettle` | `SizeConstants`: room for a dead pane's panel, no `"hasty"` |
| `PanePartsProofs!CaretsStayOnBoundaries` | `CaretsOnBoundaries` | `EditorAssumption`: texts are strings |
| `PanePartsProofs!UndoIsComplete` | `UndoCoversEveryEdit` | the same |
| `PanePartsProofs!KeysFindTheirReader` | `KeysReachTheirReader` | `KeyAssumption`: a frame brings keys; none of the four `KeyMoves`, and `CopiesAlone`: what is copied comes alone in its frame |
| `PanePartsProofs!RowsComeIntoView` | `NoRowStaysCovered` | `ViewAssumption`; `RoomForHeaders`: every command fits the pinned header, the header fits the page's margin and half the view |
| `PanePartsProofs!FindShowsEveryOccurrence` | `EveryOccurrenceIsShown`: the matches cover every occurrence and are nothing else, block by block in order | `FindAssumption`: texts are sequences of letters |
| `PanePartsProofs!BrightMatchStays` | `MatchHolds` | the same |
| `PanePartsProofs!FindsWhatThereIs` | `FindIsExact` | the same, and `QueriesFit`: no more queries than the history holds, no `"reopen"` |
| `ComponentsProofs!UnitsStayWhole` | `WholeUnitsStaySelected` | `SelAssumption`: text is strings of characters, a link a stretch of a line, a width a column or more |
| `ComponentsProofs!LinesAreRunOnce` | `ReplayIsIdempotent` | none |
| `ComponentsProofs!PanesRecallTheirOwn` | `RecallIsExact` | `HistoryAssumption`: texts are sequences of words |
| `ComponentsProofs!ExitsAreStamped` | `ExitIsOfItsRun` | a cap of at least one row, no `"overrun"` |
| `ComponentsProofs!ChipsCatchUp` | `ChipsAreCurrent` | `ProbesAssumption`, no `"back"` |
| `WorkspaceProofs!TabsStayShown` | `EveryStripShowsItsOwn` | a quit's countdown lasts a frame |
| `WorkspaceProofs!LayoutIsSaved` | `NoUnsavedLayout` | the same |
| `WorkspaceProofs!ProgramsCloseWhenAsked` | `NoProgramKilledUnasked` | the same |

Why the invariants have to be strengthened:

- *Controller.* `Inv` has three parts, `Types`, `Coherence` and `AgeInv`, that
  need each other: leaving Bootstrapping at the timeout keeps the age small,
  types keep the transitions inside their sets. `RawByChoice` is not inductive:
  the continuation gate reads only the reason of the last transition. `HInv`
  adds that while the choice stands that reason is not a submit.
- *Pane.* A step keeps the tail's id and the sealed blocks, seals the tail, or
  clears (`StackShape`). Every call a pane makes is a step of the controller
  (`CallsAreSteps`), so `ControllerSafety` carries over. `AltMatchesMode` needs
  the first frames: until the bootstrap is over nobody writes to the shell, so
  there is no edge in the stream (`Unspoken`); after it every edge that is
  latched was told to the controller (`Latched`). `EditorNeverCoversProgram`
  needs what is still on its way: the last lifecycle event in stream and queue
  says what the shell is doing (`ProgramShows`).
- *Dialogue.* `PatientUser` is `Lockstep` with no raw lines, completions or
  texts of several commands: with any of these the properties are false
  (`v_stuck`, and the table above). The invariant says for every state of the
  shell what the pane still has to hear (`Ahead`: at most one command's markers,
  in order), and what it holds then: at the prompt the shell holds nothing, and
  what is unread is nothing or one whole submit (`AtPrompt`, `Submission`); at
  PS2 what it holds together with what is unread is the text submitted (`Sent`),
  or an abort is on its way and the pane has forgotten it (`Aborted`); what runs
  is the text submitted (`AtRunning`). Each part is needed by the next:
  `ContinuationAgreement` is `Sent` once all is read.
- *Blocks.* The markers on their way and the tail carry the number of the shell's
  last command, and the sealed blocks with the unsealed one are as many as that
  number (`Numbered`, `Counted`): a Precmd can neither seal twice nor be missed.
  For the output, the rows of the screens are the running command's and wait for
  its block (`Owned`, `Screens`), and the last edge on its way says which screen
  the program has up, so a seal never looks at the other one. `Sublist` holds
  what this needs of "the sealed blocks that belong to a command": how the
  entries at a set of places grow with an append. The library's induction
  theorems cannot be used here, so the lemmas count with a least counterexample
  in a set of numbers (`Least`, `Induction`).
- *Store.* `CalmUser` leaves out the five moves under which the store is known to
  lose or keep too much: `"clear_dead"` (`v_cleared`), `"hasty"`, `"overlap"` and
  `"dual"` (the table above), and `"fail_chips"`, after which a row whose chips
  could not be written shares its file name with the next one. Every other move
  is allowed, whatever the number of processes, panes, sessions, launches and
  blocks. The invariant is built in three storeys. `DiskInv`: a pane's row is in
  one tab of one process, whose session is the row's latest and locked (`Own`), so
  no two writers work for one pane; a writer's queue is of its pane's blocks in
  the order of the seals (`QueuesOK`); a block that waits has no file and no two
  files hold one block (`FilesOK`), though names are used again after a failure,
  a clear and a restart; and each writer goes on after all rows of its pane
  (`WritersRows`). `GcInv`, inside it, says what a collector's list is still worth
  when it acts: the rows it saw are there under their ids, and a pane it found dead
  stays dead (`GcRows`, `GcDead`). `PromiseInv` adds the history: a clear covers
  all that was sealed before it was asked for (`ClearsCover`), and what is cleared
  and still on disk or queued has a clear ahead (`ClearsAhead`), which makes
  `ClearedStaysCleared` inductive. `ScreenInv` adds the tabs, both ways: what is
  shown is stored once it is durable, and what is stored or queued is shown or
  cleared. The steps of `Next` are first reduced to a few shapes by what they do
  to files, rows, queues and tabs (`Shape`, `TabFrom`), so that each part of the
  invariant is proved once per shape. For the refinement, a restore is a sequence
  of rising block numbers (`StoreShows`) and two such with the same blocks are
  equal (`RisingEqual`): a step that stores a block appends it, any other keeps
  the blocks still stored.
- *Stream.* The suppressor's state is what one call with all the bytes would
  have left; the lemmas are about the longest agreement of two sequences, cut
  and joined. The messages the sniffer has told, the one it has begun and those
  on the wire are, at every byte, the messages sent (`Told`), since those on the
  wire are whole (`Framed`): a cut can fall inside a message's escapes and change
  nothing. The same goes for the directory (`IsAt`). While lines are written one
  at a time, an echo on the wire is first there and is what is expected, or there
  is none (`EchoAhead`). The assumption is of the text, not of the order: a line
  with escapes in it would be echoed into the middle of what the sniffer reads.
- *Completion.* An answer is filed under the key of the engine when it is
  polled, long after the request, so the invariant follows ids through queue,
  worker and results. Once the keys have changed the line, what is pending was
  asked for by the live filter, whose answers are never accepted.
- *Sizes.* What a frame commits to is what the terminal was given (`Given`),
  what is awaited has been wanted as long as it is old (`Waited`), a quiet frame
  has committed to its own size (`Asked`); a restart breaks the first, and
  because a dead pane is smaller by its panel the next frame mends it
  (`Restarted`).
- *History.* A replayed row is of a line, and lines do not change when files
  grow (`RowsOfLines`). A pane stamps by an id it has held since its command
  began, though the row may be trimmed: whatever is as new has an id at least as
  great and a trim keeps the newest, so the id is never given out again
  (`Holding`). A row of an app run that goes on is of a pane of that process and
  has that pane's durable row, or none like the pane (`RowsAreOwned`); no two
  processes have one app run, no two panes one durable row. The
  overlay ranks and lists a finite set by counting, for each member, those before
  it; in an order no two members have as many, so each is listed once and in its
  place (`OrderedHasAll`). Ids number the rows (`Numbered`). While the overlay is
  open the table goes on changing and what it listed does not, so the invariant
  says what was listed then (`Shows`).
- *Probes.* A worker that asks about another directory than the pane's has a newer
  request ahead (`Asking`). A pull request of another branch is being asked for
  again, or will be once git says that the branch is another one
  (`PullRequestComes`), which is why `"back"` is excluded: git's answer is then the
  one it gave last.
- *Editor.* That carets lie on boundaries is inductive only with the snapshots of
  the undo stack and the text the walk has saved. Every position the editor computes,
  by words, rows, pointer or walk, is a boundary of a well-formed text: the lemmas
  are about what an insertion and a deletion do to the boundaries. For undo, a run
  of single characters that may share an entry has that entry and nothing to redo
  (`Coalesces`).
- *Keyboard.* `KeysReachTheirReader` is a fact of one frame, but the frame needs
  what earlier ones left (`Poised`): what is up in one pane keeps the other from
  having anything up and from asking for the focus, a completion is open only where
  the focus is, and an overlay of the pane rendered last keeps the focus there.
  Then one pane at most reads a frame's keys (`OneReads`): a quiet pane leaves them
  alone and takes no focus from a reader (`QuietIs`). The reader's part follows the
  order of the code: chords, what is copied and the wheel come first (`Before`), the
  loop adds the entry of its own key or none (`Looped`), an overlay that is up adds
  only keys that all others left (`Calm`), and find opens by a key that nobody
  logged (`FindKeeps`). `Neat` says of the log that each key is in it once and a
  program's are in their order. The loops are recursive functions, so their steps
  are proved by a set of numbers with no least counterexample.
- *View.* Where a block begins is a sum of heights; that blocks lie one under the
  other, whatever their number, is a fact of that sum (`Layout`), and everything
  else is arithmetic about three rows: the block at the top, its header's end and
  the next block (`PinnedIs`). Two views a page apart skip nothing when the header
  fits the margin (`PagesOverlap`), and a match that is scrolled to lies behind the
  header or in it (`MatchIsInView`). `RoomForHeaders` is what the code does not
  check: the table above has what happens without it.
- *Find.* The scan of a line is a recursive function of the column; that it returns
  occurrences, that no two overlap and that every occurrence is covered, goes down from
  the end of the line (`RangesAreFound`). Lines and matches are in document order
  (`LinesFollow`, `MatchesAre`), and a sealed block adds its own behind the others
  (`SealAddsMatches`): the index of the bright match goes on meaning the same match
  while output arrives (`MatchHeld`), which is what makes `MatchHolds` inductive.
  For the history, the live query is the one the walk puts aside (`OnItsWalk`), and
  what was submitted is remembered because no more was submitted than fits
  (`Remembers`).
- *Selection.* The property is inductive once it says where the ends are (`Whole`):
  the selection runs between the far edges of the unit first pressed, which is the
  anchor the mouse has kept, and of the unit last under the pointer; no unit is
  pressed exactly when there is no anchor. A shift press or a drag then extends from
  the right unit, also when a press on nothing, a link or the grid came between. That
  every cursor is a place, whatever the width, takes the types of what wraps, maps
  and reads the lines back, by recursion along a line and along rows (`Screen`); and
  the drags of a pinned label, which has at least a row, need to know that its block
  is still the one pressed or gone (`Hand`).
- *Window.* A frame is a composition of a dozen stages, and the proof follows it.
  `Sound` is the shape of the tree and the slots, which every stage keeps; `Leads`
  says what a stage may not do to a program that is `Alive`, on the alternate
  screen with a tab and nothing asking for its end: only what was agreed to stops
  it. Stages compose (`LeadsOn`), so the action property is one chain from the
  first stage to the last. What a stage leaves behind for a later one is named:
  an exited pane is `Doomed` from the stage that sees it to the one that removes
  its tile, so that no exit is overtaken by a click or a restart in the frame; a
  strip may show a tab it has lost until `Revalidated`, which comes after every
  removal. `AtRest` is what holds between two frames, `EveryStripShowsItsOwn` and
  more: nothing waits to be closed, and the layout is saved or known to be due
  (`Filed`). Without the last part `NoUnsavedLayout` is not inductive, since a
  frame that changes nothing compares with the fingerprint of an earlier one. The
  assumption is `QUIT_CONFIRM_TIMEOUT_SECS` = 60 (`app.rs:31`): with no countdown
  a quit over a running program would be its own answer.

Only model-checked: liveness (`BootstrapEnds`, `EditorReturns`,
`AwaitedIsResolved`), since `ENABLED` is out of the prover's reach; what is
computed by recursion over data (`PathCompletion`, the chunk codec); and that what
is highlighted is what is copied. Of pane, stream, controller, store, window, history,
probes, editor, keyboard, find, view and sizes only liveness is left to TLC, and
what the assumptions exclude.

Two proofs corrected their runs. With 5 key events `KeysStayHome` held only
because the bound was too small: the sixth is the chord that two panes take after a
completion answered in a pane that had lost the keyboard. Such an answer is now the
move `"slow"`, in the table above, and the run takes 6 events. And with 4 asks
`MatchHolds` held although its ghost took a frame on the alternate screen, which
paints no matches, for one that showed the bright match again after a key: a fifth
ask gets there. The ghost is right now and the run takes 5.

## What is not modelled

Painting, colours, menus, pickers and the window's geometry; how links are
recognised; the encoding of keys into bytes; escape sequences (the `alacritty`
parser) and the JSON of markers; what git, GitHub and the shells' history files
say, beyond a branch or a line; fuzzy scores and ranking (any order); durations
and wording of headers; `cursor_env.rs` (a pure tokeniser); the PTY, process and
directory plumbing (only as streams and files); the event recorder. No property
is about fish's reader child dying of a Ctrl+C (`fish-bootstrap.fish:244`): the
model lets it end the shell, and no doc says what should happen.
`PROJECT.json` names each component's reason.

## What is left

1. Nested splits of the window; that what is highlighted is what is copied, for
   every bound; bash's words composed with the scan of a line that has more
   arguments than one.
2. `Completion` composed with `PaneSession`, so that the request's bytes and a
   submit's share one stream.
3. `KeyRouting` with three panes, and the encoding of keys.
