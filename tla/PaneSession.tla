---------------------------- MODULE PaneSession -----------------------------
(***************************************************************************)
(* One pane (src/pane.rs): the controller, the block stack, and the two    *)
(* byte streams that join them to the shell.  The UI thread runs frames: it*)
(* drains what the reader thread has delivered, then lets the user's keys  *)
(* act.  The shell runs on its own; the model of it is what the bootstrap  *)
(* scripts (integration/) make zsh, bash or fish report.                   *)
(*                                                                         *)
(* A drain is several steps, one per event it hands out, because each of   *)
(* them reads what the previous one left.  The shell and the user act      *)
(* between drains: a drain only sees bytes delivered before it began.      *)
(*                                                                         *)
(* A text is a sequence of lines; a line completes the command ("done"),   *)
(* leaves it open ("more"), or is empty.                                   *)
(***************************************************************************)
EXTENDS Integers, Sequences, SequencesExt, Sublist

CONSTANTS
  TimeoutFrames,   \* see PromptController
  Shells,          \* the shells to explore: "zsh" (bash is alike here), "fish"
  Lockstep,        \* does the user wait for the screen to settle?
  Moves,           \* what this user and this shell may do, see Can below
  MaxSubmits,      \* bound: submits, raw lines, aborts, completions
  MaxLines,        \* bound: lines in the editor
  Restored         \* bound: sealed blocks adopted from the previous session

ASSUME FramesAssumption == TimeoutFrames \in Nat \ {0}
ASSUME ShellAssumption == Shells \subseteq {"zsh", "fish"} /\ Lockstep \in BOOLEAN
ASSUME BoundAssumption == {MaxSubmits, MaxLines, Restored} \subseteq Nat

VARIABLES
  mode, integration, last, age, pending, completed,  \* PromptController
  sealed, tail, nextId, grid, alt,                   \* BlockStack, terminal
  phase,           \* where the UI thread is in the frame
  sampled,         \* editor_active, read once per frame by render_pane
  shell,           \* PaneSession.shell
  lastSubmitted,   \* last_submitted: <<>> is None
  lastAlt,         \* last_alt_screen
  exited,          \* PaneSession.exited
  events,          \* lifecycle events this drain still has to hand out
  stream,          \* what the shell has written and the pane has not read
  ptyIn,           \* what the pane has written and the shell has not read
  sh,              \* the shell process
  buf,             \* the open lines it holds at PS2
  job,             \* the command it runs: serial, text, what it did so far
  skip,            \* __termica_skip_next_precmd
  submits          \* bound: see MaxSubmits

Ctl == INSTANCE PromptController
Blk == INSTANCE BlockStack WITH NoCommand <- [serial |-> 0, text |-> <<>>],
                                EmptyText <- <<"">>

ctlVars   == <<mode, integration, last, age, pending, completed>>
blkVars   == <<sealed, tail, nextId, grid, alt>>
paneVars  == <<phase, sampled, lastSubmitted, lastAlt, exited, events>>
shellVars == <<sh, buf, job, skip>>
vars == <<ctlVars, blkVars, paneVars, shellVars, shell, stream, ptyIn, submits>>

Can(move) == move \in Moves

Lines == {"", "more", "done"}
NoJob == [serial |-> 0, text |-> <<>>, said |-> FALSE, screen |-> "main"]
None == <<>>

Events == {"ready", "error", "preexec", "finished", "precmd", "cont", "completion"}

\* Mutant: the mode alone decides.
EditorActiveByMode == mode = "ShellPromptEditor"

\* PaneSession::editor_is_active, the switch that routes the keyboard.
EditorActive == mode = "ShellPromptEditor" /\ Blk!EditorOnTail

Init ==
  /\ Ctl!Spawned("Bootstrapping")
  /\ \E n \in 0..Restored : Blk!Init(n)
  /\ shell \in Shells
  /\ phase = "input" /\ sampled = FALSE
  /\ lastSubmitted = None /\ lastAlt = FALSE /\ exited = FALSE
  /\ events = <<>> /\ stream = <<>> /\ ptyIn = <<>>
  /\ sh = "boot" /\ buf = <<>> /\ job = NoJob /\ skip = FALSE
  /\ submits = 0

-----------------------------------------------------------------------------
(* The shell, its bootstrap script, and the program it runs.               *)

Write(items) == stream' = stream \o items

PromptCycle == << <<"finished">>, <<"precmd">> >>

ShellStep == phase = "input" /\ UNCHANGED <<ctlVars, blkVars, paneVars, shell, submits>>

\* The script announces itself once the dotfiles have run, then prompts.
Boot ==
  /\ ShellStep /\ sh = "boot"
  /\ \E noise \in {<<>>, << <<"out", 0>> >>} :
       Write(noise \o << <<"ready">> >>
               \o IF shell = "fish" THEN << <<"precmd">> >> ELSE PromptCycle)
  /\ sh' = "prompt"
  /\ UNCHANGED <<ptyIn, buf, job, skip>>

\* The script gives up (bash without bash-preexec): a shell that never speaks.
BootFails ==
  /\ ShellStep /\ sh = "boot" /\ Can("fail")
  /\ Write(<< <<"error">> >>)
  /\ sh' = "mute"
  /\ UNCHANGED <<ptyIn, buf, job, skip>>

Written(text) == Keep(text, {i \in DOMAIN text : text[i] # ""})

LeftOpen(text) == Written(text) # <<>> /\ Last(Written(text)) = "more"

Execute(text) ==
  /\ Write(<< <<"preexec", [serial |-> job.serial + 1, text |-> text]>> >>)
  /\ sh' = "running"
  /\ job' = [serial |-> job.serial + 1, text |-> text, said |-> FALSE, screen |-> "main"]
  /\ buf' = <<>>

\* zsh and bash read the tty line by line and hold what is still open.
ReadLine ==
  /\ ShellStep /\ shell # "fish" /\ sh \in {"prompt", "ps2"} /\ ptyIn # <<>>
  /\ Head(ptyIn)[1] = "line" /\ ptyIn' = Tail(ptyIn)
  /\ LET line == Head(ptyIn)[2] IN
     \/ /\ sh = "prompt" /\ line = ""
        /\ Write(PromptCycle)
        /\ UNCHANGED <<sh, buf, job>>
     \/ /\ line = "more" \/ (line = "" /\ sh = "ps2")
        /\ buf' = Append(buf, line)
        /\ sh' = "ps2"
        /\ Write(<< <<"cont">> >>)
        /\ UNCHANGED job
     \/ line = "done" /\ Execute(Append(buf, line))
  /\ UNCHANGED skip

\* fish gets a whole text on one line and holds nothing between reads; a line
\* that was not encoded for it decodes to nothing.
ReadText ==
  /\ ShellStep /\ shell = "fish" /\ sh = "prompt" /\ ptyIn # <<>>
  /\ Head(ptyIn)[1] \in {"text", "line"} /\ ptyIn' = Tail(ptyIn)
  /\ LET text == IF Head(ptyIn)[1] = "text" THEN Head(ptyIn)[2] ELSE <<"">> IN
     \/ /\ LeftOpen(text)
        /\ Write(<< <<"cont">> >>)
        /\ UNCHANGED <<sh, buf, job>>
     \/ ~LeftOpen(text) /\ Execute(text)
  /\ UNCHANGED skip

\* The completion sentinel: at a prompt it is answered and leaves no trace; at
\* PS2 it is one more line of the command being typed, which stays open or
\* runs, and then silences the prompt cycle that follows.
ReadCompletion ==
  /\ ShellStep /\ sh \in {"prompt", "ps2"} /\ ptyIn # <<>>
  /\ Head(ptyIn)[1] = "complete" /\ ptyIn' = Tail(ptyIn)
  /\ \/ /\ sh = "prompt"
        /\ Write(<< <<"completion">> >>)
        /\ UNCHANGED <<sh, buf, job, skip>>
     \/ /\ sh = "ps2"
        /\ buf' = Append(buf, "complete")
        /\ Write(<< <<"cont">> >>)
        /\ UNCHANGED <<sh, job, skip>>
     \/ /\ sh = "ps2"
        /\ Execute(Append(buf, "complete"))
        /\ skip' = TRUE

\* Ctrl+C at a prompt or at PS2 drops the open lines; whether the shell runs
\* its prompt hooks right away or on the next line differs from shell to shell.
\* fish reads through a child that the signal kills, which may end its loop.
ReadInterrupt ==
  /\ ShellStep /\ sh \in {"prompt", "ps2"} /\ ptyIn # <<>>
  /\ Head(ptyIn)[1] = "intr" /\ ptyIn' = Tail(ptyIn)
  /\ buf' = <<>>
  /\ \/ sh' = "prompt" /\ Write(<<>>)
     \/ sh' = "prompt" /\ Write(PromptCycle) /\ shell # "fish"
     \/ sh' = "gone" /\ Write(<< <<"eof">> >>) /\ shell = "fish"
  /\ UNCHANGED <<job, skip>>

ProgramSays ==
  /\ ShellStep /\ sh = "running" /\ Can("out") /\ ~job.said /\ job.screen # "alt"
  /\ Write(<< <<"out", job.serial>> >>)
  /\ job' = [job EXCEPT !.said = TRUE]
  /\ UNCHANGED <<ptyIn, sh, buf, skip>>

ProgramScreen ==
  /\ ShellStep /\ sh = "running" /\ Can("alt")
  /\ \/ job.screen = "main" /\ job' = [job EXCEPT !.screen = "alt"]
     \/ job.screen = "alt"  /\ job' = [job EXCEPT !.screen = "left"]
  /\ Write(<< <<"alt", job'.screen = "alt">> >>)
  /\ UNCHANGED <<ptyIn, sh, buf, skip>>

\* The command ends by itself, and may swallow the keys waiting for it, or by
\* the Ctrl+C that waits first.  A well-behaved program has left the alternate
\* screen by then; a "zombie" leaves it up.
Finish ==
  /\ ShellStep /\ sh = "running"
  /\ job.screen = "alt" => Can("zombie")
  /\ \/ UNCHANGED ptyIn
     \/ ptyIn # <<>> /\ ptyIn' = Tail(ptyIn)
  /\ Write(IF skip THEN <<>> ELSE PromptCycle)
  /\ sh' = "prompt" /\ skip' = FALSE
  /\ UNCHANGED <<buf, job>>

ShellExits ==
  /\ ShellStep /\ sh \in {"prompt", "running", "mute"} /\ Can("exit")
  /\ Write(<< <<"eof">> >>)
  /\ sh' = "gone"
  /\ UNCHANGED <<ptyIn, buf, job, skip>>

ShellNext ==
  \/ Boot \/ BootFails \/ ReadLine \/ ReadText \/ ReadCompletion
  \/ ReadInterrupt \/ ProgramSays \/ ProgramScreen \/ Finish \/ ShellExits

-----------------------------------------------------------------------------
(* The frame: PaneSession::drain.                                          *)

\* The items of these kinds among the first n of the stream.
Fed(kinds, n) == Keep(SubSeq(stream, 1, n), {i \in 1..n : stream[i][1] \in kinds})

\* The feed loop empties what has been delivered into the terminal, which
\* draws the rows, keeps the alternate-screen flag and collects the events:
\* by the time the first event is handed out, all of them have been drawn.
Feed(n) ==
  /\ stream' = SubSeq(stream, n + 1, Len(stream))
  /\ grid' = grid \o [i \in 1..Len(Fed({"out"}, n)) |-> Fed({"out"}, n)[i][2]]
  /\ LET edges == {i \in 1..n : stream[i][1] = "alt"} IN
     alt' = IF edges = {} THEN alt ELSE stream[Max(edges)][2]
  /\ events' = Fed(Events, n)
  /\ exited' = (exited \/ Fed({"eof"}, n) # <<>>)
  /\ UNCHANGED <<sealed, tail, nextId>>

FrameStep == UNCHANGED <<shellVars, shell, ptyIn, submits>>

\* A frame begins: feed, count the frame, time the bootstrap out.
Drain(n) ==
  /\ phase = "input"
  /\ Feed(n)
  /\ Ctl!Tick
  /\ phase' = IF alt' = lastAlt THEN "events" ELSE "sync"
  /\ FrameStep /\ UNCHANGED <<sampled, lastSubmitted, lastAlt>>

\* A shell that is not "slow" is up, and heard, before the timeout.
InTime(n) ==
  mode = "Bootstrapping" /\ ~Can("slow") =>
    age + 2 < TimeoutFrames \/ (sh # "boot" /\ n = Len(stream))

DrainSome == \E n \in 0..Len(stream) : InTime(n) /\ Drain(n)

DrainAll == InTime(Len(stream)) /\ Drain(Len(stream))

\* Mutant: the edge is latched but the controller is not told.
SyncAltSilently ==
  /\ phase = "sync" \/ (phase = "events" /\ events = <<>> /\ alt # lastAlt)
  /\ lastAlt' = alt /\ phase' = "events"
  /\ FrameStep
  /\ UNCHANGED <<ctlVars, blkVars, sampled, lastSubmitted, exited, events, stream>>

\* The edge of the alternate screen, before the first event and after the last.
SyncAlt ==
  /\ phase = "sync" \/ (phase = "events" /\ events = <<>> /\ alt # lastAlt)
  /\ Ctl!ObserveAltScreen(alt)
  /\ lastAlt' = alt
  /\ phase' = "events"
  /\ FrameStep /\ UNCHANGED <<blkVars, sampled, lastSubmitted, exited, events, stream>>

HasEvent(ev) == phase = "events" /\ events # <<>> /\ Head(events)[1] = ev

EventStep(ev) ==
  /\ HasEvent(ev)
  /\ events' = Tail(events)
  /\ FrameStep /\ UNCHANGED <<phase, sampled, lastAlt, exited, stream>>

\* Mutant: the screen comes down and the controller learns of it too late.
RecoverAltSilently ==
  /\ HasEvent("precmd") /\ alt
  /\ alt' = FALSE /\ lastAlt' = FALSE
  /\ FrameStep
  /\ UNCHANGED <<ctlVars, sealed, tail, nextId, grid, phase, sampled,
                 lastSubmitted, exited, events, stream>>

\* A Precmd while the alternate screen is up: the pane takes it down first.
RecoverAlt ==
  /\ HasEvent("precmd") /\ alt
  /\ alt' = FALSE /\ lastAlt' = FALSE
  /\ Ctl!ObserveAltScreen(FALSE)
  /\ FrameStep
  /\ UNCHANGED <<sealed, tail, nextId, grid, phase, sampled, lastSubmitted,
                 exited, events, stream>>

OnReady ==
  /\ EventStep("ready")
  /\ Blk!SealPreCommandOutput
  /\ Ctl!ObserveIntegrationReady(TRUE)
  /\ UNCHANGED lastSubmitted

OnError ==
  /\ EventStep("error")
  /\ Ctl!ObserveIntegrationError
  /\ UNCHANGED <<blkVars, lastSubmitted>>

OnPreexec ==
  /\ EventStep("preexec")
  /\ lastSubmitted' = None
  /\ Blk!StartRunning(Head(events)[2])
  /\ Ctl!ObservePreexec

OnCommandFinished ==
  /\ EventStep("finished")
  /\ Blk!SealRunning
  /\ Ctl!ObserveCommandFinished
  /\ UNCHANGED lastSubmitted

OnPrecmd ==
  /\ EventStep("precmd") /\ ~alt
  /\ lastSubmitted' = None
  /\ Ctl!ObservePrecmd
  /\ UNCHANGED blkVars

\* Mutant: the restored text is no longer remembered as sent.
OnContinuationForgets ==
  /\ EventStep("cont")
  /\ IF lastSubmitted # None /\ Blk!EditorOnTail
     THEN Blk!SetEditor(Append(lastSubmitted, ""))
     ELSE UNCHANGED blkVars
  /\ Ctl!ObserveContinuation
  /\ lastSubmitted' = None

\* The shell waits at PS2: put back what it already has, and a new line.
OnContinuation ==
  /\ EventStep("cont")
  /\ IF lastSubmitted # None /\ Blk!EditorOnTail
     THEN Blk!SetEditor(Append(lastSubmitted, ""))
     ELSE UNCHANGED blkVars
  /\ Ctl!ObserveContinuation
  /\ UNCHANGED lastSubmitted

\* A completion reply is inert to modes and blocks.
OnCompletion ==
  /\ EventStep("completion")
  /\ UNCHANGED <<ctlVars, blkVars, lastSubmitted>>

DrainIsOver == phase = "events" /\ events = <<>> /\ alt = lastAlt

OnPtyExit ==
  /\ DrainIsOver /\ exited
  /\ Ctl!ObservePtyExit
  /\ FrameStep /\ UNCHANGED <<blkVars, paneVars, stream>>

\* The drain is done; render_pane samples editor_is_active for this frame.
EndDrain ==
  /\ DrainIsOver /\ ~(exited /\ mode # "Dead")
  /\ phase' = "input"
  /\ sampled' = EditorActive
  /\ FrameStep
  /\ UNCHANGED <<ctlVars, blkVars, lastSubmitted, lastAlt, exited, events, stream>>

\* The app closes a pane whose shell has exited (app.rs, `update`).
ClosePane ==
  /\ phase = "input" /\ exited
  /\ phase' = "closed"
  /\ FrameStep
  /\ UNCHANGED <<ctlVars, blkVars, sampled, lastSubmitted, lastAlt, exited, events, stream>>

FrameNext ==
  \/ DrainSome \/ SyncAlt \/ RecoverAlt
  \/ OnReady \/ OnError \/ OnPreexec \/ OnCommandFinished \/ OnPrecmd
  \/ OnContinuation \/ OnCompletion \/ OnPtyExit \/ EndDrain \/ ClosePane

-----------------------------------------------------------------------------
(* The user's keys, routed by the sample (render_pane).                    *)

Settled == stream = <<>> /\ ptyIn = <<>> /\ sh \in {"prompt", "ps2"}

\* A user in lockstep types at a prompt that has settled, or interrupts a
\* program whose output has all been shown.
UserReady ==
  Lockstep => IF sampled THEN Settled ELSE sh = "running" /\ stream = <<>> /\ ptyIn = <<>>

UserStep(inEditor) ==
  /\ phase = "input" /\ ~exited /\ UserReady
  /\ sampled = inEditor
  /\ UNCHANGED <<shellVars, shell, stream, phase, sampled, lastAlt, exited, events>>

\* One command per text, unless this user pastes several.
MayFollow(text, line) == Can("paste") \/ Last(text) # "done"

Type(line) ==
  /\ UserStep(TRUE)
  /\ MayFollow(tail.text, line)
  /\ LET text == IF Last(tail.text) = "" THEN [tail.text EXCEPT ![Len(tail.text)] = line]
                 ELSE Append(tail.text, line)
     IN  Len(text) <= MaxLines /\ Blk!SetEditor(text)
  /\ UNCHANGED <<ctlVars, lastSubmitted, ptyIn, submits>>

ClearEditor ==
  /\ UserStep(TRUE) /\ tail.text # <<"">>
  /\ Blk!SetEditor(<<"">>)
  /\ UNCHANGED <<ctlVars, lastSubmitted, ptyIn, submits>>

AwaitingContinuation == EditorActive /\ lastSubmitted # None

\* text.starts_with(prev), on lines.
Extends(text, prev) ==
  /\ Len(prev) <= Len(text)
  /\ Front(prev) = SubSeq(text, 1, Len(prev) - 1)
  /\ Last(prev) \in {"", text[Len(prev)]}

\* Mutant: every submit sends the whole text.
ToSendAll(text) == text

\* continuation_to_send: what follows the prefix, without the newline that
\* joins them.  fish has kept nothing, so it is sent the whole text again.
ToSend(text) ==
  IF lastSubmitted = None \/ shell = "fish" \/ ~Extends(text, lastSubmitted)
  THEN text
  ELSE LET n == Len(lastSubmitted) IN
       IF Last(lastSubmitted) # text[n] THEN SubSeq(text, n, Len(text))
       ELSE IF Len(text) = n THEN <<"">> ELSE SubSeq(text, n + 1, Len(text))


\* submission_bytes: fish gets one line for the whole text.
Framed(text) ==
  IF shell = "fish" THEN << <<"text", text>> >>
  ELSE [i \in 1..Len(text) |-> <<"line", text[i]>>]

\* submit_abandons_continuation.
Abandons(text) == shell # "fish" /\ ~Extends(text, lastSubmitted)

CountSubmit == submits < MaxSubmits /\ submits' = submits + 1

\* Enter: clear the editor, demote, then write.
Submit ==
  /\ UserStep(TRUE) /\ CountSubmit
  /\ ~(AwaitingContinuation /\ Abandons(tail.text))
  /\ ptyIn' = ptyIn \o Framed(ToSend(tail.text))
  /\ lastSubmitted' = tail.text
  /\ Blk!SetEditor(<<"">>)
  /\ \/ Ctl!SubmitCommand
     \/ mode # "ShellPromptEditor" /\ UNCHANGED ctlVars

\* abort_continuation_line writes ^C and Enter; the tty may throw away the
\* lines nobody had read when the ^C arrives.
AbortLine ==
  /\ lastSubmitted' = None
  /\ \E kept \in {ptyIn, <<>>} : ptyIn' = kept \o << <<"intr">>, <<"line", "">> >>

\* Enter on a text that does not extend the open line: abort, keep the text.
SubmitHeals ==
  /\ UserStep(TRUE) /\ CountSubmit
  /\ AwaitingContinuation /\ Abandons(tail.text)
  /\ AbortLine
  /\ UNCHANGED <<ctlVars, blkVars>>

\* Ctrl+C while a continuation is pending; otherwise the editor swallows it.
AbortContinuation ==
  /\ UserStep(TRUE) /\ CountSubmit
  /\ AwaitingContinuation /\ shell # "fish"
  /\ AbortLine
  /\ Blk!SetEditor(<<"">>)
  /\ UNCHANGED ctlVars

\* Tab, when the pane may ask its own shell (live_completion_capable).
LiveCompletionCapable == mode = "ShellPromptEditor" /\ integration = "Confirmed"

RequestCompletion ==
  /\ UserStep(TRUE) /\ Can("complete") /\ LiveCompletionCapable /\ CountSubmit
  /\ ptyIn' = Append(ptyIn, <<"complete">>)
  /\ UNCHANGED <<ctlVars, blkVars, lastSubmitted>>

\* Ctrl+C with no editor goes to the program: write() drops it only while
\* Bootstrapping.  It ends the command, or the program survives it.
InterruptProgram ==
  /\ UserStep(FALSE) /\ mode # "Bootstrapping" /\ CountSubmit
  /\ \E kept \in {ptyIn, <<>>} : ptyIn' = Append(kept, <<"intr">>)
  /\ UNCHANGED <<ctlVars, blkVars, lastSubmitted>>

\* A line typed with no editor: for the program, or ahead of the next prompt.
TypeRaw(line) ==
  /\ UserStep(FALSE) /\ mode # "Bootstrapping" /\ Can("raw") /\ CountSubmit
  /\ ptyIn' = Append(ptyIn, <<"line", line>>)
  /\ UNCHANGED <<ctlVars, blkVars, lastSubmitted>>

\* Cmd+K, a shortcut that works in every mode.
ClearScrollback ==
  /\ UserStep(sampled) /\ Can("clear") /\ sealed # <<>>
  /\ Blk!ClearScrollback
  /\ UNCHANGED <<ctlVars, lastSubmitted, ptyIn, submits>>

UserNext ==
  \/ \E line \in {"more", "done"} : Type(line) \/ TypeRaw(line)
  \/ ClearEditor \/ Submit \/ SubmitHeals \/ AbortContinuation
  \/ RequestCompletion \/ InterruptProgram \/ ClearScrollback

-----------------------------------------------------------------------------

Next == ShellNext \/ FrameNext \/ UserNext

\* Frames keep coming and deliver what was written; the shell keeps reading
\* its input and its commands end.  Nothing is assumed of the user.
Fairness ==
  /\ WF_vars(FrameNext) /\ SF_vars(DrainAll)
  /\ SF_vars(Boot) /\ SF_vars(ReadLine \/ ReadText \/ ReadInterrupt \/ ReadCompletion)
  /\ SF_vars(Finish)

Spec == Init /\ [][Next]_vars /\ Fairness

-----------------------------------------------------------------------------
(* Properties.                                                             *)

TypeOK ==
  /\ Ctl!TypeOK
  /\ tail.kind \in {"Prompt", "Running"} /\ nextId \in Nat /\ alt \in BOOLEAN
  /\ phase \in {"input", "sync", "events", "closed"}
  /\ {sampled, lastAlt, exited, skip} \subseteq BOOLEAN
  /\ sh \in {"boot", "prompt", "ps2", "running", "mute", "gone"}
  /\ job.screen \in {"main", "alt", "left"} /\ job.said \in BOOLEAN
  /\ \A i \in DOMAIN events : events[i][1] \in Events
  /\ \A i \in DOMAIN ptyIn :
       ptyIn[i][1] \in {"line", "intr", "complete"} \cup IF shell = "fish" THEN {"text"} ELSE {}
  /\ submits \in 0..MaxSubmits

\* Everything written has been read, shown and acted on.
Quiet == phase = "input" /\ Settled

\* Submitting the restored text with its new line deleted sends a bare Enter,
\* so the shell may hold blank lines the editor does not show.
SameLines(a, b) == Written(a) = Written(b)

\* A pane at PS2 can always get out: the editor is up and knows it holds a
\* continuation, and what it believes the shell holds is what the shell holds
\* (pane.rs, `last_submitted`): the next submit sends the right suffix.
ContinuationAgreement ==
  Quiet /\ sh = "ps2" => AwaitingContinuation /\ SameLines(lastSubmitted, buf)

\* The command the shell runs is the text that was submitted, whole and once,
\* however many lines and continuations it took (`continuation_to_send`).
RunsWhatWasSubmitted ==
  sh = "running" /\ lastSubmitted # None => SameLines(job.text, lastSubmitted)

\* A sealed block holds its own command's output and nobody else's, the
\* dotfiles' output being a block without a command (`seal_running`).
SealedOutputIsOwn ==
  \A i \in DOMAIN sealed :
    \A j \in DOMAIN sealed[i].out : sealed[i].out[j] = sealed[i].command.serial

\* Every command the shell ran has one block, in the order they ran, once the
\* pane has caught up: no event order loses, merges or duplicates a block.
EveryCommandHasItsBlock ==
  Quiet /\ sh = "prompt" /\ ~Can("clear") =>
    LET ran == Keep(sealed, {i \in DOMAIN sealed : sealed[i].command.serial # 0}) IN
    /\ Len(ran) = job.serial
    /\ \A i \in DOMAIN ran : ran[i].command.serial = i

\* A pane that has caught up with a running program does not send the user's
\* keys to the editor: the program can be interrupted and fed (spec/04).
EditorNeverCoversProgram ==
  phase = "input" /\ stream = <<>> /\ sh = "running" => ~sampled /\ ~EditorActive

\* Between frames the mode and the terminal agree on the alternate screen,
\* though edges and events arrive in one batch (the two syncs of `drain`).
AltMatchesMode ==
  phase = "input" /\ mode \notin {"Bootstrapping", "Dead"} =>
    (alt <=> mode = "AlternateScreen")

\* Ids are never reused, with restored blocks below the live ones.
IdsIncrease == Blk!IdsIncrease

\* What the docs say and the code does not do: these two fail.

\* The request for completions is serviced by a shell at its prompt, and is
\* never a line of the user's command (pane.rs, `live_completion_capable`).
CompletionOnlyAtPrompt ==
  \A text \in {buf, job.text} : ~Contains(text, "complete")

\* A pane that has caught up with a shell waiting at PS2 knows a continuation
\* is pending, so Ctrl+C can abort it (pane.rs, `awaiting_continuation`).
PendingIsKnown == Quiet /\ sh = "ps2" => AwaitingContinuation

\* Whenever the shell waits at its prompt the editor comes up, whatever the
\* command did to the screen and however the line was put together.
EditorReturns == sh = "prompt" ~> (EditorActive \/ sh # "prompt")
=============================================================================
