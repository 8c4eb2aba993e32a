------------------------------ MODULE Completion ----------------------------
(***************************************************************************)
(* Tab completion at the prompt: the plan for a caret, the popup, the      *)
(* answer that is awaited, and the two sources it may come from - the live *)
(* shell over the PTY, and the one-shot engine with its worker thread and  *)
(* cache.  A frame is drain, paint, mouse, keys and the live filter, in    *)
(* that order; answers arrive between any two of them.                     *)
(*                                                                         *)
(* A line is its characters; "_" is the blank that separates words and "/" *)
(* makes a path.  A question is the line up to the caret.                  *)
(***************************************************************************)
EXTENDS Integers, Sequences, FiniteSets, SequencesExt, FiniteSetsExt, Functions

CONSTANTS
  Keys,        \* what the user may type
  Moves,       \* what else may happen, see Uses
  Commands,    \* what $PATH offers
  Files,       \* what the directory holds
  OtherWords,  \* what a shell or a tool may answer
  Tool,        \* the command that has a driver of its own
  Lines,       \* what history may have put at the prompt before
  MaxActs      \* bound: how many things the user does

VARIABLES
  buf,      \* PromptEditor: text and caret
  mode,     \* the pane: "prompt" or "running"
  popup,    \* PaneUiState::completion_popup
  pending,  \* PaneUiState::completion_pending
  live,     \* PaneSession::live_completion
  nextId,   \* PaneSession::next_live_completion_id
  reply,    \* PaneSession::live_completion_response
  asked,    \* the requests in the PTY the shell has not got to
  engine,   \* CompletionDriverEngine
  jobs, running, results,  \* the worker's queue, its work, and what it sent back
  frame,    \* where in the frame: [at, before]
  acts,     \* bound: see MaxActs
  typed     \* history: a frame since Tab ended on a line the keys had changed

shellVars == <<live, nextId, reply, asked>>
engineVars == <<engine, jobs, running, results>>
completionVars == <<buf, mode, popup, pending, shellVars, engineVars, frame, acts, typed>>

Nothing == [none |-> TRUE]
Uses(m) == m \in Moves

-----------------------------------------------------------------------------
\* The line

Question(b) == SubSeq(b.text, 1, b.cur)
Origin(q) == Max({0} \cup {i \in 1..Len(q) : q[i] = "_"})
Token(q) == SubSeq(q, Origin(q) + 1, Len(q))
IsPath(token) == "/" \in ToSet(token)
Matching(words, token) == {w \in words : IsPrefix(token, w)}

\* local_candidates_at: commands for the first word, files for the others and
\* for paths; every command is no answer to an empty word.
AtCommand(q) == ToSet(SubSeq(q, 1, Origin(q))) \subseteq {"_"}
Locals(q) ==
  IF AtCommand(q) /\ ~IsPath(Token(q))
    THEN IF Token(q) = <<>> THEN {} ELSE Matching(Commands, Token(q))
    ELSE Matching(Files, Token(q))

\* replace_range: clamped, swapped when they come the wrong way round.
Replace(b, i, j, s) ==
  LET n == Len(b.text)
      from == Min({i, j, n})
      to == Min({Max({i, j}), n})
  IN  [text |-> SubSeq(b.text, 1, from) \o s \o SubSeq(b.text, to + 1, n), cur |-> from + Len(s)]

Typed(b, c) == Replace(b, b.cur, b.cur, <<c>>)
Erased(b) == Replace(b, Max({b.cur - 1, 0}), b.cur, <<>>)

-----------------------------------------------------------------------------
\* The popup

\* A popup is never empty; the drivers' words outrank the local ones.
Popup(origin, driver, locals) ==
  IF driver \cup locals = {} THEN Nothing
  ELSE [origin |-> origin, items |-> SetToSeq(driver) \o SetToSeq(locals \ driver), sel |-> 1]

Chosen(p) == p.items[p.sel]
TokenLen(p, b) == Max({b.cur - p.origin, 0})

Accepted(p, b) ==
  Replace(b, p.origin, Min({p.origin + TokenLen(p, b), Len(b.text)}),
          IF Last(Chosen(p)) = "/" THEN Chosen(p) ELSE Append(Chosen(p), "_"))

\* tab_extend: as far as another item agrees with the chosen one.
Extension(p, n) ==
  IF Len(p.items) = 1 \/ n >= Len(Chosen(p)) THEN Chosen(p)
  ELSE SubSeq(Chosen(p), 1,
         Max({n} \cup {k \in n + 1..Len(Chosen(p)) :
           \E i \in DOMAIN p.items \ {p.sel} : IsPrefix(SubSeq(Chosen(p), 1, k), p.items[i])}))

Turned(p, step) == [p EXCEPT !.sel = ((@ - 1 + step) % Len(p.items)) + 1]

\* A refresh keeps the chosen word chosen.
Refreshed(p, old) ==
  IF p = Nothing \/ old = Nothing \/ Chosen(old) \notin ToSet(p.items) THEN p
  ELSE [p EXCEPT !.sel = CHOOSE i \in DOMAIN p.items : p.items[i] = Chosen(old)]

\* show_or_autoaccept: a lone item is accepted only where Tab asked for it.
AutoAccepts(p, tab) == tab /\ p # Nothing /\ Len(p.items) = 1
Show(p, tab) ==
  IF AutoAccepts(p, tab) THEN popup' = Nothing /\ buf' = Accepted(p, buf)
  ELSE popup' = p /\ UNCHANGED buf

-----------------------------------------------------------------------------
\* The plan

\* Nothing to ask about an empty segment, nor about a path the disk has listed.
HasTarget(q) ==
  /\ ToSet(q) \ {"_"} # {}
  /\ ~(IsPath(Token(q)) /\ Locals(q) # {})
ToTool(q) == IsPrefix(Append(Tool, "_"), q)

PendingFor(q, tab) ==
  [origin |-> Origin(q), token |-> Token(q), locals |-> Locals(q),
   tab |-> tab, q |-> q]

-----------------------------------------------------------------------------
\* Asking

\* live_completion_request: a failed write leaves what was in flight.
AskShell(q) ==
  /\ nextId' = nextId + 1
  /\ \/ live' = [id |-> nextId, q |-> q] /\ asked' = Append(asked, live')
     \/ Uses("nowrite") /\ UNCHANGED <<live, asked>>
  /\ UNCHANGED <<reply, engineVars>>

\* Mutant: a hit is not given the new request's id.
RequestedWithoutId(e, q) ==
  IF q \in DOMAIN e.cache
    THEN [e EXCEPT !.next = @ + 1, !.key = Nothing, !.ready = e.cache[q]]
    ELSE [e EXCEPT !.next = @ + 1, !.inflight = IF @ = 0 THEN e.next ELSE @, !.key = [q |-> q]]

\* CompletionDriverEngine::request
Requested(e, q) ==
  IF q \in DOMAIN e.cache
    THEN [e EXCEPT !.next = @ + 1, !.inflight = e.next, !.key = Nothing,
                   !.ready = e.cache[q]]
    ELSE [e EXCEPT !.next = @ + 1, !.inflight = e.next, !.key = [q |-> q]]

AskEngine(q) ==
  /\ engine' = Requested(engine, q)
  /\ jobs' = IF q \in DOMAIN engine.cache THEN jobs
             ELSE Append(jobs, [id |-> engine.next, q |-> q])
  /\ UNCHANGED <<running, results, shellVars>>

AskNothing == UNCHANGED <<shellVars, engineVars>>

\* A tool of its own goes to the engine, all else to the shell at the prompt.
\* While no directory is known the engine is not asked, though the wait began.
Ask(q) ==
  IF ToTool(q) THEN AskEngine(q) \/ (Uses("nocwd") /\ AskNothing) ELSE AskShell(q)

-----------------------------------------------------------------------------
\* Answering

Answers(q) == SUBSET Matching(OtherWords, Token(q))

\* The shell answers in turn, or never; only the request in flight is matched.
ReplyLands ==
  /\ frame.at = "drain" /\ asked # <<>>
  /\ asked' = Tail(asked)
  /\ \/ \E a \in Answers(asked[1].q) :
          IF live # Nothing /\ live.id = asked[1].id
            THEN live' = Nothing /\ reply' = [q |-> live.q, items |-> a]
            ELSE UNCHANGED <<live, reply>>
     \/ UNCHANGED <<live, reply>>
  /\ UNCHANGED <<nextId, engineVars, buf, mode, popup, pending, frame, acts, typed>>

\* Mutant: the timeout forgets the request and says nothing.
TimesOutSilently ==
  /\ frame.at = "drain" /\ live # Nothing
  /\ live' = Nothing
  /\ UNCHANGED <<reply, nextId, asked, engineVars, buf, mode, popup, pending, frame, acts, typed>>

\* tick_live_completion_timeout: an empty answer in its place.
TimesOut ==
  /\ frame.at = "drain" /\ live # Nothing
  /\ live' = Nothing
  /\ reply' = [q |-> live.q, items |-> {}]
  /\ UNCHANGED <<nextId, asked, engineVars, buf, mode, popup, pending, frame, acts, typed>>

\* run_worker: the newest job is worth running, the others are not.
WorkerTakes ==
  /\ running = Nothing /\ jobs # <<>>
  /\ running' = Last(jobs) /\ jobs' = <<>>
  /\ UNCHANGED <<engine, results, shellVars, buf, mode, popup, pending, frame, acts, typed>>
WorkerAnswers ==
  /\ running # Nothing
  /\ running' = Nothing
  /\ \E a \in Answers(running.q) :
       results' = Append(results, [id |-> running.id, q |-> running.q, items |-> a])
  /\ UNCHANGED <<engine, jobs, shellVars, buf, mode, popup, pending, frame, acts, typed>>

\* DRIVER_CACHE_TTL_MS passes for an entry.
Expires ==
  /\ Uses("ttl")
  /\ \E q \in DOMAIN engine.cache :
       engine' = [engine EXCEPT !.cache = Restrict(@, DOMAIN @ \ {q})]
  /\ UNCHANGED <<jobs, running, results, shellVars, buf, mode, popup, pending, frame, acts, typed>>

\* poll: what a hit left ready, or the newest answer to the request in flight.
FreshAt == {i \in DOMAIN results : results[i].id = engine.inflight}
Newest == results[Max(FreshAt)]
Polled ==
  CASE engine.ready # Nothing -> engine.ready
    [] engine.ready = Nothing /\ FreshAt # {} -> Newest
    [] OTHER -> Nothing
Remembered(cache, q, answer) ==
  [x \in DOMAIN cache \cup {q} |-> IF x = q THEN answer ELSE cache[x]]
Poll ==
  IF engine.ready # Nothing THEN engine' = [engine EXCEPT !.ready = Nothing] /\ UNCHANGED results
  ELSE /\ results' = <<>>
       /\ engine' = IF FreshAt = {} \/ Newest.items = {} \/ engine.key = Nothing THEN engine
                    ELSE [engine EXCEPT !.key = Nothing,
                            !.cache = Remembered(@, engine.key.q, [q |-> Newest.q, items |-> Newest.items])]

\* completion_driver_poll: the live shell's answer comes first.
Answer == IF reply # Nothing THEN reply ELSE Polled
TakeAnswer ==
  IF reply # Nothing THEN reply' = Nothing /\ UNCHANGED <<engine, results>>
  ELSE UNCHANGED reply /\ Poll

-----------------------------------------------------------------------------
\* A frame

CompletionInit ==
  /\ \E line \in Lines : buf = [text |-> line, cur |-> Len(line)]
  /\ mode = "prompt"
  /\ popup = Nothing /\ pending = Nothing
  /\ live = Nothing /\ nextId = 1 /\ reply = Nothing /\ asked = <<>>
  /\ engine = [inflight |-> 0, key |-> Nothing, ready |-> Nothing, next |-> 1, cache |-> << >>]
  /\ jobs = <<>> /\ running = Nothing /\ results = <<>>
  /\ frame = [at |-> "drain", before |-> Nothing]
  /\ acts = 0
  /\ typed = FALSE

\* The command is done and the prompt comes back, empty, in a drain that may
\* come before any frame has seen the editor gone ("fast").
PromptReturns ==
  /\ frame.at = "drain" /\ mode = "running" /\ asked = <<>>
  /\ Uses("fast") \/ (popup = Nothing /\ pending = Nothing)
  /\ mode' = "prompt"
  /\ UNCHANGED <<buf, popup, pending, shellVars, engineVars, frame, acts, typed>>

\* Mutant: what the typing asks for is accepted like what Tab asks for.
PaintResolvesEagerly ==
  /\ TakeAnswer
  /\ Show(Refreshed(Popup(pending.origin, Answer.items, pending.locals), popup), TRUE)
  /\ pending' = Nothing

\* The answer, whatever was asked, is merged over what is pending.
PaintResolves ==
  /\ TakeAnswer
  /\ Show(Refreshed(Popup(pending.origin, Answer.items, pending.locals), popup), pending.tab)
  /\ pending' = Nothing

Paint ==
  /\ frame.at = "drain"
  /\ frame' = [frame EXCEPT !.at = "mouse"]
  /\ CASE mode # "prompt" ->
            popup' = Nothing /\ pending' = Nothing /\ UNCHANGED <<buf, reply, engine, results>>
       [] mode = "prompt" /\ pending # Nothing /\ Answer # Nothing -> PaintResolves
       [] mode = "prompt" /\ pending # Nothing /\ Answer = Nothing ->
            TakeAnswer /\ UNCHANGED <<buf, popup, pending>>
       [] OTHER -> UNCHANGED <<buf, popup, pending, reply, engine, results>>
  /\ UNCHANGED <<mode, live, nextId, asked, jobs, running, acts, typed>>

Acts == acts < MaxActs /\ acts' = acts + 1
Mouse == frame.at = "mouse" /\ mode = "prompt" /\ Acts /\ AskNothing
         /\ UNCHANGED <<mode, pending, frame, typed>>

\* A click on a row accepts it.
ClickRow ==
  /\ Uses("mouse") /\ popup # Nothing /\ Mouse
  /\ \E i \in DOMAIN popup.items : buf' = Accepted([popup EXCEPT !.sel = i], buf)
  /\ popup' = Nothing
\* The pointer moves the caret, and a cut removes text, before the frame looks.
PressText ==
  /\ Uses("mouse") /\ Mouse
  /\ \E i \in 0..Len(buf.text) : buf' = [buf EXCEPT !.cur = i]
  /\ UNCHANGED popup

\* editor_state_before
Look ==
  /\ frame.at = "mouse"
  /\ frame' = [at |-> "keys", before |-> buf]
  /\ UNCHANGED <<buf, mode, popup, pending, shellVars, engineVars, acts, typed>>

Key == frame.at = "keys" /\ mode = "prompt" /\ Acts /\ UNCHANGED frame

\* With a popup open
Escape ==
  /\ Key /\ popup # Nothing
  /\ popup' = Nothing /\ pending' = Nothing
  /\ UNCHANGED <<buf, mode, typed>> /\ AskNothing
Enter ==
  /\ Key /\ popup # Nothing
  /\ buf' = Accepted(popup, buf) /\ popup' = Nothing
  /\ UNCHANGED <<mode, pending, typed>> /\ AskNothing
TabOnPopup ==
  /\ Key /\ popup # Nothing
  /\ LET n == TokenLen(popup, buf)
         ext == Extension(popup, n)
     IN  IF ext # Chosen(popup) /\ Len(ext) > n
           THEN buf' = Replace(buf, popup.origin, buf.cur, ext) /\ UNCHANGED popup
           ELSE buf' = Accepted(popup, buf) /\ popup' = Nothing
  /\ UNCHANGED <<mode, pending, typed>> /\ AskNothing
Turn ==
  /\ Key /\ popup # Nothing
  /\ \E step \in {1, -1} : popup' = Turned(popup, step)
  /\ UNCHANGED <<buf, mode, pending, typed>> /\ AskNothing

\* With nothing open or awaited
Tab ==
  /\ Key /\ popup = Nothing /\ pending = Nothing
  /\ LET q == Question(buf)
     IN  IF HasTarget(q)
           THEN pending' = PendingFor(q, TRUE) /\ Ask(q) /\ UNCHANGED <<buf, popup>>
           ELSE Show(Popup(Origin(q), {}, Locals(q)), TRUE)
                /\ AskNothing /\ UNCHANGED pending
  /\ typed' = FALSE
  /\ UNCHANGED mode

Type ==
  /\ Key
  /\ \E b \in {Typed(buf, c) : c \in Keys} \cup {Erased(buf)}
             \cup {[buf EXCEPT !.cur = 0], [buf EXCEPT !.cur = Len(buf.text)]} : buf' = b
  /\ UNCHANGED <<mode, popup, pending, typed>> /\ AskNothing
Submit ==
  /\ Key /\ popup = Nothing /\ buf.text # <<>>
  /\ buf' = [text |-> <<>>, cur |-> 0] /\ mode' = "running"
  /\ typed' = TRUE
  /\ UNCHANGED <<popup, pending>> /\ AskNothing

\* The live filter plans again for a line the keys have changed, and never accepts.
FilterOrigin == IF popup # Nothing THEN popup.origin ELSE pending.origin
LiveFilter ==
  LET q == Question(buf)
  IN  CASE buf.cur < FilterOrigin -> popup' = Nothing /\ pending' = Nothing /\ AskNothing
        [] buf.cur >= FilterOrigin /\ HasTarget(q) ->
             pending' = PendingFor(q, FALSE) /\ Ask(q) /\ UNCHANGED popup
        [] OTHER -> pending' = Nothing /\ AskNothing
                    /\ popup' = Popup(Origin(q), {}, Locals(q))

EndFrame ==
  /\ frame.at = "keys"
  /\ frame' = [at |-> "drain", before |-> Nothing]
  /\ IF /\ popup # Nothing \/ pending # Nothing
        /\ mode = "prompt" /\ buf # frame.before
       THEN LiveFilter
       ELSE UNCHANGED <<popup, pending>> /\ AskNothing
  /\ typed' = (typed \/ buf # frame.before)
  /\ UNCHANGED <<buf, mode, acts>>

CompletionNext ==
  \/ ReplyLands \/ TimesOut \/ WorkerTakes \/ WorkerAnswers \/ Expires \/ PromptReturns
  \/ Paint \/ ClickRow \/ PressText \/ Look
  \/ Escape \/ Enter \/ TabOnPopup \/ Turn \/ Tab \/ Type \/ Submit \/ EndFrame

\* The update loop never stops asking for the next frame, its clock runs, and
\* the worker's runs end (they are killed when they take too long).
CompletionFairness ==
  /\ WF_completionVars(Paint) /\ WF_completionVars(Look) /\ WF_completionVars(EndFrame)
  /\ SF_completionVars(TimesOut)
  /\ WF_completionVars(WorkerTakes) /\ WF_completionVars(WorkerAnswers)

CompletionSpec == CompletionInit /\ [][CompletionNext]_completionVars /\ CompletionFairness

-----------------------------------------------------------------------------
\* Properties

CompletionTypeOK ==
  /\ buf.cur \in 0..Len(buf.text)
  /\ mode \in {"prompt", "running"}
  /\ popup # Nothing => popup.sel \in DOMAIN popup.items
  /\ pending # Nothing => pending.tab \in BOOLEAN
  /\ frame.at \in {"drain", "mouse", "keys"}
  /\ acts \in 0..MaxActs

\* What the engine remembers for a question is an answer to that question,
\* however requests, hits, coalesced jobs and late results interleave.
CacheFitsTheQuestion ==
  \A q \in DOMAIN engine.cache : engine.cache[q].q = q

\* Nothing is put into the line by itself once a frame since Tab has ended on a
\* line the user changed (show_or_autoaccept: "Typing must never accept").
TypingNeverAccepts == [][Paint /\ buf' # buf => ~typed]_completionVars

\* Whatever is awaited is resolved, by an answer, a timeout or the user: the
\* spinner never turns for ever.
AwaitedIsResolved == pending # Nothing ~> pending = Nothing

\* What is merged into the popup was asked for it (live_completion_request: a
\* superseded request's "late reply is dropped on id-mismatch").
AnswersFitTheQuestion ==
  [][Paint /\ mode = "prompt" /\ pending # Nothing /\ pending' = Nothing
       => Answer.q = pending.q]_completionVars
=============================================================================
