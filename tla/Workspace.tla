------------------------------ MODULE Workspace -----------------------------
(***************************************************************************)
(* The window: panes, tab strips, keyboard focus, close and quit, and the  *)
(* saved layout (src/app.rs, src/behavior.rs, src/pane_slot.rs).           *)
(*                                                                         *)
(* One step is one frame of TermicaApp::update, the composition of its     *)
(* stages in the order of the code.  The tree is a row of tab strips; a    *)
(* tile is named by its pane.  Pane 0 is "none".  Programs and shells act  *)
(* at the start of a frame, as the drain sees them.                        *)
(***************************************************************************)
EXTENDS Sublist, FiniteSets, SequencesExt, FiniteSetsExt

CONSTANTS
  MaxPaneId,    \* bound: pane ids minted
  MaxStrips,    \* bound: tab strips a drag may make
  MaxActs,      \* bound: how many things happen
  Gestures,     \* what the user does, see Can below
  QuitFrames    \* QUIT_CONFIRM_TIMEOUT_SECS, in frames

VARIABLES
  ws,           \* the window: TermicaApp
  acts,         \* bound: see MaxActs
  agreed        \* history: panes whose program ended, or was agreed to, this frame

wsVars == <<ws, acts, agreed>>

Slot(mapped, dead) == [mapped |-> mapped, dead |-> dead, alt |-> FALSE, exited |-> FALSE,
                       needs |-> FALSE, flag |-> FALSE]

\* The fields of TermicaApp; `strips` is the tree, `keys` egui's focus,
\* `modal` what is left of the quit countdown, `due` of the layout debounce.
Launched(slots, strips) ==
  [panes |-> slots, strips |-> strips, nextId |-> Cardinality(DOMAIN slots) + 1,
   keys |-> 0, focused |-> 0, history |-> <<>>, prevActive |-> {}, closes |-> {},
   confirm |-> 0, quitReq |-> FALSE, modal |-> 0, quit |-> FALSE,
   print |-> <<>>, due |-> FALSE, saved |-> <<>>]

Strip(tabs) == [tabs |-> tabs, active |-> Head(tabs)]
Restored(strips) ==
  Launched([i \in UNION {ToSet(strips[c].tabs) : c \in DOMAIN strips} |-> Slot(TRUE, TRUE)],
           strips)

\* A fresh pane, or a restored workspace of Dead ones
WsInit ==
  /\ ws \in {Launched([i \in {1} |-> Slot(TRUE, FALSE)], <<Strip(<<1>>)>>),
             Restored(<<Strip(<<1, 2, 3>>)>>),
             Restored(<<Strip(<<3>>), Strip(<<1, 2>>)>>)}
  /\ acts = 0 /\ agreed = {}

Open(w) == DOMAIN w.panes
Tiles(w) == UNION {ToSet(w.strips[c].tabs) : c \in DOMAIN w.strips}
StripOf(w, p) == CHOOSE c \in DOMAIN w.strips : Contains(w.strips[c].tabs, p)
Active(w) == {w.strips[c].active : c \in DOMAIN w.strips} \cap Tiles(w)
ModalOpen(w) == w.confirm # 0 \/ w.modal # 0
Runs(w, p) == p \in Open(w) /\ w.panes[p].alt

-----------------------------------------------------------------------------
\* The stages of a frame, in order

\* What programs and shells did, as the drain latches it
Drained(w, p, event) ==
  CASE event = "exit" -> [w EXCEPT !.panes[p].exited = TRUE]
    [] event = "alt"  -> [w EXCEPT !.panes[p].alt = ~@]
    [] OTHER          -> w

Asked(w, osClose) == [w EXCEPT !.quitReq = @ \/ osClose]

CloseExited(w) ==
  LET gone == {p \in Open(w) : w.panes[p].exited}
  IN  IF gone = {} THEN w
      ELSE [w EXCEPT !.closes = @ \cup gone, !.quitReq = @ \/ gone = Open(w)]

\* p becomes the last tab of strip c, and the one it shows.
Joined(strips, c, p) == [strips EXCEPT ![c].tabs = Append(@, p), ![c].active = p]

\* Adopt a new pane as a tab of strip c.
Adopted(w, c, mapped) ==
  LET id == w.nextId
  IN  [w EXCEPT !.nextId = @ + 1,
         !.panes = [p \in Open(w) \cup {id} |->
                      IF p = id THEN Slot(mapped, FALSE) ELSE w.panes[p]],
         !.strips = Joined(w.strips, c, id)]

\* A shell that does not start has used up an id.
NewPane(w, c, spawn) ==
  IF spawn = "fails" THEN [w EXCEPT !.nextId = @ + 1] ELSE Adopted(w, c, spawn = "row")

\* on_tab_close: the X of a tab
CloseClicked(w, p) ==
  IF Cardinality(Tiles(w)) <= 1 THEN w
  ELSE IF Runs(w, p) THEN [w EXCEPT !.confirm = p]
  ELSE [w EXCEPT !.closes = @ \cup {p}]

\* The strip of p shows it, and it asks for the keys.
Showing(strips, p) ==
  [c \in DOMAIN strips |->
     IF Contains(strips[c].tabs, p) THEN [strips[c] EXCEPT !.active = p] ELSE strips[c]]
TabClicked(w, p) == [w EXCEPT !.strips = Showing(w.strips, p), !.panes[p].needs = TRUE]

\* A sequence less some of its items, and the strips that have a tab
Less(s, gone) == Keep(s, {i \in DOMAIN s : s[i] \notin gone})
Tabbed(strips) == Keep(strips, {c \in DOMAIN strips : strips[c].tabs # <<>>})

\* A drag takes a tab to another strip, or to a new one at either end; the
\* strip it leaves still names it as active.
Dragged(w, p, to) ==
  LET from == StripOf(w, p)
      left == [w.strips EXCEPT ![from].tabs = Less(@, {p})]
      new  == [tabs |-> <<p>>, active |-> p]
      there == CASE to = 0                  -> <<new>> \o left
                 [] to \in DOMAIN w.strips  -> Joined(left, to, p)
                 [] OTHER                   -> Append(left, new)
  IN  [w EXCEPT !.strips = Tabbed(there)]

Painted(w, keys, shown, flagged) ==
  [w EXCEPT !.keys = keys,
            !.panes = [p \in Open(w) |->
               [w.panes[p] EXCEPT !.flag = p \in flagged,
                                  !.needs = w.panes[p].needs /\ ~Contains(shown, p)]]]

\* render_pane of the active tab of each strip, in order: who claims the keys.
\* A pane that is not shown loses them at the end of the frame.
Rendered(w, modal) ==
  LET named == [c \in DOMAIN w.strips |-> w.strips[c].active]
      shown == Keep(named, {c \in DOMAIN named : named[c] \in Tiles(w)})
      claim(keys, p) == IF ~modal /\ (w.panes[p].needs \/ keys = 0) THEN p ELSE keys
      after[n \in 0..Len(shown)] ==
        IF n = 0 THEN w.keys ELSE claim(after[n - 1], shown[n])
      flagged == {shown[n] : n \in {k \in DOMAIN shown : after[k] = shown[k]}}
      last == after[Len(shown)]
  IN  Painted(w, IF Contains(shown, last) THEN last ELSE 0, shown, flagged)

TreeOrder(w) == FlattenSeq([c \in DOMAIN w.strips |-> w.strips[c].tabs])

\* cycle_pane_global
Cycled(w, p, delta) ==
  LET all  == TreeOrder(w)
      at   == CHOOSE i \in DOMAIN all : all[i] = p
      next == all[((at - 1 + delta) % Len(all)) + 1]
  IN  IF Len(all) <= 1 THEN w ELSE TabClicked(w, next)

\* apply_pane_action
Acted(w, p, action, spawn) ==
  CASE action = "NewTab"   -> NewPane(w, StripOf(w, p), spawn)
    [] action = "NextTab"  -> Cycled(w, p, 1)
    [] action = "PrevTab"  -> Cycled(w, p, -1)
    [] action = "CloseTab" ->
         IF Cardinality(Open(w)) <= 1 THEN [w EXCEPT !.quitReq = TRUE]
         ELSE IF Runs(w, p) THEN [w EXCEPT !.confirm = p]
         ELSE [w EXCEPT !.closes = @ \cup {p}]
    [] action = "Quit"     -> [w EXCEPT !.quitReq = TRUE]
    [] action = "Restart"  ->
         IF ~w.panes[p].dead \/ spawn = "fails" THEN w
         ELSE [w EXCEPT !.panes[p] = [Slot(spawn = "row", FALSE) EXCEPT !.needs = TRUE]]
    [] OTHER               -> w

\* The two modals
CloseAnswered(w, answer) ==
  CASE w.confirm # 0 /\ answer = "yes" ->
         [w EXCEPT !.closes = @ \cup {w.confirm}, !.confirm = 0]
    [] w.confirm # 0 /\ answer = "no"  -> [w EXCEPT !.confirm = 0]
    [] OTHER                           -> w

\* Mutant: only the tabs in sight are asked whether a program runs.
QuitDecidedByShown(w) ==
  LET running == \E p \in Active(w) : Runs(w, p)
  IN  CASE ~w.quitReq            -> w
        [] w.quitReq /\ ~running -> [w EXCEPT !.quitReq = FALSE, !.quit = TRUE]
        [] w.quitReq /\ running  ->
             [w EXCEPT !.quitReq = FALSE, !.modal = IF @ = 0 THEN QuitFrames + 1 ELSE @]

QuitDecided(w) ==
  LET running == \E p \in Open(w) : Runs(w, p)
  IN  CASE ~w.quitReq            -> w
        [] w.quitReq /\ ~running -> [w EXCEPT !.quitReq = FALSE, !.quit = TRUE]
        [] w.quitReq /\ running  ->
             [w EXCEPT !.quitReq = FALSE, !.modal = IF @ = 0 THEN QuitFrames + 1 ELSE @]

QuitAnswered(w, answer) ==
  CASE w.modal = 0                          -> w
    [] w.modal = 1 \/ (w.modal # 0 /\ answer = "quit") ->
         [w EXCEPT !.modal = 0, !.quit = TRUE]
    [] w.modal > 1 /\ answer = "cancel"     -> [w EXCEPT !.modal = 0]
    [] OTHER                                -> [w EXCEPT !.modal = @ - 1]

\* Mutant: only a strip that names no tab at all is repaired.
RevalidatedIfNone(strips) ==
  [c \in DOMAIN strips |->
     [strips[c] EXCEPT !.active = IF @ # 0 THEN @ ELSE Head(strips[c].tabs)]]

\* revalidate_tabs_active: a strip whose active tab is not its own shows its first
Revalidated(strips) ==
  [c \in DOMAIN strips |->
     [strips[c] EXCEPT !.active = IF Contains(strips[c].tabs, @) THEN @
                                  ELSE Head(strips[c].tabs)]]

\* remove_recursively, and the simplification that drops an empty strip
Without(strips, gone) ==
  Tabbed([c \in DOMAIN strips |-> [strips[c] EXCEPT !.tabs = Less(@, gone)]])

\* Closed tabs go; the most recently focused pane that is left gets the keys.
Reclosed(w) ==
  LET gone  == w.closes \cap Tiles(w)
      w1    == [w EXCEPT !.closes = {}, !.strips = Without(w.strips, gone),
                  !.history = Less(@, gone)]
      heir  == w1.history[1]
  IN  IF w.focused \in gone /\ w1.history # <<>> /\ heir \in Tiles(w1)
        THEN TabClicked(w1, heir) ELSE w1

\* A pane that has just become the active one of its strip asks for the keys.
Activated(w) ==
  LET now == Active(w)
  IN  [w EXCEPT !.prevActive = now,
         !.panes = [p \in Open(w) |->
            [w.panes[p] EXCEPT !.needs = w.panes[p].needs \/ p \in now \ w.prevActive]]]

\* The slots are a hash map: with two flags up, either may be found first.
Focuses(w) ==
  LET flags == {p \in Open(w) : w.panes[p].flag}
  IN  IF flags = {} THEN {0} ELSE flags

Remembered(w, p) ==
  [w EXCEPT !.focused = p, !.history = IF p = 0 THEN @ ELSE <<p>> \o Less(@, {p})]

\* Slots without a tile are dropped, and their transcripts discarded.
Collected(w) == [w EXCEPT !.panes = [p \in Open(w) \cap Tiles(w) |-> w.panes[p]]]

Mapped(w) == {p \in Open(w) : w.panes[p].mapped}

\* save_layout_self_consistent: the tree less the panes without a row
Pruned(w) == Revalidated(Without(w.strips, Tiles(w) \ Mapped(w)))
Stored(w) == IF Mapped(w) \cap Tiles(w) = {} THEN w ELSE [w EXCEPT !.saved = Pruned(w)]

\* Mutant: a switch of tabs is not seen.
FingerprintOfLeaves(w) == <<[c \in DOMAIN w.strips |-> w.strips[c].tabs], Mapped(w)>>

\* layout_fingerprint: the shape, the active tabs and the mapped panes
Fingerprint(w) == <<w.strips, Mapped(w)>>

\* debounce_decide: a change arms the save, a quiet frame carries it out.
Debounced(w) ==
  IF Fingerprint(w) # w.print
    THEN [w EXCEPT !.print = Fingerprint(w), !.due = TRUE]
  ELSE IF w.due THEN [Stored(w) EXCEPT !.due = FALSE]
  ELSE w

Ended(w) == IF w.quit THEN w ELSE Debounced(w)

-----------------------------------------------------------------------------
\* A frame

\* What the mouse does to the tree, which egui_tiles lets count after the panes
\* are painted
Mouse(g, p, to) == [at |-> g, p |-> p, to |-> to]
NoMouse == Mouse("none", 0, 0)
Mice == {Mouse(g, p, 0) : g \in {"click", "x", "plus"} \cap Gestures, p \in Tiles(ws)}
        \cup {Mouse(g, p, c) : g \in {"drag"} \cap Gestures, p \in Tiles(ws),
                               c \in 0..Len(ws.strips) + 1}

Moused(w, mouse, spawn) ==
  CASE mouse.at = "click" -> TabClicked(w, mouse.p)
    [] mouse.at = "x"     -> CloseClicked(w, mouse.p)
    [] mouse.at = "plus"  -> NewPane(w, StripOf(w, mouse.p), spawn)
    [] mouse.at = "drag"  -> Dragged(w, mouse.p, mouse.to)
    [] OTHER              -> w

\* What happens in one frame: two things at most, to keep the choices few
Happens == {[what |-> e, p |-> p] : e \in {"exit", "alt"} \cap Gestures,
                                    p \in {q \in Open(ws) : ~ws.panes[q].dead}}
           \cup {[what |-> e, p |-> 0] : e \in {"osclose"} \cap Gestures}
Nothing == [what |-> "none", p |-> 0]
KeyActions == IF ws.keys \notin Open(ws) THEN {}
              ELSE {"NewTab", "NextTab", "PrevTab", "CloseTab", "Quit", "Restart"} \cap Gestures
Answers == (IF ws.confirm # 0 THEN {"yes", "no"} ELSE {})
           \cup (IF ws.modal # 0 THEN {"quit", "cancel"} ELSE {})
\* A new shell may come without a row in the database, or not at all.
Spawns(mouse, key) ==
  IF mouse.at = "plus" \/ key \in {"NewTab", "Restart"} THEN {"norow", "fails"} \cap Gestures
  ELSE {}
Also(S, n) == IF n < 2 /\ acts + n < MaxActs THEN S ELSE {}
Is(x, none) == IF x = none THEN 0 ELSE 1

\* From the modals to the focus, given what the user answered
Settled(w, answer) ==
  LET w1 == QuitAnswered(QuitDecided(CloseAnswered(w, answer)), answer)
      w2 == Reclosed(IF w1.quit THEN Stored(w1) ELSE w1)
  IN  Activated([w2 EXCEPT !.strips = Revalidated(w2.strips)])

Fits(w) == w.nextId <= MaxPaneId + 1 /\ Len(w.strips) <= MaxStrips

Frame(event, mouse, key, answer, spawn) ==
  LET w1 == Asked(Drained(ws, event.p, event.what), event.what = "osclose")
      w2 == CloseExited(w1)
      modal == ModalOpen(w2)
      w3 == Rendered(w2, modal)
      w4 == IF modal THEN w3 ELSE Moused(w3, mouse, spawn)
      w5 == IF modal \/ key = "none" THEN w4 ELSE Acted(w4, ws.keys, key, spawn)
      w6 == Settled(w5, answer)
  IN  /\ Fits(w5)
      /\ \E f \in Focuses(w6) : ws' = Ended(Collected(Remembered(w6, f)))
      /\ agreed' = {event.p}
                    \cup (IF answer = "yes" THEN {ws.confirm} ELSE {})
                    \cup (IF answer = "quit" \/ ws.modal = 1 THEN Open(ws) ELSE {})

WsNext ==
  /\ ~ws.quit
  /\ \E event \in {Nothing} \cup Also(Happens, 0) :
     \E mouse \in {NoMouse} \cup Also(Mice, Is(event, Nothing)) :
     LET n == Is(event, Nothing) + Is(mouse, NoMouse)
     IN  \E key \in {"none"} \cup Also(KeyActions, n) :
         \E answer \in {"none"} \cup Also(Answers, n + Is(key, "none")),
            spawn \in {"row"} \cup Spawns(mouse, key) :
           /\ Frame(event, mouse, key, answer, spawn)
           /\ acts' = acts + n + Is(key, "none") + Is(answer, "none")

WsSpec == WsInit /\ [][WsNext]_wsVars

-----------------------------------------------------------------------------
\* Properties

NoTabTwice(strips) ==
  \A c, d \in DOMAIN strips : \A i \in DOMAIN strips[c].tabs, j \in DOMAIN strips[d].tabs :
    strips[c].tabs[i] = strips[d].tabs[j] => c = d /\ i = j

\* Between two frames every pane has one tile, every strip shows a tab of its
\* own, and keyboard requests name panes that exist: a strip whose active tab
\* was closed, dragged away or pruned must not paint nothing.
EveryStripShowsItsOwn ==
  /\ Open(ws) = Tiles(ws) /\ NoTabTwice(ws.strips)
  /\ \A c \in DOMAIN ws.strips : Contains(ws.strips[c].tabs, ws.strips[c].active)
  /\ ws.confirm = 0 \/ ws.confirm < ws.nextId

\* A program on the alternate screen is not killed by a close or a quit nobody
\* agreed to, wherever its tab is and whatever else happens in the frame.
KillsOnlyAsked == \A p \in Open(ws) : Runs(ws, p) /\ (p \notin Open(ws') \/ ws'.quit)
                                        => p \in agreed'
NoProgramKilledUnasked == [][KillsOnlyAsked]_wsVars

\* With no save pending the saved layout is the tree, less the panes that have
\* no row: no change of tabs, shape, active tab or rows goes unsaved.
NoUnsavedLayout ==
  ~ws.due /\ ~ws.quit /\ ws.print # <<>> =>
    ws.saved = Pruned(ws) \/ Mapped(ws) = {}

\* The window is never left without a tab, unless it is closing or the question
\* whether to quit is up (app.rs, the auto-close of exited panes).
NeverTabless == Open(ws) = {} => ws.quit \/ ws.modal # 0

\* When the focused tab closes, the most recently focused pane that is still
\* open is shown and asks for the keys (app.rs, the refocus rule).
RefocusesMostRecent ==
  [][LET left == SelectSeq(ws.history, LAMBDA p : p \in Open(ws'))
     IN  ws.focused \in Open(ws) \ Open(ws') /\ left # <<>> /\ ~ws'.quit =>
           Head(left) \in Active(ws') /\ ws'.panes[Head(left)].needs]_wsVars
=============================================================================
