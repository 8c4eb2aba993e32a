----------------------------- MODULE KeyRouting -----------------------------
\* Who gets a key: render_pane.rs's focus claims, popup chords and keyboard
\* loop, the overlays that read the same keys, input.rs and the find action of
\* app.rs. Two panes are rendered one after the other in a frame, and a frame
\* brings a press of the mouse, a turn of the wheel and a few keys at most.
EXTENDS Integers, Sequences, FiniteSets, SequencesExt

CONSTANTS
  KeyPlatforms, \* of {"mac", "linux"}
  KeyFrames,    \* the key sequences a frame may bring
  KeyMoves,     \* "together": a press, or a tab chosen, and keys in one frame; "leave": a press
                \* elsewhere with a completion popup open; "let_go": Shift is up
                \* again when the frame reads it; "slow": a completion answer after
                \* its pane has lost the keyboard
  MaxEvents     \* bound: frames with input, and things that happen meanwhile

KeyNames == {"x", "enter", "esc", "tab", "ctrl_c", "ctrl_d", "ctrl_x",
             "history", "sheet", "find", "copy"}
ASSUME KeyAssumption == KeyPlatforms \subseteq {"mac", "linux"} /\ KeyFrames \subseteq Seq(KeyNames)

VARIABLES
  os,      \* the platform
  slots,   \* each pane's mode, editor text and PaneUiState
  focus,   \* egui: the widget that has the keyboard
  modal,   \* a confirmation is up
  frame,   \* ghost: the input of the last frame and what it found
  log,     \* ghost: where each key went
  events   \* things so far
keyVars == <<os, slots, focus, modal, frame, log, events>>

Sides == {1, 2}
Nowhere == [on |-> "none", pane |-> 0]
Grid(p) == [on |-> "grid", pane |-> p]
Field(p) == [on |-> "field", pane |-> p]
Overlays == {"history", "find", "sheet"}

Editing(pane) == pane.mode = "editor"
Empty(pane) == Editing(pane) => pane.text = 0

\* encode_event: the chords of the popups and of copying have no bytes of
\* their own, but Ctrl+R has, and an unclaimed Copy is Ctrl+C again on Linux
Encodes(key) == key \in {"x", "enter", "esc", "tab", "ctrl_c", "ctrl_d", "ctrl_x", "history"}
                        \cup (IF os = "linux" THEN {"copy"} ELSE {})

\* Copy and Cut come as events of their own, Shift or not, on Linux.
CopyClaims(fr, key) ==
  IF os = "mac" THEN key = "copy"
  ELSE fr.shift /\ key \in {"copy", "ctrl_c", "ctrl_x"}

-----------------------------------------------------------------------------
\* One pane's part of a frame, on s == [slots, focus, log, act, touched]

Deliver(s, p, i, key, to) ==
  [s EXCEPT !.log = Append(@, [i |-> i, key |-> key, pane |-> p, to |-> to,
                               empty |-> Empty(s.slots[p])])]

\* Without its editor a pane has no completion.
NoEditor(s, p) ==
  IF Editing(s.slots[p]) THEN s
  ELSE [s EXCEPT !.slots[p].popups = @ \ {"completion"}, !.slots[p].pending = FALSE]

\* A press claims the focus before the pane looks whether it has it.
Grabbed(s, p, fr) == IF fr.press = p /\ ~modal THEN [s EXCEPT !.focus = Grid(p)] ELSE s

\* needs_focus and an unfocused window claim it after.
Claimed(s, p) ==
  [s EXCEPT !.slots[p].needs = FALSE,
            !.focus = IF ~modal /\ (s.slots[p].needs \/ s.focus = Nowhere) THEN Grid(p) ELSE @]

\* The chords that go from popup to popup: the first one counts.
Chord(s, p, key) == key \in {"sheet", "find"} \/ (key = "history" /\ Editing(s.slots[p]))
Chords(s, p, fr) ==
  LET is == {i \in DOMAIN fr.keys : Chord(s, p, fr.keys[i])}
      i == CHOOSE j \in is : \A k \in is : j <= k
      d == Deliver(s, p, i, fr.keys[i], "popup")
  IN  IF is = {} THEN s
      ELSE IF fr.keys[i] = "find" THEN [s EXCEPT !.act[p] = i]
      ELSE [d EXCEPT !.slots[p].popups = {fr.keys[i]}, !.slots[p].pending = FALSE]

\* Accepting a candidate, or a line of the history
Insert(s, p) == IF Editing(s.slots[p]) THEN [s EXCEPT !.slots[p].text = 1, !.touched = TRUE] ELSE s

\* A completion plan: a popup, an answer to wait for, or nothing
Planned(s, p, plan) ==
  IF plan = "await" THEN [s EXCEPT !.slots[p].pending = TRUE]
  ELSE [s EXCEPT !.slots[p].pending = FALSE,
                 !.slots[p].popups = IF plan = "open" THEN @ \cup {"completion"}
                                     ELSE @ \ {"completion"}]

\* apply_event_to_editor: the keys it takes, and what they do if it is there
EditorTakes(s, p, key) ==
  \/ key \in {"x", "enter", "esc"} \/ (key = "tab" /\ Editing(s.slots[p]))
  \/ key = "ctrl_c" /\ os = "mac" /\ Editing(s.slots[p]) /\ s.slots[p].cont
ToEditor(s, p, i, key) ==
  IF ~Editing(s.slots[p]) THEN s
  ELSE IF key = "x" THEN Insert(Deliver(s, p, i, key, "editor"), p)
  ELSE IF key = "enter"
    THEN [Deliver(s, p, i, key, "editor") EXCEPT
            !.slots[p].mode = "raw", !.slots[p].text = 0, !.slots[p].cont = FALSE]
  ELSE IF key = "ctrl_c"
    THEN [Deliver(s, p, i, key, "pty") EXCEPT
            !.slots[p].text = 0, !.slots[p].cont = FALSE, !.touched = TRUE]
  ELSE Deliver(s, p, i, key, "editor")

\* pty_passthrough_allowed
Passes(s, p, key, editor) == ~editor \/ (Empty(s.slots[p]) /\ key = "ctrl_d")

\* The keys of a popup that is no overlay: the rest goes on to the editor.
PopupTakes(s, p, key) == "completion" \in s.slots[p].popups /\ key \in {"esc", "enter", "tab"}
ToPopup(s, p, i, key) ==
  LET d == [Deliver(s, p, i, key, "popup") EXCEPT !.slots[p].popups = @ \ {"completion"}]
  IN  IF key = "esc" THEN [d EXCEPT !.slots[p].pending = FALSE] ELSE Insert(d, p)

\* One event of the loop. `editor` was read before the loop.
OneKey(s, p, i, fr, editor) ==
  LET key == fr.keys[i]
  IN  IF CopyClaims(fr, key) \/ s.slots[p].popups \cap Overlays # {} THEN s
      ELSE IF PopupTakes(s, p, key) THEN ToPopup(s, p, i, key)
      ELSE IF key = "tab" /\ editor /\ s.slots[p].popups = {} /\ ~s.slots[p].pending
        THEN Planned(Deliver(s, p, i, key, "editor"), p, fr.plan)
      ELSE IF editor /\ EditorTakes(s, p, key) THEN ToEditor(s, p, i, key)
      ELSE IF Passes(s, p, key, editor) /\ Encodes(key) THEN Deliver(s, p, i, key, "pty")
      ELSE s
Loop(s, p, fr) ==
  LET after[n \in 0..Len(fr.keys)] ==
        IF n = 0 THEN s ELSE OneKey(after[n - 1], p, n, fr, Editing(s.slots[p]))
  IN  after[Len(fr.keys)]

ToClipboard(s, p, fr) ==
  LET is == {i \in DOMAIN fr.keys : fr.keys[i] = "copy" /\ CopyClaims(fr, "copy")}
  IN  IF is = {} THEN s ELSE Deliver(s, p, CHOOSE i \in is : TRUE, "copy", "clipboard")

\* The wheel's arrows are written before the keys.
Wheel(s, p, fr) ==
  IF fr.wheel = p /\ s.slots[p].mode = "alt" /\ ~modal THEN Deliver(s, p, 0, "wheel", "pty") ELSE s

Keyboard(s, p, fr) == Loop(Wheel(ToClipboard(s, p, fr), p, fr), p, fr)

\* The popup follows what was typed.
Refiltered(s, p, fr) ==
  IF /\ s.touched /\ Editing(s.slots[p])
     /\ "completion" \in s.slots[p].popups \/ s.slots[p].pending
    THEN Planned(s, p, fr.plan) ELSE s

\* An overlay's field takes what is typed while it has the focus.
FieldTakes(s, p, fr) ==
  LET after[n \in 0..Len(fr.keys)] ==
        IF n = 0 THEN s
        ELSE IF fr.keys[n] = "x" /\ s.focus = Field(p) THEN Deliver(after[n - 1], p, n, "x", "popup")
        ELSE after[n - 1]
  IN  after[Len(fr.keys)]

\* Escape and Enter are read from the frame, whoever has it. A sheet knows no
\* Enter.
OverlayUp(s, p, fr, kind) ==
  LET ends == {i \in DOMAIN fr.keys : fr.keys[i] = "esc" \/ (fr.keys[i] = "enter" /\ kind = "history")}
      i == CHOOSE j \in ends : fr.keys[j] = "enter" \/ \A k \in ends : fr.keys[k] # "enter"
      held == [FieldTakes(s, p, fr) EXCEPT !.focus = Field(p)]
      done == [Deliver(held, p, i, fr.keys[i], "popup") EXCEPT
                 !.slots[p].popups = @ \ {kind}, !.slots[p].needs = TRUE]
  IN  IF ends = {} THEN held
      ELSE IF fr.keys[i] = "enter" /\ Editing(done.slots[p])
        THEN [done EXCEPT !.slots[p].text = 1] ELSE done
Overlay(s, p, fr, kind) == IF kind \in s.slots[p].popups THEN OverlayUp(s, p, fr, kind) ELSE s

\* Mutant: the gate reads the focus after the claims.
RenderedLate(s, p, fr) ==
  LET s1 == Claimed(Grabbed(NoEditor([s EXCEPT !.touched = FALSE], p), p, fr), p)
      had == s1.focus = Grid(p)
      s3 == IF ~modal /\ (had \/ s1.slots[p].popups # {}) THEN Chords(s1, p, fr) ELSE s1
      s4 == IF ~modal /\ had THEN Refiltered(Keyboard(s3, p, fr), p, fr) ELSE s3
  IN  Overlay(Overlay(Overlay(s4, p, fr, "history"), p, fr, "find"), p, fr, "sheet")

\* render_pane
Rendered(s, p, fr) ==
  LET s1 == Grabbed(NoEditor([s EXCEPT !.touched = FALSE], p), p, fr)
      had == s1.focus = Grid(p)
      s2 == Claimed(s1, p)
      s3 == IF ~modal /\ (had \/ s2.slots[p].popups # {}) THEN Chords(s2, p, fr) ELSE s2
      s4 == IF ~modal /\ had THEN Refiltered(Keyboard(s3, p, fr), p, fr) ELSE s3
  IN  Overlay(Overlay(Overlay(s4, p, fr, "history"), p, fr, "find"), p, fr, "sheet")

\* apply_pane_action, OpenFind, once every pane is rendered
FindOpened(s, p) ==
  LET d == Deliver(s, p, s.act[p], "find", "popup")
  IN  IF s.act[p] = 0 \/ s.slots[p].mode = "alt" THEN s
      ELSE [d EXCEPT !.slots[p].popups = {"find"}, !.slots[p].needs = TRUE]

\* egui, before anything is rendered: Escape in a field takes its focus away.
Unfocused(fr) == IF focus.on = "field" /\ "esc" \in ToSet(fr.keys) THEN Nowhere ELSE focus

\* and after: a field that is gone keeps the focus for no more than a frame.
FocusAfter(s) ==
  IF /\ s.focus.on = "field" /\ s.focus = focus /\ s.slots[s.focus.pane].popups \cap Overlays = {}
    THEN Nowhere ELSE s.focus

-----------------------------------------------------------------------------

NoFrame == [keys |-> <<>>, press |-> 0, wheel |-> 0, shift |-> FALSE, plan |-> "close",
            owner |-> 0, on |-> "none", modal |-> FALSE, found |-> <<>>]
KeyInit ==
  /\ os \in KeyPlatforms
  /\ slots = [p \in Sides |-> [mode |-> "raw", text |-> 0, cont |-> FALSE, popups |-> {},
                               pending |-> FALSE, needs |-> FALSE]]
  /\ focus = Nowhere /\ modal = FALSE /\ frame = NoFrame /\ log = <<>> /\ events = 0

Happens == events < MaxEvents /\ events' = events + 1 /\ frame' = NoFrame /\ log' = <<>>

\* The shell asks for a line, or for the rest of one.
ShellPrompts ==
  /\ Happens
  /\ \E p \in Sides, more \in BOOLEAN :
      /\ slots[p].mode = "raw"
      /\ slots' = [slots EXCEPT ![p].mode = "editor", ![p].cont = more, ![p].text = IF more THEN 1 ELSE 0]
  /\ UNCHANGED <<os, focus, modal>>

AltScreen ==
  /\ Happens
  /\ \E p \in Sides : /\ ~Editing(slots[p])
                      /\ slots' = [slots EXCEPT ![p].mode = IF @ = "raw" THEN "alt" ELSE "raw"]
  /\ UNCHANGED <<os, focus, modal>>

\* The pane has the keyboard, nothing is open but its completion, and no other
\* pane asks for the focus.
AtHome(p) == /\ focus = Grid(p) /\ slots[p].popups \subseteq {"completion"}
             /\ slots[3 - p].popups = {} /\ ~slots[3 - p].needs

\* The engine answers: a popup, or the only candidate is taken.
Answer ==
  /\ Happens
  /\ \E p \in Sides, lone \in BOOLEAN :
      /\ slots[p].pending /\ Editing(slots[p])
      /\ "slow" \in KeyMoves \/ AtHome(p)
      /\ slots' = [slots EXCEPT ![p].pending = FALSE, ![p].text = IF lone THEN 1 ELSE @,
                                ![p].popups = IF lone THEN @ \ {"completion"} ELSE @ \cup {"completion"}]
  /\ UNCHANGED <<os, focus, modal>>

\* A tab is clicked or opened: its pane asks for the focus.
TabChosen == /\ Happens
             /\ \E p \in Sides : /\ slots' = [slots EXCEPT ![p].needs = TRUE]
                                 /\ "leave" \in KeyMoves \/ slots[3 - p].popups = {}
             /\ UNCHANGED <<os, focus, modal>>

Confirm == Happens /\ modal' = ~modal /\ UNCHANGED <<os, slots, focus>>

\* What a frame brings and finds, what it starts with, and what it comes to
Input(keys, press, wheel, plan, shift) ==
  [keys |-> keys, press |-> press, wheel |-> wheel, shift |-> shift, plan |-> plan,
   owner |-> focus.pane, on |-> focus.on, modal |-> modal, found |-> slots]
Start(fr) == [slots |-> slots, focus |-> Unfocused(fr), log |-> <<>>, act |-> [p \in Sides |-> 0],
              touched |-> FALSE]
Framed(fr) == FindOpened(FindOpened(Rendered(Rendered(Start(fr), 1, fr), 2, fr), 1), 2)

\* Shift is down in a frame that copies, unless it was let go.
Shifts(keys) ==
  LET copies == keys # <<>> /\ Last(keys) = "copy"
  IN  IF copies /\ "let_go" \in KeyMoves THEN BOOLEAN ELSE {copies}

\* A frame of the window
KeyFrame ==
  /\ events < MaxEvents /\ events' = events + 1
  /\ \E keys \in KeyFrames, press \in 0..2, wheel \in 0..2, plan \in {"open", "await", "close"} :
      \E shift \in Shifts(keys) :
       LET fr == Input(keys, press, wheel, plan, shift)
           s == Framed(fr)
           tab == "tab" \in ToSet(keys)
           left == \E p \in Sides \ {press} : press # 0 /\ slots[p].popups = {"completion"}
       IN /\ press # 0 => ~modal
          /\ \/ keys = <<>> \/ "together" \in KeyMoves
             \/ press = 0 /\ \A p \in Sides : slots[p].needs => p = focus.pane
          /\ left => "leave" \in KeyMoves
          \* Tab leaves the sheet's field, and moves a focus that is nowhere.
          /\ tab => focus.on = "grid" /\ \A p \in Sides : "sheet" \notin slots[p].popups
          /\ wheel # 0 => slots[wheel].mode = "alt"
          /\ plan # "close" => \/ tab \/ \E p \in Sides : \/ slots[p].pending
                                                          \/ "completion" \in slots[p].popups
          /\ slots' = s.slots /\ focus' = FocusAfter(s) /\ log' = s.log /\ frame' = fr
  /\ UNCHANGED <<os, modal>>

KeyNext == ShellPrompts \/ AltScreen \/ Answer \/ TabChosen \/ Confirm \/ KeyFrame
KeySpec == KeyInit /\ [][KeyNext]_keyVars

-----------------------------------------------------------------------------
\* Properties

\* The popups of a pane exclude one another.
OnePopup == \A p \in Sides : Cardinality(slots[p].popups) <= 1

\* A key goes to the pane that had the keyboard when the frame began, or to the
\* popup that was up, and nowhere else, once, and no two popups of a pane share
\* it; while the editor owns the line the shell sees none of it but the end of
\* input on an empty line and the end of a continuation (render_pane's gate).
KeysStayHome ==
  /\ \A j \in DOMAIN log : log[j].i # 0 =>
       log[j].pane = frame.owner \/ frame.found[log[j].pane].popups # {}
  /\ \A j, k \in DOMAIN log : log[j].i = log[k].i => j = k
  /\ OnePopup
  /\ \A j \in DOMAIN log :
       log[j].to = "pty" /\ Editing(frame.found[log[j].pane])
         => \/ log[j].key = "ctrl_d" /\ log[j].empty
            \/ log[j].key = "ctrl_c" /\ frame.found[log[j].pane].cont

\* A program loses none of the keys typed at it and gets them in their order,
\* behind the wheel's, unless a popup is up or another pane has asked for the
\* focus; copying never interrupts it (render_pane's keyboard loop, input.rs).
KeysArriveInOrder ==
  /\ \A j, k \in DOMAIN log : log[j].to = "pty" /\ log[k].to = "pty" /\ j < k => log[j].i < log[k].i
  /\ \A j \in DOMAIN log : log[j].to = "pty" => log[j].key # "copy"
  /\ frame.on = "grid" /\ ~frame.modal /\ ~Editing(frame.found[frame.owner])
       /\ (\A p \in Sides : ~frame.found[p].needs /\ frame.found[p].popups \cap Overlays = {})
     => \A i \in DOMAIN frame.keys :
          frame.keys[i] \in {"x", "enter", "esc", "tab", "ctrl_c", "ctrl_d", "ctrl_x"}
            => \/ \E j \in DOMAIN log : log[j].i = i /\ log[j].to = "pty"
               \/ "sheet" \in ToSet(frame.keys)

\* A key reaches one reader, the right one, in the order typed (render_pane.rs).
KeysReachTheirReader == KeysStayHome /\ KeysArriveInOrder

\* No key is typed at two panes: "Keyboard events go to the focused pane only"
\* (render_pane.rs, above render_pane).
OneKeyboard == \A j, k \in DOMAIN log : log[j].i = log[k].i => log[j].pane = log[k].pane
=============================================================================
