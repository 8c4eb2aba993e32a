--------------------------- MODULE WorkspaceProofs ---------------------------
(***************************************************************************)
(* What holds of the window, for every bound, every choice of gestures and *)
(* any countdown of a quit that lasts a frame.                             *)
(*                                                                         *)
(* A frame is a composition, and so is its proof: each stage keeps the     *)
(* window Sound and Leads on from it, that is, it neither closes nor stops *)
(* a program that is Alive, and does not touch what the layout is saved by.*)
(* Exited panes are on their way out (Doomed) from the stage that sees     *)
(* them to the one that removes their tile, so none is left between frames *)
(* (AtRest) and a program that runs is never taken for one.                *)
(***************************************************************************)
EXTENDS Workspace, SublistProofs

Slots == [mapped : BOOLEAN, dead : BOOLEAN, alt : BOOLEAN, exited : BOOLEAN,
          needs : BOOLEAN, flag : BOOLEAN]
Strips == [tabs : Seq(Nat), active : Nat]

\* A tree of strips, some of which a drag or a close may just have emptied
IsTree(strips) == strips \in Seq(Strips) /\ NoTabTwice(strips)
TilesOf(strips) == UNION {ToSet(strips[c].tabs) : c \in DOMAIN strips}

IsWindow(w) ==
  w = [panes |-> w.panes, strips |-> w.strips, nextId |-> w.nextId, keys |-> w.keys,
       focused |-> w.focused, history |-> w.history, prevActive |-> w.prevActive,
       closes |-> w.closes, confirm |-> w.confirm, quitReq |-> w.quitReq, modal |-> w.modal,
       quit |-> w.quit, print |-> w.print, due |-> w.due, saved |-> w.saved]

Sound(w) ==
  /\ IsWindow(w)
  /\ w.panes \in [Open(w) -> Slots]
  /\ w.nextId \in Nat \ {0}
  /\ \A p \in Open(w) : p \in Nat /\ p < w.nextId
  /\ \A p \in Open(w) : w.panes[p].dead => ~w.panes[p].alt
  /\ IsTree(w.strips) /\ \A c \in DOMAIN w.strips : w.strips[c].tabs # <<>>
  /\ TilesOf(w.strips) \subseteq Open(w)
  /\ w.confirm \in Nat /\ w.confirm < w.nextId
  /\ w.quitReq \in BOOLEAN /\ w.quit \in BOOLEAN /\ w.modal \in Nat /\ w.due \in BOOLEAN

\* A program that nothing of this frame has asked to close
Alive(w, p) == /\ p \in TilesOf(w.strips) /\ p \in Open(w) /\ p \notin w.closes
               /\ w.panes[p].alt /\ ~w.panes[p].exited

Doomed(w) == \A p \in Open(w) \cap TilesOf(w.strips) : w.panes[p].exited => p \in w.closes

\* From w, a stage that what was agreed to may close has led to v.
Leads(w, v, agreeing) ==
  /\ Sound(v)
  /\ v.quit = w.quit /\ v.modal = w.modal
  /\ v.print = w.print /\ v.due = w.due /\ v.saved = w.saved
  /\ \A p : p \notin agreeing /\ Alive(w, p) => Alive(v, p)

\* Between two frames
AtRest(w) ==
  /\ Sound(w)
  /\ w.closes = {} /\ Doomed(w)
  /\ Open(w) = TilesOf(w.strips)
  /\ \A c \in DOMAIN w.strips : Contains(w.strips[c].tabs, w.strips[c].active)
  /\ w.quit \/ w.print = <<>> \/
       (/\ w.print = Fingerprint(w)
        /\ ~w.due => w.saved = Pruned(w) \/ Mapped(w) = {})

Window == AtRest(ws)

-----------------------------------------------------------------------------
\* Trees of strips

OnceEach(tabs) == \A i, j \in DOMAIN tabs : tabs[i] = tabs[j] => i = j

\* No tab is twice in the tree when none is twice in its strip or in two strips.
LEMMA TabsApart ==
  ASSUME NEW strips
  PROVE  NoTabTwice(strips) <=>
           /\ \A c \in DOMAIN strips : OnceEach(strips[c].tabs)
           /\ \A c, d \in DOMAIN strips :
                c # d => ToSet(strips[c].tabs) \cap ToSet(strips[d].tabs) = {}
<1>1. ASSUME NoTabTwice(strips), NEW c \in DOMAIN strips PROVE OnceEach(strips[c].tabs)
  BY <1>1 DEF NoTabTwice, OnceEach
<1>2. ASSUME NoTabTwice(strips), NEW c \in DOMAIN strips, NEW d \in DOMAIN strips, c # d
      PROVE  ToSet(strips[c].tabs) \cap ToSet(strips[d].tabs) = {}
  BY <1>2 DEF NoTabTwice, ToSet
<1>3. ASSUME \A c \in DOMAIN strips : OnceEach(strips[c].tabs),
             \A c, d \in DOMAIN strips :
                c # d => ToSet(strips[c].tabs) \cap ToSet(strips[d].tabs) = {}
      PROVE  NoTabTwice(strips)
  <2> SUFFICES ASSUME NEW c \in DOMAIN strips, NEW d \in DOMAIN strips,
                      NEW i \in DOMAIN strips[c].tabs, NEW j \in DOMAIN strips[d].tabs,
                      strips[c].tabs[i] = strips[d].tabs[j]
               PROVE  c = d /\ i = j
    BY DEF NoTabTwice
  <2>1. strips[c].tabs[i] \in ToSet(strips[c].tabs) /\ strips[c].tabs[i] \in ToSet(strips[d].tabs)
    BY DEF ToSet
  <2>2. c = d
    BY <1>3, <2>1
  <2>3. QED BY <1>3, <2>2 DEF OnceEach
<1>4. QED BY <1>1, <1>2, <1>3

\* Less takes away what it is told to, and repeats nothing.
LEMMA LessTabs ==
  ASSUME NEW s \in Seq(Nat), NEW gone
  PROVE  /\ Less(s, gone) \in Seq(Nat)
         /\ ToSet(Less(s, gone)) = ToSet(s) \ gone
         /\ OnceEach(s) => OnceEach(Less(s, gone))
<1> DEFINE places == {i \in DOMAIN s : s[i] \notin gone}
           t == Keep(s, places)
<1>1. t \in Seq(Nat) /\ DOMAIN t = 1..Len(t) /\ DOMAIN s = 1..Len(s)
  BY KeepType
<1>2. PICK from : KeptFrom(from, s, places)
  BY KeepPlaces
<1> HIDE DEF places
<1>3. /\ \A k \in 1..Len(t) : from[k] \in 1..Len(s) \cap places /\ t[k] = s[from[k]]
      /\ \A j, k \in 1..Len(t) : j < k => from[j] < from[k]
      /\ \A n \in 1..Len(s) \cap places : \E k \in 1..Len(t) : from[k] = n
  BY <1>2 DEF KeptFrom
<1> HIDE DEF t
<1>4. \A n : n \in places <=> n \in DOMAIN s /\ s[n] \notin gone
  BY DEF places
<1>5. ToSet(t) = ToSet(s) \ gone
  <2>1. ASSUME NEW k \in DOMAIN t PROVE t[k] \in ToSet(s) \ gone
    BY <1>1, <1>3, <1>4 DEF ToSet
  <2>2. ASSUME NEW n \in DOMAIN s, s[n] \notin gone PROVE s[n] \in ToSet(t)
    <3>1. PICK k \in 1..Len(t) : from[k] = n
      BY <1>1, <1>3, <1>4, <2>2
    <3>2. QED BY <1>1, <1>3, <3>1 DEF ToSet
  <2>3. QED BY <2>1, <2>2 DEF ToSet
<1>6. ASSUME OnceEach(s) PROVE OnceEach(t)
  <2> SUFFICES ASSUME NEW i \in DOMAIN t, NEW j \in DOMAIN t, t[i] = t[j] PROVE i = j
    BY DEF OnceEach
  <2>1. from[i] \in 1..Len(s) /\ from[j] \in 1..Len(s) /\ s[from[i]] = s[from[j]]
    BY <1>1, <1>3
  <2>2. from[i] = from[j]
    BY <1>1, <1>6, <2>1 DEF OnceEach
  <2>3. i \in Int /\ j \in Int /\ i \in 1..Len(t) /\ j \in 1..Len(t)
    BY <1>1
  <2>4. ~(i < j) /\ ~(j < i)
    BY <1>3, <2>1, <2>2, <2>3
  <2>5. QED BY <2>3, <2>4
<1>7. Less(s, gone) = t
  BY DEF Less, t, places
<1>8. QED BY <1>1, <1>5, <1>6, <1>7

\* Dropping the empty strips drops no tab.
LEMMA TabbedTree ==
  ASSUME NEW strips, IsTree(strips)
  PROVE  /\ IsTree(Tabbed(strips)) /\ TilesOf(Tabbed(strips)) = TilesOf(strips)
         /\ \A c \in DOMAIN Tabbed(strips) : Tabbed(strips)[c].tabs # <<>>
<1> DEFINE places == {c \in DOMAIN strips : strips[c].tabs # <<>>}
           t == Keep(strips, places)
<1>1. /\ strips \in Seq(Strips) /\ t \in Seq(Strips)
      /\ DOMAIN t = 1..Len(t) /\ DOMAIN strips = 1..Len(strips) /\ Len(t) \in Nat
  BY KeepType DEF IsTree
<1>2. PICK from : KeptFrom(from, strips, places)
  BY <1>1, KeepPlaces
<1> HIDE DEF places
<1>3. /\ \A k \in DOMAIN t : from[k] \in DOMAIN strips /\ from[k] \in places /\ t[k] = strips[from[k]]
      /\ \A j, k \in DOMAIN t : j < k => from[j] < from[k]
      /\ \A n \in DOMAIN strips : n \in places => \E k \in DOMAIN t : from[k] = n
  BY <1>1, <1>2 DEF KeptFrom
<1> HIDE DEF t
<1>4. \A n : n \in places <=> n \in DOMAIN strips /\ strips[n].tabs # <<>>
  BY DEF places
<1>5. ASSUME NEW j \in DOMAIN t, NEW k \in DOMAIN t, from[j] = from[k] PROVE j = k
  BY <1>1, <1>3, <1>5
<1>6. NoTabTwice(t)
  <2>1. /\ \A c \in DOMAIN strips : OnceEach(strips[c].tabs)
        /\ \A c, d \in DOMAIN strips :
             c # d => ToSet(strips[c].tabs) \cap ToSet(strips[d].tabs) = {}
    BY TabsApart DEF IsTree
  <2>2. \A c \in DOMAIN t : OnceEach(t[c].tabs)
    BY <1>3, <2>1
  <2>3. \A c, d \in DOMAIN t : c # d => ToSet(t[c].tabs) \cap ToSet(t[d].tabs) = {}
    BY <1>3, <1>5, <2>1
  <2>4. QED BY <2>2, <2>3, TabsApart
<1>7. TilesOf(t) = TilesOf(strips)
  <2>1. ASSUME NEW c \in DOMAIN t PROVE ToSet(t[c].tabs) \subseteq TilesOf(strips)
    BY <1>3 DEF TilesOf
  <2>2. ASSUME NEW c \in DOMAIN strips PROVE ToSet(strips[c].tabs) \subseteq TilesOf(t)
    <3>1. CASE c \in places
      BY <1>3, <3>1 DEF TilesOf
    <3>2. CASE c \notin places
      <4>1. strips[c].tabs = <<>>
        BY <1>4, <3>2
      <4>2. QED BY <4>1 DEF ToSet
    <3>3. QED BY <3>1, <3>2
  <2>3. QED BY <2>1, <2>2 DEF TilesOf
<1>8. Tabbed(strips) = t
  BY DEF Tabbed, t, places
<1>9. QED BY <1>1, <1>3, <1>4, <1>6, <1>7, <1>8 DEF IsTree

\* What a tree is, strip by strip
LEMMA TreeParts ==
  ASSUME NEW strips, IsTree(strips)
  PROVE  /\ strips \in Seq(Strips) /\ Len(strips) \in Nat /\ DOMAIN strips = 1..Len(strips)
         /\ \A c \in DOMAIN strips : strips[c] \in Strips /\ strips[c].tabs \in Seq(Nat)
         /\ \A c \in DOMAIN strips : OnceEach(strips[c].tabs)
         /\ \A c, d \in DOMAIN strips :
              c # d => ToSet(strips[c].tabs) \cap ToSet(strips[d].tabs) = {}
<1>1. strips \in Seq(Strips) /\ Len(strips) \in Nat /\ DOMAIN strips = 1..Len(strips)
  BY DEF IsTree
<1>2. \A c \in DOMAIN strips : strips[c] \in Strips
  BY <1>1
<1>3. \A c \in DOMAIN strips : strips[c].tabs \in Seq(Nat)
  BY <1>2 DEF Strips
<1>4. QED BY <1>1, <1>2, <1>3, TabsApart DEF IsTree

\* Tabs taken out of every strip, or of those that p is in
LEMMA ThinTree ==
  ASSUME NEW strips, IsTree(strips), NEW thin \in Seq(Strips), NEW gone,
         Len(thin) = Len(strips),
         \A c \in DOMAIN strips : \/ thin[c].tabs = Less(strips[c].tabs, gone)
                                  \/ /\ thin[c].tabs = strips[c].tabs
                                     /\ ToSet(strips[c].tabs) \cap gone = {}
  PROVE  IsTree(thin) /\ TilesOf(thin) = TilesOf(strips) \ gone
<1>1. DOMAIN thin = DOMAIN strips /\ strips \in Seq(Strips)
  BY DEF IsTree
<1>2. /\ \A c \in DOMAIN strips : OnceEach(strips[c].tabs) /\ strips[c].tabs \in Seq(Nat)
      /\ \A c, d \in DOMAIN strips :
           c # d => ToSet(strips[c].tabs) \cap ToSet(strips[d].tabs) = {}
  BY TreeParts
<1>3. ASSUME NEW c \in DOMAIN strips
      PROVE  OnceEach(thin[c].tabs) /\ ToSet(thin[c].tabs) = ToSet(strips[c].tabs) \ gone
  <2>1. CASE thin[c].tabs = Less(strips[c].tabs, gone)
    BY <1>2, <2>1, LessTabs
  <2>2. CASE thin[c].tabs = strips[c].tabs /\ ToSet(strips[c].tabs) \cap gone = {}
    BY <1>2, <2>2
  <2>3. QED BY <2>1, <2>2
<1>4. ASSUME NEW c \in DOMAIN thin, NEW d \in DOMAIN thin, c # d
      PROVE  ToSet(thin[c].tabs) \cap ToSet(thin[d].tabs) = {}
  <2>1. ToSet(strips[c].tabs) \cap ToSet(strips[d].tabs) = {}
    BY <1>1, <1>2, <1>4
  <2>2. /\ ToSet(thin[c].tabs) \subseteq ToSet(strips[c].tabs)
        /\ ToSet(thin[d].tabs) \subseteq ToSet(strips[d].tabs)
    BY <1>1, <1>3
  <2>3. QED BY <2>1, <2>2
<1>5. NoTabTwice(thin)
  BY <1>1, <1>3, <1>4, TabsApart
<1>6. TilesOf(thin) = TilesOf(strips) \ gone
  BY <1>1, <1>3 DEF TilesOf
<1>7. QED BY <1>5, <1>6 DEF IsTree

\* A pane that is in no strip may go to the end of one.
LEMMA TabAdded ==
  ASSUME NEW strips, IsTree(strips), NEW more \in Seq(Strips), NEW c \in DOMAIN strips,
         NEW p \in Nat, p \notin TilesOf(strips), Len(more) = Len(strips),
         more[c].tabs = Append(strips[c].tabs, p),
         \A d \in DOMAIN strips : d # c => more[d].tabs = strips[d].tabs
  PROVE  IsTree(more) /\ TilesOf(more) = TilesOf(strips) \cup {p}
<1>1. DOMAIN more = DOMAIN strips /\ strips \in Seq(Strips)
  BY DEF IsTree
<1>2. /\ \A d \in DOMAIN strips : OnceEach(strips[d].tabs) /\ strips[d].tabs \in Seq(Nat)
      /\ \A d, e \in DOMAIN strips :
           d # e => ToSet(strips[d].tabs) \cap ToSet(strips[e].tabs) = {}
  BY TreeParts
<1>3. p \notin ToSet(strips[c].tabs)
  BY DEF TilesOf
<1>4. OnceEach(more[c].tabs) /\ ToSet(more[c].tabs) = ToSet(strips[c].tabs) \cup {p}
  <2> DEFINE old == strips[c].tabs
             new == more[c].tabs
  <2>1. /\ old \in Seq(Nat) /\ new = Append(old, p) /\ OnceEach(old)
        /\ \A i \in DOMAIN old : old[i] # p
    BY <1>2, <1>3 DEF ToSet
  <2> HIDE DEF old, new
  <2>2. /\ DOMAIN new = 1..(Len(old) + 1) /\ DOMAIN old = 1..Len(old) /\ Len(old) \in Nat
        /\ new[Len(old) + 1] = p /\ \A i \in 1..Len(old) : new[i] = old[i]
    BY <2>1
  <2>3. OnceEach(new)
    BY <2>1, <2>2 DEF OnceEach
  <2>4. ToSet(new) = ToSet(old) \cup {p}
    <3>1. \A i \in DOMAIN new : new[i] = p \/ (i \in DOMAIN old /\ new[i] = old[i])
      BY <2>2
    <3>2. \A i \in DOMAIN old : i \in DOMAIN new /\ new[i] = old[i]
      BY <2>2
    <3>3. Len(old) + 1 \in DOMAIN new
      BY <2>2
    <3>4. QED BY <2>2, <3>1, <3>2, <3>3 DEF ToSet
  <2>5. QED BY <2>3, <2>4 DEF new, old
<1>5. ASSUME NEW d \in DOMAIN more, NEW e \in DOMAIN more, d # e
      PROVE  ToSet(more[d].tabs) \cap ToSet(more[e].tabs) = {}
  <2>2. ToSet(strips[d].tabs) \cap ToSet(strips[e].tabs) = {}
    BY <1>1, <1>2, <1>5
  <2>3. CASE d = c
    <3>1. more[e].tabs = strips[e].tabs
      BY <1>1, <1>5, <2>3
    <3>2. p \notin ToSet(strips[e].tabs)
      BY <1>1 DEF TilesOf
    <3>3. QED BY <1>4, <2>2, <2>3, <3>1, <3>2
  <2>4. CASE e = c
    <3>1. more[d].tabs = strips[d].tabs
      BY <1>1, <1>5, <2>4
    <3>2. p \notin ToSet(strips[d].tabs)
      BY <1>1 DEF TilesOf
    <3>3. QED BY <1>4, <2>2, <2>4, <3>1, <3>2
  <2>5. CASE d # c /\ e # c
    BY <1>1, <2>2, <2>5
  <2>6. QED BY <2>3, <2>4, <2>5
<1>6. NoTabTwice(more)
  BY <1>1, <1>2, <1>4, <1>5, TabsApart
<1>7. TilesOf(more) = TilesOf(strips) \cup {p}
  <2>1. ASSUME NEW d \in DOMAIN strips
        PROVE  /\ ToSet(strips[d].tabs) \subseteq ToSet(more[d].tabs)
               /\ ToSet(more[d].tabs) \subseteq ToSet(strips[d].tabs) \cup {p}
    BY <1>4
  <2>2. p \in ToSet(more[c].tabs)
    BY <1>4
  <2>3. QED BY <1>1, <2>1, <2>2 DEF TilesOf
<1>8. QED BY <1>6, <1>7 DEF IsTree

\* The strips of `more` are those of `strips`, moved, and `new`.
Slotted(more, at, old, strips, new) ==
  /\ more \in Seq(Strips) /\ at \in DOMAIN more /\ more[at] = new
  /\ \A d \in DOMAIN more : d # at => old[d] \in DOMAIN strips /\ more[d] = strips[old[d]]
  /\ \A d, e \in DOMAIN more : d # at /\ e # at /\ old[d] = old[e] => d = e
  /\ \A x \in DOMAIN strips : \E d \in DOMAIN more : d # at /\ old[d] = x

\* A new strip of a pane that is in none makes a tree of the rest.
LEMMA SlottedTree ==
  ASSUME NEW strips, IsTree(strips), NEW p \in Nat, p \notin TilesOf(strips),
         NEW new, new = [tabs |-> <<p>>, active |-> p],
         NEW more, NEW at, NEW old, Slotted(more, at, old, strips, new)
  PROVE  IsTree(more) /\ TilesOf(more) = TilesOf(strips) \cup {p}
<1>1. ToSet(new.tabs) = {p} /\ OnceEach(new.tabs)
  BY DEF ToSet, OnceEach
<1>2. /\ \A d \in DOMAIN strips : OnceEach(strips[d].tabs) /\ p \notin ToSet(strips[d].tabs)
      /\ \A d, e \in DOMAIN strips :
           d # e => ToSet(strips[d].tabs) \cap ToSet(strips[e].tabs) = {}
  BY TreeParts DEF TilesOf
<1>3. /\ more \in Seq(Strips) /\ at \in DOMAIN more /\ more[at] = new
      /\ \A d \in DOMAIN more : d # at => old[d] \in DOMAIN strips /\ more[d] = strips[old[d]]
      /\ \A d, e \in DOMAIN more : d # at /\ e # at /\ old[d] = old[e] => d = e
      /\ \A x \in DOMAIN strips : \E d \in DOMAIN more : d # at /\ old[d] = x
  BY DEF Slotted
<1>4. \A d \in DOMAIN more : OnceEach(more[d].tabs)
  BY <1>1, <1>2, <1>3
<1>5. ASSUME NEW d \in DOMAIN more, NEW e \in DOMAIN more, d # e
      PROVE  ToSet(more[d].tabs) \cap ToSet(more[e].tabs) = {}
  <2>1. CASE d = at
    BY <1>1, <1>2, <1>3, <1>5, <2>1
  <2>2. CASE e = at
    BY <1>1, <1>2, <1>3, <1>5, <2>2
  <2>3. CASE d # at /\ e # at
    <3>1. old[d] \in DOMAIN strips /\ old[e] \in DOMAIN strips /\ old[d] # old[e]
      BY <1>3, <1>5, <2>3
    <3>2. more[d] = strips[old[d]] /\ more[e] = strips[old[e]]
      BY <1>3, <2>3
    <3>3. QED BY <1>2, <3>1, <3>2
  <2>4. QED BY <2>1, <2>2, <2>3
<1>6. NoTabTwice(more)
  BY <1>4, <1>5, TabsApart
<1>7. TilesOf(more) = TilesOf(strips) \cup {p}
  <2>1. ASSUME NEW d \in DOMAIN more
        PROVE  ToSet(more[d].tabs) \subseteq TilesOf(strips) \cup {p}
    BY <1>1, <1>3 DEF TilesOf
  <2>2. ASSUME NEW x \in DOMAIN strips PROVE ToSet(strips[x].tabs) \subseteq TilesOf(more)
    BY <1>3 DEF TilesOf
  <2>3. p \in TilesOf(more)
    BY <1>1, <1>3 DEF TilesOf
  <2>4. TilesOf(more) \subseteq TilesOf(strips) \cup {p}
    BY <2>1 DEF TilesOf
  <2>5. TilesOf(strips) \subseteq TilesOf(more)
    BY <2>2 DEF TilesOf
  <2>6. QED BY <2>3, <2>4, <2>5
<1>8. QED BY <1>3, <1>6, <1>7 DEF IsTree

\* or to a strip of its own, before or behind the others.
LEMMA StripAdded ==
  ASSUME NEW strips, IsTree(strips), NEW p \in Nat, p \notin TilesOf(strips),
         NEW new, new = [tabs |-> <<p>>, active |-> p]
  PROVE  /\ IsTree(Append(strips, new)) /\ TilesOf(Append(strips, new)) = TilesOf(strips) \cup {p}
         /\ IsTree(<<new>> \o strips) /\ TilesOf(<<new>> \o strips) = TilesOf(strips) \cup {p}
<1>1. /\ strips \in Seq(Strips) /\ new \in Strips
      /\ DOMAIN strips = 1..Len(strips) /\ Len(strips) \in Nat
  BY DEF IsTree, Strips
<1>2. IsTree(Append(strips, new)) /\ TilesOf(Append(strips, new)) = TilesOf(strips) \cup {p}
  <2> DEFINE more == Append(strips, new)
             at == Len(strips) + 1
             old == [d \in 1..at |-> d]
  <2>1. /\ more \in Seq(Strips) /\ DOMAIN more = 1..at /\ more[at] = new
        /\ \A d \in 1..Len(strips) : more[d] = strips[d]
    BY <1>1
  <2> HIDE DEF more
  <2>2. at \in DOMAIN more
    BY <1>1, <2>1
  <2>3. \A d \in DOMAIN more : d # at => old[d] \in DOMAIN strips /\ more[d] = strips[old[d]]
    BY <1>1, <2>1
  <2>4. \A d, e \in DOMAIN more : d # at /\ e # at /\ old[d] = old[e] => d = e
    BY <2>1
  <2>5. \A x \in DOMAIN strips : \E d \in DOMAIN more : d # at /\ old[d] = x
    <3> SUFFICES ASSUME NEW x \in DOMAIN strips PROVE x \in DOMAIN more /\ x # at /\ old[x] = x
      OBVIOUS
    <3>1. QED BY <1>1, <2>1
  <2> HIDE DEF old, at
  <2>6. IsTree(more) /\ TilesOf(more) = TilesOf(strips) \cup {p}
    <3>1. Slotted(more, at, old, strips, new)
      BY <2>1, <2>2, <2>3, <2>4, <2>5 DEF Slotted
    <3>2. QED BY <3>1, SlottedTree
  <2>7. QED BY <2>6 DEF more
<1>3. IsTree(<<new>> \o strips) /\ TilesOf(<<new>> \o strips) = TilesOf(strips) \cup {p}
  <2> DEFINE more == <<new>> \o strips
             old == [d \in 1..(Len(strips) + 1) |-> d - 1]
  <2>0. <<new>> \in Seq(Strips) /\ Len(<<new>>) = 1
    BY <1>1
  <2>1. /\ more \in Seq(Strips) /\ DOMAIN more = 1..(Len(strips) + 1) /\ more[1] = new
        /\ \A d \in 2..(Len(strips) + 1) : more[d] = strips[d - 1]
    BY <1>1, <2>0
  <2> HIDE DEF more
  <2>2. 1 \in DOMAIN more
    BY <1>1, <2>1
  <2>3. \A d \in DOMAIN more : d # 1 => old[d] \in DOMAIN strips /\ more[d] = strips[old[d]]
    BY <1>1, <2>1
  <2>4. \A d, e \in DOMAIN more : d # 1 /\ e # 1 /\ old[d] = old[e] => d = e
    BY <1>1, <2>1
  <2>5. \A x \in DOMAIN strips : \E d \in DOMAIN more : d # 1 /\ old[d] = x
    <3> SUFFICES ASSUME NEW x \in DOMAIN strips
                 PROVE  x + 1 \in DOMAIN more /\ x + 1 # 1 /\ old[x + 1] = x
      OBVIOUS
    <3>1. QED BY <1>1, <2>1
  <2> HIDE DEF old
  <2>6. IsTree(more) /\ TilesOf(more) = TilesOf(strips) \cup {p}
    <3>1. Slotted(more, 1, old, strips, new)
      BY <2>1, <2>2, <2>3, <2>4, <2>5 DEF Slotted
    <3>2. QED BY <3>1, SlottedTree
  <2>7. QED BY <2>6 DEF more
<1>4. QED BY <1>2, <1>3

\* Which tab a strip shows says nothing of where its tabs are.
LEMMA ShownAnew ==
  ASSUME NEW strips, IsTree(strips), NEW shown \in Seq(Strips), Len(shown) = Len(strips),
         \A c \in DOMAIN strips : shown[c].tabs = strips[c].tabs
  PROVE  IsTree(shown) /\ TilesOf(shown) = TilesOf(strips)
<1>1. DOMAIN shown = DOMAIN strips
  BY DEF IsTree
<1>2. QED BY <1>1 DEF IsTree, TilesOf, NoTabTwice

-----------------------------------------------------------------------------
\* Windows, field by field

\* What a stage that moves no program may have done to the window
Tidies(w, v) ==
  /\ IsWindow(v)
  /\ v.panes \in [Open(w) -> Slots]
  /\ \A p \in Open(w) : /\ v.panes[p].dead = w.panes[p].dead
                        /\ v.panes[p].alt = w.panes[p].alt
                        /\ v.panes[p].exited = w.panes[p].exited
  /\ IsTree(v.strips) /\ TilesOf(v.strips) = TilesOf(w.strips)
  /\ \A c \in DOMAIN v.strips : v.strips[c].tabs # <<>>
  /\ v.nextId = w.nextId
  /\ v.confirm \in Nat /\ v.confirm < w.nextId
  /\ v.quitReq \in BOOLEAN
  /\ v.quit = w.quit /\ v.modal = w.modal
  /\ v.print = w.print /\ v.due = w.due /\ v.saved = w.saved
  /\ w.closes \subseteq v.closes
  /\ \A p \in Open(w) : p \in v.closes => p \in w.closes \/ w.panes[p].exited \/ ~w.panes[p].alt

\* Such a stage leads on.
LEMMA TidyLeads ==
  ASSUME NEW w, NEW v, Sound(w), Tidies(w, v)
  PROVE  Leads(w, v, {}) /\ (Doomed(w) => Doomed(v)) /\ Open(v) = Open(w)
<1>1. Open(v) = Open(w)
  BY DEF Tidies, Open
<1>2. v.panes \in [Open(v) -> Slots]
  BY <1>1 DEF Tidies
<1>3. \A p \in Open(v) : /\ p \in Nat /\ p < v.nextId
                         /\ v.panes[p].dead => ~v.panes[p].alt
  BY <1>1 DEF Tidies, Sound
<1>4. TilesOf(v.strips) \subseteq Open(v)
  BY <1>1 DEF Tidies, Sound
<1>5. Sound(v)
  BY <1>2, <1>3, <1>4 DEF Tidies, Sound
<1>6. ASSUME NEW p, Alive(w, p) PROVE Alive(v, p)
  BY <1>1, <1>6 DEF Alive, Tidies
<1>7. Doomed(w) => Doomed(v)
  BY <1>1 DEF Doomed, Tidies
<1>8. QED BY <1>1, <1>5, <1>6, <1>7 DEF Leads, Tidies

\* The close button of the window, or the menu's quit
LEMMA AskedTidies ==
  ASSUME NEW w, Sound(w), NEW osClose \in BOOLEAN
  PROVE  Tidies(w, Asked(w, osClose))
BY DEF Sound, IsWindow, Tidies, Asked, Open

\* Panes that have exited are to close, and no other.
LEMMA CloseExitedTidies ==
  ASSUME NEW w, Sound(w)
  PROVE  Tidies(w, CloseExited(w)) /\ Doomed(CloseExited(w))
BY DEF Sound, IsWindow, Tidies, CloseExited, Open, Doomed

\* Strips that name other tabs as active, and panes that want the keys or not
LEMMA ShownTidies ==
  ASSUME NEW w, Sound(w), NEW v, IsWindow(v),
         v.strips \in Seq(Strips), Len(v.strips) = Len(w.strips),
         \A c \in DOMAIN w.strips : v.strips[c].tabs = w.strips[c].tabs,
         v.panes \in [Open(w) -> Slots],
         \A p \in Open(w) : /\ v.panes[p].dead = w.panes[p].dead
                            /\ v.panes[p].alt = w.panes[p].alt
                            /\ v.panes[p].exited = w.panes[p].exited,
         v.nextId = w.nextId, v.confirm = w.confirm, v.quitReq = w.quitReq, v.quit = w.quit,
         v.modal = w.modal, v.print = w.print, v.due = w.due, v.saved = w.saved,
         v.closes = w.closes
  PROVE  Tidies(w, v)
<1>1. IsTree(v.strips) /\ TilesOf(v.strips) = TilesOf(w.strips)
  BY ShownAnew DEF Sound
<1>2. DOMAIN v.strips = DOMAIN w.strips
  BY DEF Sound, IsTree
<1>3. \A c \in DOMAIN v.strips : v.strips[c].tabs # <<>>
  BY <1>2 DEF Sound
<1>4. QED BY <1>1, <1>3 DEF Tidies, Sound

\* The panes are painted.
LEMMA RenderedTidies ==
  ASSUME NEW w, Sound(w), NEW modal
  PROVE  /\ Tidies(w, Rendered(w, modal))
         /\ Rendered(w, modal).strips = w.strips /\ Rendered(w, modal).confirm = w.confirm
<1> DEFINE v == Rendered(w, modal)
<1>1. PICK keys, shown, flagged : v = Painted(w, keys, shown, flagged)
  BY Zenon DEF Rendered
<1> HIDE DEF v
<1>2. \A p : Contains(shown, p) \in BOOLEAN
  BY DEF Contains
<1>3. \A p : (p \in flagged) \in BOOLEAN
  OBVIOUS
<1>4. /\ IsWindow(v) /\ v.strips = w.strips
      /\ v.panes = [p \in Open(w) |->
                         [w.panes[p] EXCEPT !.flag = p \in flagged,
                                            !.needs = w.panes[p].needs /\ ~Contains(shown, p)]]
      /\ v.nextId = w.nextId /\ v.confirm = w.confirm /\ v.quitReq = w.quitReq /\ v.quit = w.quit
      /\ v.modal = w.modal /\ v.print = w.print /\ v.due = w.due /\ v.saved = w.saved
      /\ v.closes = w.closes
  BY <1>1 DEF Sound, IsWindow, Painted
<1>5. ASSUME NEW p \in Open(w)
      PROVE  /\ v.panes[p] \in Slots
             /\ v.panes[p].dead = w.panes[p].dead
             /\ v.panes[p].alt = w.panes[p].alt
             /\ v.panes[p].exited = w.panes[p].exited
  <2>1. w.panes[p] \in Slots
    BY DEF Sound
  <2>2. v.panes[p] = [w.panes[p] EXCEPT !.flag = p \in flagged,
                                        !.needs = w.panes[p].needs /\ ~Contains(shown, p)]
    BY <1>4
  <2>3. QED BY <1>2, <1>3, <2>1, <2>2 DEF Slots
<1>6. v.panes \in [Open(w) -> Slots]
  BY <1>4, <1>5
<1>7. QED BY <1>4, <1>5, <1>6, ShownTidies DEF Sound, IsTree, v

\* A tab is chosen.
LEMMA TabClickedTidies ==
  ASSUME NEW w, Sound(w), NEW p
  PROVE  Tidies(w, TabClicked(w, p))
<1> DEFINE v == TabClicked(w, p)
           strips == Showing(w.strips, p)
           panes == [w.panes EXCEPT ![p].needs = TRUE]
<1>0. IsWindow(w) /\ v = [w EXCEPT !.strips = strips, !.panes = panes]
  BY DEF Sound, IsWindow, TabClicked
<1> HIDE DEF strips, panes, v
<1>1. /\ IsWindow(v) /\ v.strips = strips /\ v.panes = panes
      /\ v.nextId = w.nextId /\ v.confirm = w.confirm /\ v.quitReq = w.quitReq /\ v.quit = w.quit
      /\ v.modal = w.modal /\ v.print = w.print /\ v.due = w.due /\ v.saved = w.saved
      /\ v.closes = w.closes
  BY <1>0 DEF IsWindow
<1> USE DEF strips, panes
<1>2. ASSUME NEW c \in DOMAIN w.strips PROVE strips[c] \in Strips /\ strips[c].tabs = w.strips[c].tabs
  <2>1. w.strips[c] \in Strips /\ w.strips[c].tabs \in Seq(Nat)
    BY TreeParts DEF Sound
  <2>2. Contains(w.strips[c].tabs, p) => p \in Nat
    BY <2>1 DEF Contains
  <2>3. strips[c] = IF Contains(w.strips[c].tabs, p) THEN [w.strips[c] EXCEPT !.active = p]
                    ELSE w.strips[c]
    BY DEF Showing
  <2>4. QED BY <2>1, <2>2, <2>3 DEF Strips
<1>3. strips \in Seq(Strips) /\ Len(strips) = Len(w.strips)
  <2>1. Len(w.strips) \in Nat /\ DOMAIN w.strips = 1..Len(w.strips)
    BY TreeParts DEF Sound
  <2> HIDE DEF strips
  <2>2. strips \in [1..Len(w.strips) -> Strips]
    BY <1>2, <2>1 DEF strips, Showing
  <2>3. QED BY <2>1, <2>2
<1>4. /\ panes \in [Open(w) -> Slots]
      /\ \A q \in Open(w) : /\ panes[q].dead = w.panes[q].dead
                            /\ panes[q].alt = w.panes[q].alt
                            /\ panes[q].exited = w.panes[q].exited
  BY DEF Sound, Slots
<1> HIDE DEF strips, panes
<1>5. QED BY <1>1, <1>2, <1>3, <1>4, ShownTidies DEF v

\* The X of a tab: a program that runs is asked about first.
LEMMA CloseClickedTidies ==
  ASSUME NEW w, Sound(w), NEW p \in Open(w)
  PROVE  Tidies(w, CloseClicked(w, p))
BY DEF Sound, IsWindow, Tidies, CloseClicked, Open, Runs, Tiles

\* Closing the tab by its key
LEMMA CloseTabTidies ==
  ASSUME NEW w, Sound(w), NEW p \in Open(w), NEW spawn
  PROVE  Tidies(w, Acted(w, p, "CloseTab", spawn)) /\ Tidies(w, Acted(w, p, "Quit", spawn))
BY DEF Sound, IsWindow, Tidies, Acted, Open, Runs

\* The next tab, or the one before
LEMMA CycledTidies ==
  ASSUME NEW w, Sound(w), NEW p, NEW delta
  PROVE  Tidies(w, Cycled(w, p, delta))
<1>1. Tidies(w, w)
  BY DEF Tidies, Sound, Open
<1>2. \E q : Cycled(w, p, delta) = TabClicked(w, q) \/ Cycled(w, p, delta) = w
  BY DEF Cycled
<1>3. QED BY <1>1, <1>2, TabClickedTidies

\* A strip that has p, for each p that is in the tree
LEMMA StripIsThere ==
  ASSUME NEW w, Sound(w), NEW p \in TilesOf(w.strips)
  PROVE  /\ StripOf(w, p) \in DOMAIN w.strips
         /\ p \in ToSet(w.strips[StripOf(w, p)].tabs)
         /\ \A c \in DOMAIN w.strips : c # StripOf(w, p) => p \notin ToSet(w.strips[c].tabs)
<1>1. \A c \in DOMAIN w.strips : Contains(w.strips[c].tabs, p) <=> p \in ToSet(w.strips[c].tabs)
  <2> SUFFICES ASSUME NEW c \in DOMAIN w.strips
               PROVE  Contains(w.strips[c].tabs, p) <=> p \in ToSet(w.strips[c].tabs)
    OBVIOUS
  <2>1. DOMAIN w.strips[c].tabs = 1..Len(w.strips[c].tabs)
    BY TreeParts DEF Sound
  <2>2. QED BY <2>1 DEF Contains, ToSet
<1>2. \E c \in DOMAIN w.strips : Contains(w.strips[c].tabs, p)
  BY <1>1 DEF TilesOf
<1>3. /\ StripOf(w, p) \in DOMAIN w.strips
      /\ Contains(w.strips[StripOf(w, p)].tabs, p)
  BY <1>2 DEF StripOf
<1>4. \A c, d \in DOMAIN w.strips :
        c # d => ToSet(w.strips[c].tabs) \cap ToSet(w.strips[d].tabs) = {}
  BY TreeParts DEF Sound
<1>5. QED BY <1>1, <1>3, <1>4

\* A strip with other tabs, and another one in sight
LEMMA StripChanged ==
  ASSUME NEW s \in Strips, NEW t \in Seq(Nat), NEW p \in Nat
  PROVE  /\ [s EXCEPT !.tabs = t] \in Strips /\ [s EXCEPT !.tabs = t].tabs = t
         /\ [s EXCEPT !.tabs = t, !.active = p] = [tabs |-> t, active |-> p]
         /\ [s EXCEPT !.active = p] \in Strips /\ [s EXCEPT !.active = p].tabs = s.tabs
<1> DEFINE a == [s EXCEPT !.tabs = t]
<1>1. s = [tabs |-> s.tabs, active |-> s.active] /\ s.tabs \in Seq(Nat) /\ s.active \in Nat
  BY DEF Strips
<1>2. a = [tabs |-> t, active |-> s.active]
  BY <1>1
<1> HIDE DEF a
<1>3. [a EXCEPT !.active = p] = [tabs |-> t, active |-> p]
  BY <1>2
<1>4. [s EXCEPT !.active = p] = [tabs |-> s.tabs, active |-> p]
  BY <1>1
<1>5. QED BY <1>1, <1>2, <1>3, <1>4 DEF Strips, a

\* Joining a strip loses no tab.
LEMMA TreeJoined ==
  ASSUME NEW left, IsTree(left), NEW to \in DOMAIN left, NEW p \in Nat, p \notin TilesOf(left)
  PROVE  /\ IsTree(Joined(left, to, p)) /\ TilesOf(Joined(left, to, p)) = TilesOf(left) \cup {p}
         /\ DOMAIN Joined(left, to, p) = DOMAIN left /\ Joined(left, to, p)[to].tabs # <<>>
         /\ \A c \in DOMAIN left : c # to => Joined(left, to, p)[c] = left[c]
<1> DEFINE joined == Joined(left, to, p)
<1>1. /\ left \in Seq(Strips) /\ Len(left) \in Nat /\ DOMAIN left = 1..Len(left)
      /\ \A c \in DOMAIN left : left[c] \in Strips /\ left[c].tabs \in Seq(Nat)
  BY TreeParts
<1>2. Append(left[to].tabs, p) \in Seq(Nat) /\ left[to] \in Strips
  BY <1>1
<1>3. joined[to] = [tabs |-> Append(left[to].tabs, p), active |-> p]
  <2> DEFINE a == [left[to] EXCEPT !.tabs = Append(left[to].tabs, p)]
  <2>1. a \in Strips /\ a.tabs = Append(left[to].tabs, p)
    BY <1>2, StripChanged
  <2>2. joined[to] = [a EXCEPT !.active = p]
    BY <1>1 DEF Joined
  <2> HIDE DEF a, joined
  <2>3. QED BY <2>1, <2>2 DEF Strips
<1>4. /\ DOMAIN joined = DOMAIN left /\ \A c \in DOMAIN left : c # to => joined[c] = left[c]
      /\ joined = [c \in DOMAIN left |-> joined[c]]
  BY DEF Joined
<1> HIDE DEF joined
<1>5. joined[to] \in Strips /\ joined[to].tabs = Append(left[to].tabs, p) /\ joined[to].tabs # <<>>
  <2>1. joined[to].tabs = Append(left[to].tabs, p)
    BY <1>3
  <2>2. Append(left[to].tabs, p) # <<>>
    BY <1>1
  <2>3. QED BY <1>2, <1>3, <2>1, <2>2 DEF Strips
<1>6. joined \in [1..Len(left) -> Strips]
  BY <1>1, <1>4, <1>5
<1>7. joined \in Seq(Strips) /\ Len(joined) = Len(left)
  BY <1>1, <1>4, <1>6
<1>8. IsTree(joined) /\ TilesOf(joined) = TilesOf(left) \cup {p}
  <2>1. \A d \in DOMAIN left : d # to => joined[d].tabs = left[d].tabs
    BY <1>4
  <2>2. joined \in Seq(Strips) /\ Len(joined) = Len(left) /\ joined[to].tabs = Append(left[to].tabs, p)
    BY <1>5, <1>7
  <2>3. QED BY <2>1, <2>2, TabAdded
<1>9. QED BY <1>4, <1>5, <1>8 DEF joined

\* A drag moves a tab and loses none.
LEMMA DraggedTidies ==
  ASSUME NEW w, Sound(w), NEW p \in TilesOf(w.strips), NEW to
  PROVE  Tidies(w, Dragged(w, p, to))
<1> DEFINE from == StripOf(w, p)
           left == [w.strips EXCEPT ![from].tabs = Less(@, {p})]
           new == [tabs |-> <<p>>, active |-> p]
           there == CASE to = 0                  -> <<new>> \o left
                      [] to \in DOMAIN w.strips  -> Joined(left, to, p)
                      [] OTHER                   -> Append(left, new)
           v == Dragged(w, p, to)
<1>1. /\ w.strips \in Seq(Strips) /\ Len(w.strips) \in Nat /\ DOMAIN w.strips = 1..Len(w.strips)
      /\ \A c \in DOMAIN w.strips : w.strips[c] \in Strips /\ w.strips[c].tabs \in Seq(Nat)
  BY TreeParts DEF Sound
<1>2. /\ from \in DOMAIN w.strips
      /\ \A c \in DOMAIN w.strips : c # from => p \notin ToSet(w.strips[c].tabs)
  BY StripIsThere
<1>3. p \in Nat
  BY DEF Sound
<1> HIDE DEF from, new, there, v
<1>4. /\ left \in Seq(Strips) /\ Len(left) = Len(w.strips) /\ DOMAIN left = DOMAIN w.strips
      /\ left[from].tabs = Less(w.strips[from].tabs, {p})
      /\ \A c \in DOMAIN w.strips : c # from => left[c] = w.strips[c]
  <2>1. Less(w.strips[from].tabs, {p}) \in Seq(Nat)
    BY <1>1, <1>2, LessTabs
  <2>2. \A c \in DOMAIN w.strips :
          left[c] = IF c = from THEN [w.strips[c] EXCEPT !.tabs = Less(w.strips[c].tabs, {p})]
                    ELSE w.strips[c]
    BY <1>2
  <2>3. /\ [w.strips[from] EXCEPT !.tabs = Less(w.strips[from].tabs, {p})] \in Strips
        /\ [w.strips[from] EXCEPT !.tabs = Less(w.strips[from].tabs, {p})].tabs =
             Less(w.strips[from].tabs, {p})
    BY <1>1, <1>2, <1>3, <2>1, StripChanged
  <2>4. \A c \in DOMAIN w.strips : left[c] \in Strips
    BY <1>1, <2>2, <2>3
  <2>5. DOMAIN left = DOMAIN w.strips
    OBVIOUS
  <2>6. left[from].tabs = Less(w.strips[from].tabs, {p})
    BY <1>2, <2>2, <2>3
  <2>7. \A c \in DOMAIN w.strips : c # from => left[c] = w.strips[c]
    BY <2>2
  <2>8. left = [c \in DOMAIN w.strips |-> left[c]]
    OBVIOUS
  <2> HIDE DEF left
  <2>9. left \in [1..Len(w.strips) -> Strips]
    BY <1>1, <2>4, <2>8
  <2>10. left \in Seq(Strips) /\ Len(left) = Len(w.strips)
    BY <1>1, <2>9
  <2>11. QED BY <2>5, <2>6, <2>7, <2>10
<1> HIDE DEF left
<1>5. IsTree(left) /\ TilesOf(left) = TilesOf(w.strips) \ {p}
  <2>1. \A c \in DOMAIN w.strips : \/ left[c].tabs = Less(w.strips[c].tabs, {p})
                                   \/ /\ left[c].tabs = w.strips[c].tabs
                                      /\ ToSet(w.strips[c].tabs) \cap {p} = {}
    BY <1>2, <1>4
  <2>2. IsTree(w.strips) /\ left \in Seq(Strips) /\ Len(left) = Len(w.strips)
    BY <1>4 DEF Sound
  <2> DEFINE gone == {p}
  <2>3. \A c \in DOMAIN w.strips : \/ left[c].tabs = Less(w.strips[c].tabs, gone)
                                   \/ /\ left[c].tabs = w.strips[c].tabs
                                      /\ ToSet(w.strips[c].tabs) \cap gone = {}
    BY <2>1
  <2> HIDE DEF gone
  <2>4. IsTree(left) /\ TilesOf(left) = TilesOf(w.strips) \ gone
    BY <2>2, <2>3, ThinTree
  <2>5. QED BY <2>4 DEF gone
<1>6. IsTree(there) /\ TilesOf(there) = TilesOf(w.strips)
  <2>1. p \notin TilesOf(left) /\ (TilesOf(w.strips) \ {p}) \cup {p} = TilesOf(w.strips)
    BY <1>5
  <2>2. CASE to = 0
    <3>1. there = <<new>> \o left
      BY <1>1, <2>2 DEF there
    <3>2. IsTree(<<new>> \o left) /\ TilesOf(<<new>> \o left) = TilesOf(left) \cup {p}
      BY <1>3, <1>5, <2>1, StripAdded DEF new
    <3>3. QED BY <1>5, <2>1, <3>1, <3>2
  <2>3. CASE to # 0 /\ to \in DOMAIN w.strips
    <3>1. there = Joined(left, to, p)
      BY <2>3 DEF there
    <3>2. IsTree(Joined(left, to, p)) /\ TilesOf(Joined(left, to, p)) = TilesOf(left) \cup {p}
      BY <1>3, <1>4, <1>5, <2>1, <2>3, TreeJoined
    <3>3. QED BY <1>5, <2>1, <3>1, <3>2
  <2>4. CASE to # 0 /\ to \notin DOMAIN w.strips
    <3>1. there = Append(left, new)
      BY <2>4 DEF there
    <3>2. IsTree(Append(left, new)) /\ TilesOf(Append(left, new)) = TilesOf(left) \cup {p}
      BY <1>3, <1>5, <2>1, StripAdded DEF new
    <3>3. QED BY <1>5, <2>1, <3>1, <3>2
  <2>5. QED BY <2>2, <2>3, <2>4
<1>7. v = [w EXCEPT !.strips = Tabbed(there)]
  BY DEF Dragged, left, from, v, there, new
<1>8. /\ IsTree(Tabbed(there)) /\ TilesOf(Tabbed(there)) = TilesOf(w.strips)
      /\ \A c \in DOMAIN Tabbed(there) : Tabbed(there)[c].tabs # <<>>
  BY <1>6, TabbedTree
<1>9. Tidies(w, v)
  BY <1>7, <1>8 DEF Sound, IsWindow, Tidies, Open
<1>10. QED BY <1>9 DEF v

-----------------------------------------------------------------------------
\* The stages that do more than tidy

\* A new pane takes an id that no pane has had, and the others stay as they are.
LEMMA AdoptedLeads ==
  ASSUME NEW w, Sound(w), NEW c \in DOMAIN w.strips, NEW mapped \in BOOLEAN
  PROVE  /\ Leads(w, Adopted(w, c, mapped), {}) /\ (Doomed(w) => Doomed(Adopted(w, c, mapped)))
         /\ TilesOf(w.strips) \subseteq TilesOf(Adopted(w, c, mapped).strips)
<1> DEFINE id == w.nextId
           v == Adopted(w, c, mapped)
           panes == [p \in Open(w) \cup {id} |->
                       IF p = id THEN Slot(mapped, FALSE) ELSE w.panes[p]]
           strips == Joined(w.strips, c, id)
<1>1. /\ IsWindow(v) /\ v.panes = panes /\ v.strips = strips /\ v.nextId = id + 1
      /\ v.confirm = w.confirm /\ v.quitReq = w.quitReq /\ v.quit = w.quit /\ v.closes = w.closes
      /\ v.modal = w.modal /\ v.print = w.print /\ v.due = w.due /\ v.saved = w.saved
  <2>1. IsWindow(w) /\ v = [w EXCEPT !.nextId = id + 1, !.panes = panes, !.strips = strips]
    BY DEF Sound, Adopted
  <2> HIDE DEF v, panes, strips, id
  <2>2. QED BY <2>1 DEF IsWindow
<1>2. /\ id \in Nat \ {0} /\ id \notin Open(w) /\ \A p \in Open(w) : p \in Nat /\ p < id
      /\ IsTree(w.strips) /\ TilesOf(w.strips) \subseteq Open(w)
      /\ \A d \in DOMAIN w.strips : w.strips[d].tabs # <<>>
  BY DEF Sound
<1>3. /\ IsTree(strips) /\ TilesOf(strips) = TilesOf(w.strips) \cup {id}
      /\ \A d \in DOMAIN strips : strips[d].tabs # <<>>
  BY <1>2, TreeJoined
<1>4. Slot(mapped, FALSE) \in Slots /\ ~Slot(mapped, FALSE).alt /\ ~Slot(mapped, FALSE).exited
  BY DEF Slot, Slots
<1>5. /\ panes \in [Open(w) \cup {id} -> Slots] /\ DOMAIN panes = Open(w) \cup {id}
      /\ panes[id] = Slot(mapped, FALSE)
      /\ \A p \in Open(w) : panes[p] = w.panes[p]
  BY <1>2, <1>4 DEF Sound
<1> HIDE DEF panes, strips, v
<1>6. Open(v) = Open(w) \cup {id}
  BY <1>1, <1>5 DEF Open
<1> HIDE DEF id
<1>7. Sound(v)
  <2>1. v.panes \in [Open(v) -> Slots]
    BY <1>1, <1>5, <1>6
  <2>2. \A p \in Open(v) : p \in Nat /\ p < v.nextId
    BY <1>1, <1>2, <1>6
  <2>3. \A p \in Open(v) : v.panes[p].dead => ~v.panes[p].alt
    BY <1>1, <1>4, <1>5, <1>6 DEF Sound
  <2>4. TilesOf(v.strips) \subseteq Open(v)
    BY <1>1, <1>2, <1>3, <1>6
  <2>5. v.confirm \in Nat /\ v.confirm < v.nextId /\ v.nextId \in Nat \ {0}
    BY <1>1, <1>2 DEF Sound, id
  <2>6. /\ v.quitReq \in BOOLEAN /\ v.quit \in BOOLEAN /\ v.modal \in Nat /\ v.due \in BOOLEAN
    BY <1>1 DEF Sound
  <2>7. QED BY <1>1, <1>3, <2>1, <2>2, <2>3, <2>4, <2>5, <2>6 DEF Sound
<1>8. ASSUME NEW p, Alive(w, p) PROVE Alive(v, p)
  BY <1>1, <1>3, <1>5, <1>6, <1>8 DEF Alive
<1>9. Doomed(w) => Doomed(v)
  BY <1>1, <1>2, <1>3, <1>4, <1>5, <1>6 DEF Doomed
<1>10. QED BY <1>1, <1>3, <1>7, <1>8, <1>9 DEF Leads, v

\* A shell that does not start leaves the window as it is.
LEMMA NewPaneLeads ==
  ASSUME NEW w, Sound(w), NEW c \in DOMAIN w.strips, NEW spawn
  PROVE  /\ Leads(w, NewPane(w, c, spawn), {}) /\ (Doomed(w) => Doomed(NewPane(w, c, spawn)))
         /\ TilesOf(w.strips) \subseteq TilesOf(NewPane(w, c, spawn).strips)
<1> DEFINE v == NewPane(w, c, spawn)
           mapped == spawn = "row"
<1>1. CASE spawn = "fails"
  <2> DEFINE id == w.nextId + 1
  <2>1. IsWindow(w) /\ v = [w EXCEPT !.nextId = id]
    BY <1>1 DEF NewPane, Sound
  <2>2. id \in Nat \ {0} /\ \A n \in Nat : n < w.nextId => n < id
    BY DEF Sound
  <2> HIDE DEF v, id
  <2>3. /\ IsWindow(v) /\ v.panes = w.panes /\ v.strips = w.strips /\ v.nextId = id
        /\ v.confirm = w.confirm /\ v.quitReq = w.quitReq /\ v.quit = w.quit
        /\ v.closes = w.closes /\ v.modal = w.modal /\ v.print = w.print /\ v.due = w.due
        /\ v.saved = w.saved
    BY <2>1 DEF IsWindow
  <2>4. Open(v) = Open(w)
    BY <2>3 DEF Open
  <2>5. Sound(v)
    BY <2>2, <2>3, <2>4 DEF Sound
  <2>6. (\A p : Alive(w, p) => Alive(v, p)) /\ (Doomed(w) => Doomed(v))
    BY <2>3, <2>4 DEF Alive, Doomed
  <2>7. Leads(w, v, {}) /\ TilesOf(v.strips) = TilesOf(w.strips)
    BY <2>3, <2>5, <2>6 DEF Leads
  <2>8. QED BY <2>6, <2>7 DEF v
<1>2. CASE spawn # "fails"
  <2>1. v = Adopted(w, c, mapped) /\ mapped \in BOOLEAN
    BY <1>2 DEF NewPane
  <2> HIDE DEF mapped
  <2>2. QED BY <2>1, AdoptedLeads
<1>3. QED BY <1>1, <1>2

\* Of a pane's slot alone something changes.
OnlySlot(w, v, p) ==
  /\ IsWindow(v) /\ v.panes \in [Open(w) -> Slots]
  /\ \A q \in Open(w) : q # p => v.panes[q] = w.panes[q]
  /\ v.panes[p].dead => ~v.panes[p].alt
  /\ v.strips = w.strips /\ v.nextId = w.nextId /\ v.closes = w.closes
  /\ v.confirm = w.confirm /\ v.quitReq = w.quitReq /\ v.quit = w.quit
  /\ v.modal = w.modal /\ v.print = w.print /\ v.due = w.due /\ v.saved = w.saved

\* The rest of the window goes on as it was.
LEMMA SlotLeads ==
  ASSUME NEW w, Sound(w), NEW p \in Open(w), NEW v, OnlySlot(w, v, p)
  PROVE  Leads(w, v, {p}) /\ Open(v) = Open(w)
<1>1. Open(v) = Open(w)
  BY DEF OnlySlot, Open
<1>2. Sound(v)
  <2>1. \A q \in Open(v) : v.panes[q].dead => ~v.panes[q].alt
    BY <1>1 DEF Sound, OnlySlot
  <2>2. QED BY <1>1, <2>1 DEF Sound, OnlySlot
<1>3. ASSUME NEW q, q # p, Alive(w, q) PROVE Alive(v, q)
  BY <1>1, <1>3 DEF Alive, OnlySlot
<1>4. QED BY <1>1, <1>2, <1>3 DEF Leads, OnlySlot

\* Replacing a slot changes it alone.
LEMMA SlotReplaced ==
  ASSUME NEW w, Sound(w), NEW p \in Open(w), NEW slot \in Slots, slot.dead => ~slot.alt
  PROVE  /\ OnlySlot(w, [w EXCEPT !.panes = [w.panes EXCEPT ![p] = slot]], p)
         /\ [w EXCEPT !.panes = [w.panes EXCEPT ![p] = slot]].panes[p] = slot
<1> DEFINE panes == [w.panes EXCEPT ![p] = slot]
           v == [w EXCEPT !.panes = panes]
<1>1. /\ panes \in [Open(w) -> Slots] /\ panes[p] = slot
      /\ \A q \in Open(w) : q # p => panes[q] = w.panes[q]
  BY DEF Sound, Open
<1>2. IsWindow(w)
  BY DEF Sound
<1> HIDE DEF panes
<1>3. /\ IsWindow(v) /\ v.panes = panes /\ v.strips = w.strips /\ v.nextId = w.nextId
      /\ v.confirm = w.confirm /\ v.quitReq = w.quitReq /\ v.quit = w.quit /\ v.closes = w.closes
      /\ v.modal = w.modal /\ v.print = w.print /\ v.due = w.due /\ v.saved = w.saved
  BY <1>2 DEF IsWindow
<1> HIDE DEF v
<1>4. OnlySlot(w, v, p) /\ v.panes[p] = slot
  BY <1>1, <1>3 DEF OnlySlot
<1>5. QED BY <1>4 DEF v, panes

\* A shell is started in a dead pane.
LEMMA RestartedLeads ==
  ASSUME NEW w, Sound(w), NEW p \in Open(w), NEW spawn
  PROVE  /\ Leads(w, Acted(w, p, "Restart", spawn), {})
         /\ Doomed(w) => Doomed(Acted(w, p, "Restart", spawn))
<1> DEFINE mapped == spawn = "row"
           slot == [Slot(mapped, FALSE) EXCEPT !.needs = TRUE]
           v == Acted(w, p, "Restart", spawn)
<1>1. CASE ~w.panes[p].dead \/ spawn = "fails"
  <2>1. v = w
    BY <1>1 DEF Acted
  <2>2. QED BY <2>1 DEF Leads
<1>2. CASE w.panes[p].dead /\ spawn # "fails"
  <2>1. v = [w EXCEPT !.panes = [w.panes EXCEPT ![p] = slot]]
    BY <1>2 DEF Acted
  <2>2. slot \in Slots /\ ~slot.dead /\ ~slot.exited
    <3>1. mapped \in BOOLEAN
      OBVIOUS
    <3> HIDE DEF mapped
    <3>2. QED BY <3>1 DEF Slot, Slots
  <2> HIDE DEF slot, v
  <2>3. OnlySlot(w, v, p) /\ v.panes[p] = slot
    BY <2>1, <2>2, SlotReplaced
  <2>4. Leads(w, v, {p}) /\ Open(v) = Open(w)
    BY <2>3, SlotLeads
  <2>5. ~Alive(w, p)
    BY <1>2 DEF Alive, Sound
  <2>6. Leads(w, v, {})
    BY <2>4, <2>5 DEF Leads
  <2>7. Doomed(w) => Doomed(v)
    BY <2>2, <2>3, <2>4 DEF Doomed, OnlySlot
  <2>8. QED BY <2>6, <2>7 DEF v
<1>3. QED BY <1>1, <1>2

\* A shell exits, or a program takes the alternate screen or gives it back.
LEMMA DrainedLeads ==
  ASSUME NEW w, Sound(w), NEW p, NEW what,
         what \in {"exit", "alt"} => p \in Open(w) /\ ~w.panes[p].dead
  PROVE  /\ Leads(w, Drained(w, p, what), {p}) /\ Drained(w, p, what).closes = w.closes
         /\ Drained(w, p, what).strips = w.strips /\ Drained(w, p, what).confirm = w.confirm
         /\ Open(Drained(w, p, what)) = Open(w)
<1> DEFINE v == Drained(w, p, what)
<1>1. CASE what = "exit"
  <2> DEFINE slot == [w.panes[p] EXCEPT !.exited = TRUE]
  <2>1. v = [w EXCEPT !.panes = [w.panes EXCEPT ![p] = slot]]
    BY <1>1 DEF Drained
  <2>2. slot \in Slots /\ (slot.dead => ~slot.alt)
    BY <1>1 DEF Slots, Sound
  <2> HIDE DEF slot, v
  <2>3. OnlySlot(w, v, p)
    BY <1>1, <2>1, <2>2, SlotReplaced
  <2>4. QED BY <1>1, <2>3, SlotLeads DEF v, OnlySlot
<1>2. CASE what = "alt"
  <2> DEFINE slot == [w.panes[p] EXCEPT !.alt = ~w.panes[p].alt]
  <2>1. v = [w EXCEPT !.panes = [w.panes EXCEPT ![p] = slot]]
    BY <1>2 DEF Drained
  <2>2. w.panes[p] \in Slots /\ w.panes[p].alt \in BOOLEAN /\ ~w.panes[p].dead
    BY <1>2 DEF Sound, Slots
  <2>3. slot \in Slots /\ (slot.dead => ~slot.alt)
    BY <2>2 DEF Slots
  <2> HIDE DEF slot, v
  <2>4. OnlySlot(w, v, p)
    BY <1>2, <2>1, <2>3, SlotReplaced
  <2>5. QED BY <1>2, <2>4, SlotLeads DEF v, OnlySlot
<1>3. CASE what \notin {"exit", "alt"}
  <2>1. v = w
    BY <1>3 DEF Drained
  <2>2. QED BY <2>1 DEF Leads
<1>4. QED BY <1>1, <1>2, <1>3

\* Only the pane that was asked about may close for an answer.
LEMMA AnsweredLeads ==
  ASSUME NEW w, Sound(w), NEW answer
  PROVE  /\ Leads(w, CloseAnswered(w, answer), IF answer = "yes" THEN {w.confirm} ELSE {})
         /\ Doomed(w) => Doomed(CloseAnswered(w, answer))
<1> DEFINE v == CloseAnswered(w, answer)
<1>1. /\ IsWindow(v) /\ v.panes = w.panes /\ v.strips = w.strips /\ v.nextId = w.nextId
      /\ v.quitReq = w.quitReq /\ v.quit = w.quit
      /\ v.modal = w.modal /\ v.print = w.print /\ v.due = w.due /\ v.saved = w.saved
      /\ v.confirm \in {0, w.confirm} /\ w.closes \subseteq v.closes
      /\ answer = "yes" => v.closes \subseteq w.closes \cup {w.confirm}
      /\ answer # "yes" => v.closes = w.closes
  BY DEF Sound, IsWindow, CloseAnswered
<1> HIDE DEF v
<1>2. Open(v) = Open(w)
  BY <1>1 DEF Open
<1>3. Sound(v)
  BY <1>1, <1>2 DEF Sound
<1>4. ASSUME NEW p, p \notin (IF answer = "yes" THEN {w.confirm} ELSE {}), Alive(w, p) PROVE Alive(v, p)
  BY <1>1, <1>2, <1>4 DEF Alive
<1>5. Doomed(w) => Doomed(v)
  BY <1>1, <1>2 DEF Doomed
<1>6. QED BY <1>1, <1>3, <1>4, <1>5 DEF Leads, v

-----------------------------------------------------------------------------
\* Quitting, closing and collecting

\* Without a countdown that ends now and without a yes, a quit waits for a
\* program that runs.
LEMMA QuitWaits ==
  ASSUME QuitFrames \in Nat \ {0}, NEW w, Sound(w), w.quit = FALSE, NEW answer
  PROVE  LET v == QuitAnswered(QuitDecided(w), answer)
         IN  /\ IsWindow(v) /\ v.panes = w.panes /\ v.strips = w.strips /\ v.nextId = w.nextId
             /\ v.confirm = w.confirm /\ v.closes = w.closes
             /\ v.print = w.print /\ v.due = w.due /\ v.saved = w.saved
             /\ v.quitReq \in BOOLEAN /\ v.quit \in BOOLEAN /\ v.modal \in Nat
             /\ \A p : Alive(w, p) /\ v.quit => answer = "quit" \/ w.modal = 1
<1> DEFINE u == QuitDecided(w)
           v == QuitAnswered(u, answer)
<1>1. /\ IsWindow(u) /\ u.panes = w.panes /\ u.strips = w.strips /\ u.nextId = w.nextId
      /\ u.confirm = w.confirm /\ u.closes = w.closes
      /\ u.print = w.print /\ u.due = w.due /\ u.saved = w.saved
      /\ u.quitReq \in BOOLEAN /\ u.quit \in BOOLEAN /\ u.modal \in Nat
      /\ u.modal = 1 => w.modal = 1
      /\ u.quit => \A p \in Open(w) : ~w.panes[p].alt
  <2>1. IsWindow(w) /\ w.modal \in Nat /\ w.quitReq \in BOOLEAN
    BY DEF Sound
  <2> DEFINE running == \E p \in Open(w) : Runs(w, p)
             modal == IF w.modal = 0 THEN QuitFrames + 1 ELSE w.modal
  <2>2. modal \in Nat /\ (modal = 1 => w.modal = 1)
    BY <2>1
  <2>3. ~running => \A p \in Open(w) : ~w.panes[p].alt
    BY DEF Runs
  <2> HIDE DEF running, modal
  <2>4. CASE ~w.quitReq
    <3>1. u = w
      BY <2>4 DEF QuitDecided
    <3>2. QED BY <2>1, <3>1
  <2>5. CASE w.quitReq /\ ~running
    <3>1. u = [w EXCEPT !.quitReq = FALSE, !.quit = TRUE]
      BY <2>5 DEF QuitDecided, running
    <3> HIDE DEF u
    <3>2. QED BY <2>1, <2>3, <2>5, <3>1 DEF IsWindow
  <2>6. CASE w.quitReq /\ running
    <3>1. u = [w EXCEPT !.quitReq = FALSE, !.modal = modal]
      BY <2>6 DEF QuitDecided, running, modal
    <3> HIDE DEF u
    <3>2. QED BY <2>1, <2>2, <3>1 DEF IsWindow
  <2>7. QED BY <2>1, <2>4, <2>5, <2>6
<1> HIDE DEF u
<1>2. /\ IsWindow(v) /\ v.panes = u.panes /\ v.strips = u.strips /\ v.nextId = u.nextId
      /\ v.confirm = u.confirm /\ v.closes = u.closes
      /\ v.print = u.print /\ v.due = u.due /\ v.saved = u.saved
      /\ v.quitReq \in BOOLEAN /\ v.quit \in BOOLEAN /\ v.modal \in Nat
      /\ v.quit => u.quit \/ u.modal = 1 \/ answer = "quit"
  <2>1. CASE u.modal = 0
    <3>1. v = u
      BY <2>1 DEF QuitAnswered
    <3>2. QED BY <1>1, <3>1
  <2>2. CASE u.modal = 1 \/ (u.modal # 0 /\ answer = "quit")
    <3>1. v = [u EXCEPT !.modal = 0, !.quit = TRUE]
      BY <2>2 DEF QuitAnswered
    <3> HIDE DEF v
    <3>2. QED BY <1>1, <2>2, <3>1 DEF IsWindow
  <2>3. CASE u.modal > 1 /\ answer = "cancel"
    <3>1. v = [u EXCEPT !.modal = 0]
      BY <1>1, <2>3 DEF QuitAnswered
    <3> HIDE DEF v
    <3>2. QED BY <1>1, <3>1 DEF IsWindow
  <2>4. CASE u.modal > 1 /\ answer # "cancel" /\ answer # "quit"
    <3>1. v = [u EXCEPT !.modal = u.modal - 1]
      BY <1>1, <2>4 DEF QuitAnswered
    <3> HIDE DEF v
    <3>2. QED BY <1>1, <2>4, <3>1 DEF IsWindow
  <2>5. QED BY <1>1, <2>1, <2>2, <2>3, <2>4
<1> HIDE DEF v
<1>3. ASSUME NEW p, Alive(w, p), v.quit PROVE answer = "quit" \/ w.modal = 1
  BY <1>1, <1>2, <1>3 DEF Alive
<1>4. QED BY <1>1, <1>2, <1>3 DEF u, v

\* The tree less some tabs
LEMMA WithoutTree ==
  ASSUME NEW strips, IsTree(strips), NEW gone
  PROVE  /\ IsTree(Without(strips, gone)) /\ TilesOf(Without(strips, gone)) = TilesOf(strips) \ gone
         /\ \A c \in DOMAIN Without(strips, gone) : Without(strips, gone)[c].tabs # <<>>
<1> DEFINE thin == [c \in DOMAIN strips |-> [strips[c] EXCEPT !.tabs = Less(@, gone)]]
<1>1. /\ strips \in Seq(Strips) /\ Len(strips) \in Nat /\ DOMAIN strips = 1..Len(strips)
      /\ \A c \in DOMAIN strips : strips[c] \in Strips /\ strips[c].tabs \in Seq(Nat)
  BY TreeParts
<1>2. ASSUME NEW c \in DOMAIN strips
      PROVE  thin[c] \in Strips /\ thin[c].tabs = Less(strips[c].tabs, gone)
  <2>1. Less(strips[c].tabs, gone) \in Seq(Nat)
    BY <1>1, LessTabs
  <2>2. thin[c] = [strips[c] EXCEPT !.tabs = Less(strips[c].tabs, gone)]
    OBVIOUS
  <2>3. strips[c] \in Strips
    BY <1>1
  <2> HIDE DEF thin
  <2>4. QED BY <2>1, <2>2, <2>3 DEF Strips
<1>3. DOMAIN thin = DOMAIN strips /\ thin = [c \in DOMAIN strips |-> thin[c]]
  OBVIOUS
<1> HIDE DEF thin
<1>4. thin \in [1..Len(strips) -> Strips]
  BY <1>1, <1>2, <1>3
<1>5. thin \in Seq(Strips) /\ Len(thin) = Len(strips)
  BY <1>1, <1>4
<1>6. IsTree(thin) /\ TilesOf(thin) = TilesOf(strips) \ gone
  <2>1. \A c \in DOMAIN strips : \/ thin[c].tabs = Less(strips[c].tabs, gone)
                                 \/ /\ thin[c].tabs = strips[c].tabs
                                    /\ ToSet(strips[c].tabs) \cap gone = {}
    BY <1>2
  <2>2. QED BY <1>5, <2>1, ThinTree
<1>7. Without(strips, gone) = Tabbed(thin)
  BY DEF Without, thin
<1>8. QED BY <1>6, <1>7, TabbedTree

\* Every strip is made to show a tab of its own.
LEMMA RevalidatedTree ==
  ASSUME NEW strips, IsTree(strips), \A c \in DOMAIN strips : strips[c].tabs # <<>>
  PROVE  /\ Revalidated(strips) \in Seq(Strips) /\ Len(Revalidated(strips)) = Len(strips)
         /\ \A c \in DOMAIN strips :
              /\ Revalidated(strips)[c].tabs = strips[c].tabs
              /\ Contains(strips[c].tabs, Revalidated(strips)[c].active)
<1> DEFINE t == Revalidated(strips)
           shown(c) == IF Contains(strips[c].tabs, strips[c].active) THEN strips[c].active
                       ELSE Head(strips[c].tabs)
<1>1. /\ strips \in Seq(Strips) /\ Len(strips) \in Nat /\ DOMAIN strips = 1..Len(strips)
      /\ \A c \in DOMAIN strips : strips[c] \in Strips /\ strips[c].tabs \in Seq(Nat)
  BY TreeParts
<1>2. ASSUME NEW c \in DOMAIN strips
      PROVE  t[c] \in Strips /\ t[c].tabs = strips[c].tabs /\ Contains(strips[c].tabs, t[c].active)
  <2> DEFINE tabs == strips[c].tabs
  <2>1. tabs \in Seq(Nat) /\ tabs # <<>> /\ strips[c] \in Strips
    BY <1>1
  <2> HIDE DEF tabs
  <2>2. Contains(tabs, Head(tabs)) /\ Head(tabs) \in Nat
    BY <2>1 DEF Contains
  <2> USE DEF tabs
  <2>3. shown(c) \in Nat /\ Contains(strips[c].tabs, shown(c))
    BY <2>1, <2>2 DEF Strips
  <2>4. t[c] = [strips[c] EXCEPT !.active = shown(c)]
    BY DEF Revalidated
  <2> HIDE DEF t, shown
  <2>5. QED BY <2>1, <2>3, <2>4 DEF Strips
<1>3. DOMAIN t = DOMAIN strips /\ t = [c \in DOMAIN strips |-> t[c]]
  BY DEF Revalidated
<1> HIDE DEF t
<1>4. t \in [1..Len(strips) -> Strips]
  BY <1>1, <1>2, <1>3
<1>5. t \in Seq(Strips) /\ Len(t) = Len(strips)
  BY <1>1, <1>4
<1>6. QED BY <1>2, <1>5 DEF t

\* The tabs that are to close go, and no other.
LEMMA ReclosedLeads ==
  ASSUME NEW w, Sound(w)
  PROVE  /\ Leads(w, Reclosed(w), {}) /\ (Doomed(w) => Doomed(Reclosed(w)))
         /\ Reclosed(w).closes = {}
<1> DEFINE gone == w.closes \cap Tiles(w)
           strips == Without(w.strips, gone)
           history == Less(w.history, gone)
           none == {}
           v == [w EXCEPT !.closes = none, !.strips = strips, !.history = history]
<1>1. /\ IsTree(strips) /\ TilesOf(strips) = TilesOf(w.strips) \ gone
      /\ \A c \in DOMAIN strips : strips[c].tabs # <<>>
  BY WithoutTree DEF Sound
<1>2. \A p : p \in gone <=> p \in w.closes /\ p \in TilesOf(w.strips)
  BY DEF Tiles, TilesOf
<1>3. Reclosed(w) = v \/ \E p : Reclosed(w) = TabClicked(v, p)
  BY DEF Reclosed
<1>4. IsWindow(w)
  BY DEF Sound
<1> HIDE DEF gone, strips, history, none
<1>5. /\ IsWindow(v) /\ v.panes = w.panes /\ v.strips = strips /\ v.nextId = w.nextId
      /\ v.confirm = w.confirm /\ v.quitReq = w.quitReq /\ v.quit = w.quit /\ v.closes = none
      /\ v.modal = w.modal /\ v.print = w.print /\ v.due = w.due /\ v.saved = w.saved
  <2> DEFINE a == [w EXCEPT !.closes = none]
             b == [a EXCEPT !.strips = strips]
  <2>1. /\ IsWindow(a) /\ a.panes = w.panes /\ a.strips = w.strips /\ a.nextId = w.nextId
        /\ a.confirm = w.confirm /\ a.quitReq = w.quitReq /\ a.quit = w.quit /\ a.closes = none
        /\ a.modal = w.modal /\ a.print = w.print /\ a.due = w.due /\ a.saved = w.saved
    BY <1>4 DEF IsWindow
  <2> HIDE DEF a
  <2>2. /\ IsWindow(b) /\ b.panes = w.panes /\ b.strips = strips /\ b.nextId = w.nextId
        /\ b.confirm = w.confirm /\ b.quitReq = w.quitReq /\ b.quit = w.quit /\ b.closes = none
        /\ b.modal = w.modal /\ b.print = w.print /\ b.due = w.due /\ b.saved = w.saved
    BY <2>1 DEF IsWindow
  <2>3. v = [b EXCEPT !.history = history]
    BY DEF a
  <2> HIDE DEF b, v
  <2>4. QED BY <2>2, <2>3 DEF IsWindow
<1> HIDE DEF v
<1> USE DEF none
<1>6. Open(v) = Open(w)
  BY <1>5 DEF Open
<1>7. Sound(v)
  BY <1>1, <1>5, <1>6 DEF Sound
<1>8. ASSUME NEW p, Alive(w, p) PROVE Alive(v, p)
  BY <1>1, <1>2, <1>5, <1>6, <1>8 DEF Alive
<1>9. Doomed(w) => Doomed(v)
  BY <1>1, <1>2, <1>5, <1>6 DEF Doomed
<1>10. Leads(w, v, {})
  BY <1>5, <1>7, <1>8 DEF Leads
<1>11. ASSUME NEW p, Reclosed(w) = TabClicked(v, p)
       PROVE  /\ Leads(w, Reclosed(w), {}) /\ (Doomed(w) => Doomed(Reclosed(w)))
              /\ Reclosed(w).closes = {}
  <2> DEFINE u == TabClicked(v, p)
  <2>1. Tidies(v, u)
    BY <1>7, TabClickedTidies
  <2>2. u.closes = {}
    <3>1. IsWindow(v)
      BY <1>5
    <3>2. QED BY <1>5, <3>1 DEF TabClicked, IsWindow
  <2> HIDE DEF u
  <2>3. Leads(v, u, {}) /\ (Doomed(v) => Doomed(u))
    BY <1>7, <2>1, TidyLeads
  <2>4. Leads(w, u, {})
    BY <1>10, <2>3 DEF Leads
  <2>5. QED BY <1>9, <1>11, <2>2, <2>3, <2>4 DEF u
<1>12. QED BY <1>3, <1>5, <1>9, <1>10, <1>11

\* A pane that comes in sight asks for the keys.
LEMMA ActivatedTidies ==
  ASSUME NEW w, Sound(w)
  PROVE  /\ Tidies(w, Activated(w)) /\ Activated(w).strips = w.strips
         /\ Activated(w).closes = w.closes
<1> DEFINE now == Active(w)
           panes == [p \in Open(w) |->
                       [w.panes[p] EXCEPT !.needs = w.panes[p].needs \/ p \in now \ w.prevActive]]
           v == [w EXCEPT !.prevActive = now, !.panes = panes]
<1>1. Activated(w) = v /\ IsWindow(w)
  BY DEF Activated, Sound
<1>2. ASSUME NEW p \in Open(w)
      PROVE  /\ panes[p] \in Slots
             /\ panes[p].dead = w.panes[p].dead
             /\ panes[p].alt = w.panes[p].alt
             /\ panes[p].exited = w.panes[p].exited
  <2>1. w.panes[p] \in Slots
    BY DEF Sound
  <2>2. QED BY <2>1 DEF Slots
<1>3. panes \in [Open(w) -> Slots]
  BY <1>2
<1> HIDE DEF now, panes
<1>4. /\ IsWindow(v) /\ v.panes = panes /\ v.strips = w.strips /\ v.nextId = w.nextId
      /\ v.confirm = w.confirm /\ v.quitReq = w.quitReq /\ v.quit = w.quit /\ v.closes = w.closes
      /\ v.modal = w.modal /\ v.print = w.print /\ v.due = w.due /\ v.saved = w.saved
  BY <1>1 DEF IsWindow
<1> HIDE DEF v
<1>5. Tidies(w, v)
  BY <1>2, <1>3, <1>4, ShownTidies DEF Sound, IsTree
<1>6. QED BY <1>1, <1>4, <1>5

\* The focus is remembered.
LEMMA RememberedTidies ==
  ASSUME NEW w, Sound(w), NEW f
  PROVE  /\ Tidies(w, Remembered(w, f)) /\ Remembered(w, f).strips = w.strips
         /\ Remembered(w, f).closes = w.closes
<1> DEFINE history == IF f = 0 THEN w.history ELSE <<f>> \o Less(w.history, {f})
           v == [w EXCEPT !.focused = f, !.history = history]
<1>1. Remembered(w, f) = v /\ IsWindow(w)
  BY DEF Remembered, Sound
<1> HIDE DEF history
<1>2. /\ IsWindow(v) /\ v.panes = w.panes /\ v.strips = w.strips /\ v.nextId = w.nextId
      /\ v.confirm = w.confirm /\ v.quitReq = w.quitReq /\ v.quit = w.quit /\ v.closes = w.closes
      /\ v.modal = w.modal /\ v.print = w.print /\ v.due = w.due /\ v.saved = w.saved
  BY <1>1 DEF IsWindow
<1> HIDE DEF v
<1>3. Tidies(w, v)
  BY <1>2, ShownTidies DEF Sound, IsTree
<1>4. QED BY <1>1, <1>2, <1>3

\* Panes without a tile are dropped.
LEMMA CollectedLeads ==
  ASSUME NEW w, Sound(w)
  PROVE  /\ Leads(w, Collected(w), {}) /\ (Doomed(w) => Doomed(Collected(w)))
         /\ Collected(w).closes = w.closes /\ Collected(w).strips = w.strips
         /\ Open(Collected(w)) = TilesOf(w.strips)
<1> DEFINE kept == Open(w) \cap Tiles(w)
           panes == [p \in kept |-> w.panes[p]]
           v == [w EXCEPT !.panes = panes]
<1>1. Collected(w) = v /\ IsWindow(w)
  BY DEF Collected, Sound
<1>2. kept = TilesOf(w.strips) /\ kept \subseteq Open(w)
  BY DEF Tiles, TilesOf, Sound
<1>3. DOMAIN panes = kept /\ \A p \in kept : panes[p] = w.panes[p]
  OBVIOUS
<1>4. panes \in [kept -> Slots]
  BY <1>2 DEF Sound
<1> HIDE DEF kept, panes
<1>5. /\ IsWindow(v) /\ v.panes = panes /\ v.strips = w.strips /\ v.nextId = w.nextId
      /\ v.confirm = w.confirm /\ v.quitReq = w.quitReq /\ v.quit = w.quit /\ v.closes = w.closes
      /\ v.modal = w.modal /\ v.print = w.print /\ v.due = w.due /\ v.saved = w.saved
  BY <1>1 DEF IsWindow
<1> HIDE DEF v
<1>6. Open(v) = kept
  BY <1>3, <1>5 DEF Open
<1>7. Sound(v)
  <2>1. v.panes \in [Open(v) -> Slots]
    BY <1>4, <1>5, <1>6
  <2>2. \A p \in Open(v) : p \in Nat /\ p < v.nextId /\ (v.panes[p].dead => ~v.panes[p].alt)
    BY <1>2, <1>3, <1>5, <1>6 DEF Sound
  <2>3. TilesOf(v.strips) \subseteq Open(v)
    BY <1>2, <1>5, <1>6
  <2>4. QED BY <1>5, <2>1, <2>2, <2>3 DEF Sound
<1>8. ASSUME NEW p, Alive(w, p) PROVE Alive(v, p)
  BY <1>2, <1>3, <1>5, <1>6, <1>8 DEF Alive
<1>9. Doomed(w) => Doomed(v)
  BY <1>2, <1>3, <1>5, <1>6 DEF Doomed
<1>10. QED BY <1>1, <1>2, <1>5, <1>6, <1>7, <1>8, <1>9 DEF Leads

-----------------------------------------------------------------------------
\* The layout

\* What a window that is saved, or about to be, says of its layout
Filed(w) ==
  w.print = <<>> \/ (/\ w.print = Fingerprint(w)
                     /\ ~w.due => w.saved = Pruned(w) \/ Mapped(w) = {})

\* The debounce leaves nothing unsaved that it does not know of.
LEMMA DebouncedFiles ==
  ASSUME NEW u, Filed(u), NEW w, Sound(w), Open(w) = TilesOf(w.strips),
         w.print = u.print, w.due = u.due, w.saved = u.saved
  PROVE  LET v == Debounced(w)
         IN  /\ IsWindow(v) /\ v.panes = w.panes /\ v.strips = w.strips /\ v.nextId = w.nextId
             /\ v.confirm = w.confirm /\ v.closes = w.closes /\ v.quitReq = w.quitReq
             /\ v.quit = w.quit /\ v.modal = w.modal /\ v.due \in BOOLEAN
             /\ Filed(v)
<1> DEFINE v == Debounced(w)
           print == Fingerprint(w)
           layout == Pruned(w)
<1>1. IsWindow(w) /\ w.due \in BOOLEAN
  BY DEF Sound
<1>2. print # <<>>
  BY DEF Fingerprint
<1>3. ASSUME NEW x, x.strips = w.strips, x.panes = w.panes
      PROVE  Fingerprint(x) = print /\ Pruned(x) = layout /\ Mapped(x) = Mapped(w)
  BY <1>3 DEF Fingerprint, Mapped, Pruned, Open, Tiles
<1>4. Mapped(w) \cap Tiles(w) = Mapped(w)
  BY DEF Mapped, Tiles, TilesOf
<1>5. CASE print # w.print
  <2>1. v = [w EXCEPT !.print = print, !.due = TRUE]
    BY <1>5 DEF Debounced
  <2> HIDE DEF v, print, layout
  <2>2. /\ IsWindow(v) /\ v.panes = w.panes /\ v.strips = w.strips /\ v.nextId = w.nextId
        /\ v.confirm = w.confirm /\ v.closes = w.closes /\ v.quitReq = w.quitReq
        /\ v.quit = w.quit /\ v.modal = w.modal /\ v.due = TRUE /\ v.print = print
    BY <1>1, <2>1 DEF IsWindow
  <2>3. Filed(v)
    BY <1>3, <2>2 DEF Filed
  <2>4. QED BY <2>2, <2>3 DEF v
<1>6. CASE print = w.print /\ w.due
  <2> DEFINE s == Stored(w)
  <2>1. v = [s EXCEPT !.due = FALSE]
    BY <1>6 DEF Debounced
  <2>2. CASE Mapped(w) = {}
    <3>1. s = w
      BY <1>4, <2>2 DEF Stored
    <3>2. v = [w EXCEPT !.due = FALSE]
      BY <2>1, <3>1
    <3> HIDE DEF v, print, layout, s
    <3>3. /\ IsWindow(v) /\ v.panes = w.panes /\ v.strips = w.strips /\ v.nextId = w.nextId
          /\ v.confirm = w.confirm /\ v.closes = w.closes /\ v.quitReq = w.quitReq
          /\ v.quit = w.quit /\ v.modal = w.modal /\ v.due = FALSE /\ v.print = w.print
      BY <1>1, <3>2 DEF IsWindow
    <3>4. Filed(v)
      BY <1>3, <1>6, <2>2, <3>3 DEF Filed
    <3>5. QED BY <3>3, <3>4 DEF v
  <2>3. CASE Mapped(w) # {}
    <3>1. s = [w EXCEPT !.saved = layout]
      BY <1>4, <2>3 DEF Stored
    <3> HIDE DEF v, print, layout, s
    <3>2. /\ IsWindow(s) /\ s.panes = w.panes /\ s.strips = w.strips /\ s.nextId = w.nextId
          /\ s.confirm = w.confirm /\ s.closes = w.closes /\ s.quitReq = w.quitReq
          /\ s.quit = w.quit /\ s.modal = w.modal /\ s.print = w.print /\ s.saved = layout
      BY <1>1, <3>1 DEF IsWindow
    <3>3. /\ IsWindow(v) /\ v.panes = w.panes /\ v.strips = w.strips /\ v.nextId = w.nextId
          /\ v.confirm = w.confirm /\ v.closes = w.closes /\ v.quitReq = w.quitReq
          /\ v.quit = w.quit /\ v.modal = w.modal /\ v.due = FALSE /\ v.print = w.print
          /\ v.saved = layout
      BY <2>1, <3>2 DEF IsWindow
    <3>4. Filed(v)
      BY <1>3, <1>6, <3>3 DEF Filed
    <3>5. QED BY <3>3, <3>4 DEF v
  <2>4. QED BY <2>2, <2>3
<1>7. CASE print = w.print /\ ~w.due
  <2>1. v = w
    BY <1>7 DEF Debounced
  <2>2. Fingerprint(u) = print /\ (u.saved = Pruned(u) \/ Mapped(u) = {})
    BY <1>2, <1>7 DEF Filed
  <2>3. u.strips = w.strips /\ Mapped(u) = Mapped(w)
    BY <2>2 DEF Fingerprint
  <2>4. Pruned(u) = Pruned(w)
    BY <2>3 DEF Pruned, Tiles
  <2>5. Filed(w)
    BY <1>7, <2>2, <2>3, <2>4 DEF Filed
  <2>6. QED BY <1>1, <2>1, <2>5
<1>8. QED BY <1>1, <1>5, <1>6, <1>7

-----------------------------------------------------------------------------
\* A frame

\* One stage after another
LEMMA LeadsOn ==
  ASSUME NEW u, NEW v, NEW w, NEW a, NEW b, NEW c, Leads(u, v, a), Leads(v, w, b),
         a \subseteq c, b \subseteq c
  PROVE  Leads(u, w, c)
BY DEF Leads

\* The mouse takes no tab out of the tree.
LEMMA MousedLeads ==
  ASSUME NEW w, Sound(w), NEW mouse, mouse.at # "none" => mouse.p \in TilesOf(w.strips),
         mouse.at \in {"none", "click", "x", "plus", "drag"}, NEW spawn
  PROVE  /\ Leads(w, Moused(w, mouse, spawn), {}) /\ (Doomed(w) => Doomed(Moused(w, mouse, spawn)))
         /\ TilesOf(w.strips) \subseteq TilesOf(Moused(w, mouse, spawn).strips)
<1> DEFINE v == Moused(w, mouse, spawn)
<1>1. mouse.at # "none" => mouse.p \in Open(w) /\ StripOf(w, mouse.p) \in DOMAIN w.strips
  BY StripIsThere DEF Sound
<1>2. ASSUME NEW x, Tidies(w, x)
      PROVE  /\ Leads(w, x, {}) /\ (Doomed(w) => Doomed(x))
             /\ TilesOf(w.strips) \subseteq TilesOf(x.strips)
  BY <1>2, TidyLeads DEF Tidies
<1>3. CASE mouse.at = "none"
  <2>1. v = w
    BY <1>3 DEF Moused
  <2>2. QED BY <2>1 DEF Leads
<1>4. CASE mouse.at = "click"
  <2>1. v = TabClicked(w, mouse.p)
    BY <1>4 DEF Moused
  <2>2. QED BY <1>2, <2>1, TabClickedTidies
<1>5. CASE mouse.at = "x"
  <2>1. v = CloseClicked(w, mouse.p)
    BY <1>5 DEF Moused
  <2>2. QED BY <1>1, <1>2, <1>5, <2>1, CloseClickedTidies
<1>6. CASE mouse.at = "plus"
  <2>1. v = NewPane(w, StripOf(w, mouse.p), spawn)
    BY <1>6 DEF Moused
  <2>2. QED BY <1>1, <1>6, <2>1, NewPaneLeads
<1>7. CASE mouse.at = "drag"
  <2>1. v = Dragged(w, mouse.p, mouse.to)
    BY <1>7 DEF Moused
  <2>2. QED BY <1>2, <1>7, <2>1, DraggedTidies
<1>8. QED BY <1>3, <1>4, <1>5, <1>6, <1>7

\* Nor does a key of the pane that has the keys.
LEMMA ActedLeads ==
  ASSUME NEW w, Sound(w), NEW p \in TilesOf(w.strips), NEW spawn,
         NEW key \in {"NewTab", "NextTab", "PrevTab", "CloseTab", "Quit", "Restart"}
  PROVE  /\ Leads(w, Acted(w, p, key, spawn), {})
         /\ Doomed(w) => Doomed(Acted(w, p, key, spawn))
<1> DEFINE v == Acted(w, p, key, spawn)
<1>1. p \in Open(w) /\ StripOf(w, p) \in DOMAIN w.strips
  BY StripIsThere DEF Sound
<1>2. CASE key = "NewTab"
  <2>1. v = NewPane(w, StripOf(w, p), spawn)
    BY <1>2 DEF Acted
  <2>2. QED BY <1>1, <2>1, NewPaneLeads
<1>3. CASE key = "NextTab" \/ key = "PrevTab"
  <2>1. v = Cycled(w, p, 1) \/ v = Cycled(w, p, -1)
    BY <1>3 DEF Acted
  <2>2. QED BY <2>1, CycledTidies, TidyLeads
<1>4. CASE key = "CloseTab" \/ key = "Quit"
  BY <1>1, <1>4, CloseTabTidies, TidyLeads
<1>5. CASE key = "Restart"
  BY <1>1, <1>5, RestartedLeads
<1>6. QED BY <1>2, <1>3, <1>4, <1>5

\* The end of a frame, from the quit to the layout: nothing that is alive goes
\* unless the quit was agreed to, and what is left is at rest.
LEMMA FrameEnds ==
  ASSUME QuitFrames \in Nat \ {0}, NEW u, Filed(u), NEW w, Sound(w), Doomed(w), w.quit = FALSE,
         w.print = u.print, w.due = u.due, w.saved = u.saved, NEW answer, NEW f
  PROVE  LET q == QuitAnswered(QuitDecided(w), answer)
             s == Reclosed(IF q.quit THEN Stored(q) ELSE q)
             v == Ended(Collected(Remembered(Activated(
                    [s EXCEPT !.strips = Revalidated(s.strips)]), f)))
         IN  /\ AtRest(v)
             /\ \A p : Alive(w, p) =>
                  /\ p \in Open(v)
                  /\ v.quit => answer = "quit" \/ w.modal = 1
<1> DEFINE q == QuitAnswered(QuitDecided(w), answer)
           q1 == IF q.quit THEN Stored(q) ELSE q
           s == Reclosed(q1)
           t == [s EXCEPT !.strips = Revalidated(s.strips)]
           a == Activated(t)
           r == Remembered(a, f)
           c == Collected(r)
           v == Ended(c)
<1>1. /\ IsWindow(q) /\ q.panes = w.panes /\ q.strips = w.strips /\ q.nextId = w.nextId
      /\ q.confirm = w.confirm /\ q.closes = w.closes
      /\ q.print = w.print /\ q.due = w.due /\ q.saved = w.saved
      /\ q.quitReq \in BOOLEAN /\ q.quit \in BOOLEAN /\ q.modal \in Nat
      /\ \A p : Alive(w, p) /\ q.quit => answer = "quit" \/ w.modal = 1
  BY QuitWaits
<1> HIDE DEF q
<1>2. /\ IsWindow(q1) /\ q1.panes = w.panes /\ q1.strips = w.strips /\ q1.nextId = w.nextId
      /\ q1.confirm = w.confirm /\ q1.closes = w.closes
      /\ q1.print = w.print /\ q1.due = w.due
      /\ q1.quitReq \in BOOLEAN /\ q1.quit = q.quit /\ q1.modal \in Nat
      /\ ~q.quit => q1.saved = w.saved
  <2>1. CASE ~q.quit \/ Mapped(q) \cap Tiles(q) = {}
    <3>1. q1 = q
      BY <2>1 DEF Stored
    <3>2. QED BY <1>1, <3>1
  <2>2. CASE q.quit /\ Mapped(q) \cap Tiles(q) # {}
    <3> DEFINE layout == Pruned(q)
    <3>1. q1 = [q EXCEPT !.saved = layout]
      BY <2>2 DEF Stored
    <3> HIDE DEF layout, q1
    <3>2. QED BY <1>1, <2>2, <3>1 DEF IsWindow
  <2>3. QED BY <2>1, <2>2
<1> HIDE DEF q1
<1>3. Open(q1) = Open(w)
  BY <1>2 DEF Open
<1>4. Sound(q1) /\ Doomed(q1)
  BY <1>1, <1>2, <1>3 DEF Sound, Doomed
<1>5. \A p : Alive(w, p) => Alive(q1, p)
  BY <1>2, <1>3 DEF Alive
<1>6. Leads(q1, s, {}) /\ Doomed(s) /\ s.closes = {}
  BY <1>4, ReclosedLeads
<1> HIDE DEF s
<1>7. Sound(s) /\ IsWindow(s)
  BY <1>6 DEF Leads, Sound
<1>8. /\ Revalidated(s.strips) \in Seq(Strips) /\ Len(Revalidated(s.strips)) = Len(s.strips)
      /\ \A d \in DOMAIN s.strips :
           /\ Revalidated(s.strips)[d].tabs = s.strips[d].tabs
           /\ Contains(s.strips[d].tabs, Revalidated(s.strips)[d].active)
  BY <1>7, RevalidatedTree DEF Sound
<1>9. /\ IsWindow(t) /\ t.panes = s.panes /\ t.strips = Revalidated(s.strips)
      /\ t.nextId = s.nextId /\ t.confirm = s.confirm /\ t.quitReq = s.quitReq /\ t.quit = s.quit
      /\ t.closes = s.closes /\ t.modal = s.modal /\ t.print = s.print /\ t.due = s.due
      /\ t.saved = s.saved
  <2> DEFINE strips == Revalidated(s.strips)
  <2>1. t = [s EXCEPT !.strips = strips]
    OBVIOUS
  <2> HIDE DEF strips, t
  <2>2. t.strips = strips
    BY <1>7, <2>1 DEF IsWindow
  <2>3. QED BY <1>7, <2>1, <2>2 DEF IsWindow, strips
<1> HIDE DEF t
<1>10. Tidies(s, t)
  BY <1>7, <1>8, <1>9, ShownTidies DEF Sound
<1>11. Leads(s, t, {}) /\ Doomed(t)
  BY <1>6, <1>7, <1>10, TidyLeads
<1>12. \A d \in DOMAIN t.strips : Contains(t.strips[d].tabs, t.strips[d].active)
  BY <1>7, <1>8, <1>9 DEF Sound, IsTree
<1>13. Sound(t)
  BY <1>11 DEF Leads
<1>14. Tidies(t, a) /\ a.strips = t.strips /\ a.closes = t.closes
  BY <1>13, ActivatedTidies
<1> HIDE DEF a
<1>15. Leads(t, a, {}) /\ Doomed(a) /\ Sound(a)
  BY <1>11, <1>13, <1>14, TidyLeads DEF Leads
<1>16. Tidies(a, r) /\ r.strips = a.strips /\ r.closes = a.closes
  BY <1>15, RememberedTidies
<1> HIDE DEF r
<1>17. Leads(a, r, {}) /\ Doomed(r) /\ Sound(r)
  BY <1>15, <1>16, TidyLeads DEF Leads
<1>18. /\ Leads(r, c, {}) /\ Doomed(c) /\ c.closes = r.closes /\ c.strips = r.strips
       /\ Open(c) = TilesOf(r.strips)
  BY <1>17, CollectedLeads
<1> HIDE DEF c
<1>19. Sound(c) /\ c.closes = {} /\ Doomed(c) /\ Open(c) = TilesOf(c.strips)
  BY <1>6, <1>9, <1>14, <1>16, <1>18 DEF Leads
<1>20. \A d \in DOMAIN c.strips : Contains(c.strips[d].tabs, c.strips[d].active)
  BY <1>12, <1>14, <1>16, <1>18
<1>21. Leads(q1, c, {})
  <2>1. Leads(q1, t, {})
    BY <1>6, <1>11, LeadsOn
  <2>2. Leads(q1, a, {})
    BY <2>1, <1>15, LeadsOn
  <2>3. Leads(q1, r, {})
    BY <2>2, <1>17, LeadsOn
  <2>4. QED BY <2>3, <1>18, LeadsOn
<1>22. /\ c.quit = q.quit /\ c.print = u.print /\ c.due = u.due
       /\ ~q.quit => c.saved = u.saved
       /\ \A p : Alive(w, p) => p \in Open(c)
  BY <1>2, <1>5, <1>21 DEF Leads, Alive
<1>23. CASE q.quit
  <2>1. v = c
    BY <1>22, <1>23 DEF Ended
  <2>2. AtRest(c)
    BY <1>19, <1>20, <1>22, <1>23 DEF AtRest
  <2>3. QED BY <1>1, <1>22, <2>1, <2>2 DEF a, c, q, q1, r, s, t
<1>24. CASE ~q.quit
  <2>1. v = Debounced(c)
    BY <1>22, <1>24 DEF Ended
  <2>2. /\ IsWindow(v) /\ v.panes = c.panes /\ v.strips = c.strips /\ v.nextId = c.nextId
        /\ v.confirm = c.confirm /\ v.closes = c.closes /\ v.quitReq = c.quitReq
        /\ v.quit = c.quit /\ v.modal = c.modal /\ v.due \in BOOLEAN
        /\ Filed(v)
    BY <1>19, <1>22, <1>24, <2>1, DebouncedFiles
  <2> HIDE DEF v
  <2>3. Open(v) = Open(c)
    BY <2>2 DEF Open
  <2>4. Sound(v) /\ Doomed(v)
    BY <1>19, <2>2, <2>3 DEF Sound, Doomed
  <2>5. AtRest(v)
    BY <1>19, <1>20, <2>2, <2>3, <2>4 DEF AtRest, Filed
  <2>6. ~v.quit
    BY <1>1, <1>22, <1>24, <2>2
  <2>7. QED BY <1>22, <2>3, <2>5, <2>6 DEF a, c, q, q1, r, s, t, v
<1>25. QED BY <1>1, <1>23, <1>24

\* What happens, what the mouse does, which key comes and what is answered
Inputs(event, mouse, key, answer) ==
  /\ event.what \in {"exit", "alt"} => event.p \in Open(ws) /\ ~ws.panes[event.p].dead
  /\ mouse.at \in {"none", "click", "x", "plus", "drag"}
  /\ mouse.at # "none" => mouse.p \in Tiles(ws)
  /\ key # "none" => /\ ws.keys \in Open(ws)
                     /\ key \in {"NewTab", "NextTab", "PrevTab", "CloseTab", "Quit", "Restart"}
  /\ answer = "yes" => ws.confirm # 0

\* A frame that begins at rest ends at rest, and has closed no program unasked.
LEMMA FrameRests ==
  ASSUME QuitFrames \in Nat \ {0}, AtRest(ws), ws.quit = FALSE,
         NEW event, NEW mouse, NEW key, NEW answer, NEW spawn,
         Inputs(event, mouse, key, answer), Frame(event, mouse, key, answer, spawn)
  PROVE  AtRest(ws') /\ KillsOnlyAsked
<1> DEFINE w0 == Drained(ws, event.p, event.what)
           w1 == Asked(w0, event.what = "osclose")
           w2 == CloseExited(w1)
           modal == ModalOpen(w2)
           w3 == Rendered(w2, modal)
           w4 == IF modal THEN w3 ELSE Moused(w3, mouse, spawn)
           w5 == IF modal \/ key = "none" THEN w4 ELSE Acted(w4, ws.keys, key, spawn)
           w6 == CloseAnswered(w5, answer)
           asked == {event.p} \cup (IF answer = "yes" THEN {ws.confirm} ELSE {})
<1>1. /\ Sound(ws) /\ Open(ws) = TilesOf(ws.strips) /\ Filed(ws)
      /\ \A p \in Open(ws) : p \notin ws.closes /\ ~ws.panes[p].exited
  BY DEF AtRest, Filed, Doomed
<1>2. Tiles(ws) = TilesOf(ws.strips)
  BY DEF Tiles, TilesOf
<1>3. PICK f : ws' = Ended(Collected(Remembered(Settled(w5, answer), f)))
  BY DEF Frame
<1>4. agreed' = asked \cup (IF answer = "quit" \/ ws.modal = 1 THEN Open(ws) ELSE {})
  BY DEF Frame
<1> HIDE DEF w1, w2, w3, w4, w5, w6, modal, asked
<1>5. /\ Leads(ws, w0, {event.p}) /\ w0.strips = ws.strips /\ w0.confirm = ws.confirm
  <2> DEFINE p == event.p
             what == event.what
  <2>1. what \in {"exit", "alt"} => p \in Open(ws) /\ ~ws.panes[p].dead
    BY DEF Inputs
  <2> HIDE DEF p, what
  <2>2. /\ Leads(ws, Drained(ws, p, what), {p}) /\ Drained(ws, p, what).strips = ws.strips
        /\ Drained(ws, p, what).confirm = ws.confirm
    BY <1>1, <2>1, DrainedLeads
  <2>3. QED BY <2>2 DEF p, what
<1> HIDE DEF w0
<1> USE DEF w1, w2, w3, w4, w5, w6, modal, asked
<1>6. Sound(w0)
  BY <1>5 DEF Leads
<1>7. Tidies(w0, w1) /\ Leads(w0, w1, {}) /\ Sound(w1)
  BY <1>6, AskedTidies, TidyLeads DEF Leads
<1>8. w1.strips = w0.strips /\ w1.confirm = w0.confirm
  BY <1>6 DEF Asked, Sound, IsWindow
<1> HIDE DEF w1
<1>9. Tidies(w1, w2) /\ Leads(w1, w2, {}) /\ Sound(w2) /\ Doomed(w2)
  BY <1>7, CloseExitedTidies, TidyLeads DEF Leads
<1>10. w2.strips = w1.strips /\ w2.confirm = w1.confirm
  BY <1>7 DEF CloseExited, Sound, IsWindow
<1> HIDE DEF w2
<1>11. /\ Leads(w2, w3, {}) /\ Sound(w3) /\ Doomed(w3)
       /\ w3.strips = w2.strips /\ w3.confirm = w2.confirm
  BY <1>9, RenderedTidies, TidyLeads DEF Leads
<1>12. /\ TilesOf(w3.strips) = TilesOf(ws.strips) /\ w3.confirm = ws.confirm
  BY <1>5, <1>8, <1>10, <1>11
<1>13. w2.confirm = ws.confirm /\ (modal <=> ws.confirm # 0 \/ w2.modal # 0)
  BY <1>5, <1>8, <1>10 DEF ModalOpen
<1> HIDE DEF w3, modal
<1>14. /\ Leads(w3, w4, {}) /\ Sound(w4) /\ Doomed(w4)
       /\ TilesOf(w3.strips) \subseteq TilesOf(w4.strips)
  <2>1. CASE modal
    BY <1>11, <2>1 DEF Leads
  <2>2. CASE ~modal
    BY <1>2, <1>11, <1>12, <2>2, MousedLeads DEF Leads, Inputs
  <2>3. QED BY <2>1, <2>2
<1>15. modal => w4.confirm = ws.confirm
  BY <1>12
<1> HIDE DEF w4
<1>16. Leads(w4, w5, {}) /\ Sound(w5) /\ Doomed(w5)
  <2>1. CASE modal \/ key = "none"
    BY <1>14, <2>1 DEF Leads
  <2>2. CASE ~modal /\ key # "none"
    <3>1. ws.keys \in TilesOf(w4.strips)
      BY <1>1, <1>12, <1>14, <2>2 DEF Inputs
    <3>2. QED BY <1>14, <2>2, <3>1, ActedLeads DEF Leads, Inputs
  <2>3. QED BY <2>1, <2>2
<1>17. answer = "yes" => w5.confirm = ws.confirm
  BY <1>13, <1>15 DEF Inputs
<1> HIDE DEF w5
<1>18. /\ Leads(w5, w6, IF answer = "yes" THEN {w5.confirm} ELSE {}) /\ Sound(w6) /\ Doomed(w6)
  BY <1>16, AnsweredLeads DEF Leads
<1>19. Leads(ws, w6, asked)
  <2>1. Leads(ws, w1, asked)
    BY <1>5, <1>7, LeadsOn
  <2>2. Leads(ws, w2, asked)
    BY <1>9, <2>1, LeadsOn
  <2>3. Leads(ws, w3, asked)
    BY <1>11, <2>2, LeadsOn
  <2>4. Leads(ws, w4, asked)
    BY <1>14, <2>3, LeadsOn
  <2>5. Leads(ws, w5, asked)
    BY <1>16, <2>4, LeadsOn
  <2>6. (IF answer = "yes" THEN {w5.confirm} ELSE {}) \subseteq asked
    BY <1>17
  <2>7. QED BY <1>18, <2>5, <2>6, LeadsOn
<1>20. /\ w6.quit = FALSE /\ w6.modal = ws.modal
       /\ w6.print = ws.print /\ w6.due = ws.due /\ w6.saved = ws.saved
  BY <1>19 DEF Leads
<1> HIDE DEF w6
<1>21. /\ AtRest(ws')
       /\ \A p : Alive(w6, p) => /\ p \in Open(ws')
                                 /\ ws'.quit => answer = "quit" \/ w6.modal = 1
  <2> DEFINE q == QuitAnswered(QuitDecided(w6), answer)
             s == Reclosed(IF q.quit THEN Stored(q) ELSE q)
  <2>1. Settled(w5, answer) = Activated([s EXCEPT !.strips = Revalidated(s.strips)])
    BY DEF Settled, w6
  <2>2. QED BY <1>1, <1>3, <1>18, <1>20, <2>1, FrameEnds
<1>22. ASSUME NEW p \in Open(ws), Runs(ws, p), p \notin Open(ws') \/ ws'.quit
       PROVE  p \in agreed'
  <2>1. CASE p \in asked
    BY <1>4, <2>1
  <2>2. CASE p \notin asked
    <3>1. Alive(ws, p)
      BY <1>1, <1>22 DEF Alive, Runs
    <3>2. Alive(w6, p)
      BY <1>19, <2>2, <3>1 DEF Leads
    <3>3. answer = "quit" \/ ws.modal = 1
      BY <1>20, <1>21, <1>22, <3>2
    <3>4. QED BY <1>4, <3>3
  <2>3. QED BY <2>1, <2>2
<1>23. QED BY <1>21, <1>22 DEF KillsOnlyAsked

\* One of the choices of WsNext is such a frame.
LEMMA NextRests ==
  ASSUME QuitFrames \in Nat \ {0}, AtRest(ws), WsNext
  PROVE  AtRest(ws') /\ KillsOnlyAsked
<1>1. ws.quit = FALSE
  BY DEF WsNext, AtRest, Sound
<1>2. PICK event \in {Nothing} \cup Also(Happens, 0) :
      \E mouse \in {NoMouse} \cup Also(Mice, Is(event, Nothing)) :
      LET n == Is(event, Nothing) + Is(mouse, NoMouse)
      IN  \E key \in {"none"} \cup Also(KeyActions, n) :
          \E answer \in {"none"} \cup Also(Answers, n + Is(key, "none")),
             spawn \in {"row"} \cup Spawns(mouse, key) :
            Frame(event, mouse, key, answer, spawn)
  BY Zenon DEF WsNext
<1>3. PICK mouse \in {NoMouse} \cup Also(Mice, Is(event, Nothing)) :
      LET n == Is(event, Nothing) + Is(mouse, NoMouse)
      IN  \E key \in {"none"} \cup Also(KeyActions, n) :
          \E answer \in {"none"} \cup Also(Answers, n + Is(key, "none")),
             spawn \in {"row"} \cup Spawns(mouse, key) :
            Frame(event, mouse, key, answer, spawn)
  BY <1>2, Zenon
<1> DEFINE n == Is(event, Nothing) + Is(mouse, NoMouse)
<1>4. PICK key \in {"none"} \cup Also(KeyActions, n) :
      \E answer \in {"none"} \cup Also(Answers, n + Is(key, "none")),
         spawn \in {"row"} \cup Spawns(mouse, key) :
        Frame(event, mouse, key, answer, spawn)
  BY <1>3, Zenon
<1>5. PICK answer \in {"none"} \cup Also(Answers, n + Is(key, "none")),
           spawn \in {"row"} \cup Spawns(mouse, key) :
        Frame(event, mouse, key, answer, spawn)
  BY <1>4, Zenon
<1> HIDE DEF n
<1>6. \A S, x : Also(S, x) \subseteq S
  BY DEF Also
<1>7. event \in {Nothing} \cup Happens
  BY <1>2, <1>6
<1>8. event.what \in {"exit", "alt"} => event.p \in Open(ws) /\ ~ws.panes[event.p].dead
  BY <1>7 DEF Nothing, Happens
<1>9. mouse \in {NoMouse} \cup Mice
  BY <1>3, <1>6
<1>10. /\ mouse.at \in {"none", "click", "x", "plus", "drag"}
       /\ mouse.at # "none" => mouse.p \in Tiles(ws)
  BY <1>9 DEF NoMouse, Mice, Mouse
<1>11. key # "none" => /\ ws.keys \in Open(ws)
                       /\ key \in {"NewTab", "NextTab", "PrevTab", "CloseTab", "Quit", "Restart"}
  <2>1. key # "none" => key \in KeyActions
    BY <1>4, <1>6
  <2>2. QED BY <2>1 DEF KeyActions
<1>12. answer = "yes" => ws.confirm # 0
  <2>1. answer # "none" => answer \in Answers
    BY <1>5, <1>6
  <2>2. QED BY <2>1 DEF Answers
<1>13. Inputs(event, mouse, key, answer)
  BY <1>8, <1>10, <1>11, <1>12 DEF Inputs
<1>14. QED BY <1>1, <1>5, <1>13, FrameRests

\* A window that is launched, or restored, on a tree without fault is at rest.
LEMMA LaunchedRests ==
  ASSUME NEW strips, IsTree(strips), NEW n \in Nat, TilesOf(strips) = 1..n,
         \A c \in DOMAIN strips : /\ strips[c].tabs # <<>>
                                  /\ Contains(strips[c].tabs, strips[c].active),
         NEW dead \in BOOLEAN
  PROVE  AtRest(Launched([i \in 1..n |-> Slot(TRUE, dead)], strips))
<1> DEFINE slots == [i \in 1..n |-> Slot(TRUE, dead)]
           w == Launched(slots, strips)
<1>1. /\ Slot(TRUE, dead) \in Slots /\ ~Slot(TRUE, dead).alt /\ ~Slot(TRUE, dead).exited
  BY DEF Slot, Slots
<1>2. /\ slots \in [1..n -> Slots] /\ DOMAIN slots = 1..n
      /\ \A i \in 1..n : slots[i] = Slot(TRUE, dead)
  BY <1>1
<1>3. Cardinality(1..n) = n
  BY FS_Interval
<1> HIDE DEF slots
<1>4. /\ IsWindow(w) /\ w.panes = slots /\ w.strips = strips /\ w.nextId = n + 1
      /\ w.closes = {} /\ w.confirm = 0 /\ w.quitReq = FALSE /\ w.modal = 0 /\ w.quit = FALSE
      /\ w.print = <<>> /\ w.due = FALSE
  BY <1>2, <1>3 DEF Launched, IsWindow
<1> HIDE DEF w
<1>5. Open(w) = 1..n
  BY <1>2, <1>4 DEF Open
<1>6. Sound(w)
  <2>1. w.panes \in [Open(w) -> Slots] /\ \A p \in Open(w) : w.panes[p].dead => ~w.panes[p].alt
    BY <1>1, <1>2, <1>4, <1>5
  <2>2. \A p \in Open(w) : p \in Nat /\ p < w.nextId
    BY <1>4, <1>5
  <2>3. /\ IsTree(w.strips) /\ TilesOf(w.strips) \subseteq Open(w)
        /\ \A c \in DOMAIN w.strips : w.strips[c].tabs # <<>>
    BY <1>4, <1>5
  <2>4. w.nextId \in Nat \ {0} /\ w.confirm \in Nat /\ w.confirm < w.nextId /\ w.modal \in Nat
    BY <1>4
  <2>5. w.quitReq \in BOOLEAN /\ w.quit \in BOOLEAN /\ w.due \in BOOLEAN
    BY <1>4
  <2>6. QED BY <1>4, <2>1, <2>2, <2>3, <2>4, <2>5, Zenon DEF Sound
<1>7. Doomed(w)
  BY <1>1, <1>2, <1>4, <1>5 DEF Doomed
<1>8. AtRest(w)
  BY <1>4, <1>5, <1>6, <1>7 DEF AtRest
<1>9. QED BY <1>8 DEF w, slots

LEMMA InitRests == WsInit => AtRest(ws)
<1> SUFFICES ASSUME WsInit PROVE AtRest(ws)
  OBVIOUS
<1> DEFINE one == <<Strip(<<1>>)>>
           three == <<Strip(<<1, 2, 3>>)>>
           two == <<Strip(<<3>>), Strip(<<1, 2>>)>>
<1>1. /\ Strip(<<1>>) = [tabs |-> <<1>>, active |-> 1]
      /\ Strip(<<3>>) = [tabs |-> <<3>>, active |-> 3]
      /\ Strip(<<1, 2>>) = [tabs |-> <<1, 2>>, active |-> 1]
      /\ Strip(<<1, 2, 3>>) = [tabs |-> <<1, 2, 3>>, active |-> 1]
  BY DEF Strip
<1>2. /\ ToSet(<<1>>) = {1} /\ ToSet(<<3>>) = {3} /\ ToSet(<<1, 2>>) = {1, 2}
      /\ ToSet(<<1, 2, 3>>) = {1, 2, 3}
  BY DEF ToSet
<1>3. /\ Contains(<<1>>, 1) /\ Contains(<<3>>, 3) /\ Contains(<<1, 2>>, 1)
      /\ Contains(<<1, 2, 3>>, 1)
  BY DEF Contains
<1>4. /\ Strip(<<1>>) \in Strips /\ Strip(<<3>>) \in Strips /\ Strip(<<1, 2>>) \in Strips
      /\ Strip(<<1, 2, 3>>) \in Strips
  <2>1. /\ <<1>> \in Seq(Nat) /\ <<3>> \in Seq(Nat) /\ <<1, 2>> \in Seq(Nat)
        /\ <<1, 2, 3>> \in Seq(Nat)
    OBVIOUS
  <2>2. \A t \in Seq(Nat), a \in Nat : [tabs |-> t, active |-> a] \in Strips
    BY DEF Strips
  <2>3. 1 \in Nat /\ 3 \in Nat
    OBVIOUS
  <2>4. QED BY <1>1, <2>1, <2>2, <2>3
<1>5. /\ IsTree(one) /\ TilesOf(one) = 1..1
      /\ \A c \in DOMAIN one : one[c].tabs # <<>> /\ Contains(one[c].tabs, one[c].active)
  <2>1. DOMAIN one = {1} /\ one[1] = Strip(<<1>>)
    OBVIOUS
  <2>2. one \in Seq(Strips)
    BY <1>4
  <2>3. NoTabTwice(one)
    BY <1>1, <2>1 DEF NoTabTwice
  <2>4. TilesOf(one) = {1}
    BY <1>1, <1>2, <2>1 DEF TilesOf
  <2>5. QED BY <1>1, <1>3, <2>1, <2>2, <2>3, <2>4 DEF IsTree
<1>6. /\ IsTree(three) /\ TilesOf(three) = 1..3
      /\ \A c \in DOMAIN three : three[c].tabs # <<>> /\ Contains(three[c].tabs, three[c].active)
  <2>1. DOMAIN three = {1} /\ three[1] = Strip(<<1, 2, 3>>)
    OBVIOUS
  <2>2. three \in Seq(Strips)
    BY <1>4
  <2>3. NoTabTwice(three)
    BY <1>1, <2>1 DEF NoTabTwice
  <2>4. TilesOf(three) = {1, 2, 3}
    BY <1>1, <1>2, <2>1 DEF TilesOf
  <2>5. QED BY <1>1, <1>3, <2>1, <2>2, <2>3, <2>4 DEF IsTree
<1>7. /\ IsTree(two) /\ TilesOf(two) = 1..3
      /\ \A c \in DOMAIN two : two[c].tabs # <<>> /\ Contains(two[c].tabs, two[c].active)
  <2>1. DOMAIN two = {1, 2} /\ two[1] = Strip(<<3>>) /\ two[2] = Strip(<<1, 2>>)
    OBVIOUS
  <2>2. two \in Seq(Strips)
    BY <1>4
  <2>3. NoTabTwice(two)
    BY <1>1, <2>1 DEF NoTabTwice
  <2>4. TilesOf(two) = {1, 2, 3}
    BY <1>1, <1>2, <2>1 DEF TilesOf
  <2>5. QED BY <1>1, <1>3, <2>1, <2>2, <2>3, <2>4 DEF IsTree
<1> HIDE DEF one, two, three
<1>8. /\ AtRest(Launched([i \in 1..1 |-> Slot(TRUE, FALSE)], one))
      /\ AtRest(Launched([i \in 1..3 |-> Slot(TRUE, TRUE)], three))
      /\ AtRest(Launched([i \in 1..3 |-> Slot(TRUE, TRUE)], two))
  BY <1>5, <1>6, <1>7, LaunchedRests
<1>9. ASSUME NEW strips
      PROVE  Restored(strips) = Launched([i \in TilesOf(strips) |-> Slot(TRUE, TRUE)], strips)
  BY DEF Restored, TilesOf
<1>10. 1..1 = {1}
  OBVIOUS
<1>11. QED BY <1>5, <1>6, <1>7, <1>8, <1>9, <1>10 DEF WsInit, one, two, three

\* The window is at rest between any two frames.
LEMMA WindowRests ==
  ASSUME QuitFrames \in Nat \ {0}
  PROVE  WsSpec => []Window
<1>1. WsInit => Window
  BY InitRests DEF Window
<1>2. Window /\ [WsNext]_wsVars => Window'
  <2>1. CASE WsNext
    BY <2>1, NextRests DEF Window
  <2>2. CASE UNCHANGED wsVars
    BY <2>2 DEF Window, wsVars
  <2>3. QED BY <2>1, <2>2
<1>3. QED BY <1>1, <1>2, PTL DEF WsSpec

-----------------------------------------------------------------------------
\* Every pane that is open has one tab, and every strip shows one that is its
\* own: no sequence of closes, drags, exits, new tabs and restarts leaves a
\* strip that paints nothing, a pane out of reach or a request to close a pane
\* that never was (app.rs, close_tiles, revalidate_tabs_active and the removal of
\* slots without a tile).
THEOREM TabsStayShown ==
  ASSUME QuitFrames \in Nat \ {0}
  PROVE  WsSpec => []EveryStripShowsItsOwn
<1>1. Window => EveryStripShowsItsOwn
  BY DEF Window, AtRest, Sound, IsTree, EveryStripShowsItsOwn, Tiles, TilesOf
<1>2. QED BY <1>1, WindowRests, PTL

\* No change of tabs, of their order, of the tab a strip shows or of the rows of
\* the panes is left unsaved once no save is due (app.rs, layout_fingerprint and
\* debounce_decide).
THEOREM LayoutIsSaved ==
  ASSUME QuitFrames \in Nat \ {0}
  PROVE  WsSpec => []NoUnsavedLayout
<1>1. Window => NoUnsavedLayout
  BY DEF Window, AtRest, NoUnsavedLayout
<1>2. QED BY <1>1, WindowRests, PTL

\* No frame closes a pane, or the window, over a program on the alternate screen
\* unless that program ended or somebody agreed to it, whatever else the frame
\* holds (app.rs, the two modals and the auto-close of exited panes).
THEOREM ProgramsCloseWhenAsked ==
  ASSUME QuitFrames \in Nat \ {0}
  PROVE  WsSpec => NoProgramKilledUnasked
<1>1. Window /\ [WsNext]_wsVars => [KillsOnlyAsked]_wsVars
  BY NextRests DEF Window
<1>2. QED BY <1>1, WindowRests, PTL DEF WsSpec, NoProgramKilledUnasked
=============================================================================
