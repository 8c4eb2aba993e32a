--------------------------- MODULE PanePartsProofs ---------------------------
(***************************************************************************)
(* What is proved of a pane's parts: its editor, size, keys, view and find.*)
(*                                                                         *)
(* The editor: carets are on character boundaries now and in every         *)
(* snapshot, which needs that texts are well-formed strings and that every *)
(* position the editor computes is a boundary; and the undo stack covers   *)
(* every edit, which needs that a run of single characters that may share  *)
(* an entry has that entry, and nothing to redo (Coalesces).               *)
(*                                                                         *)
(* The sizes of a pane are right for every window, debounce and number of  *)
(* changes, when the window is not smaller than a dead pane's panel and    *)
(* the pane does not change within a debounce of a restart.  What a frame  *)
(* commits to is what the terminal was given (Given), what is awaited has  *)
(* been wanted for as long as it is old (Waited), and a frame that asks    *)
(* for no other size has committed to its own (Asked).  A restart breaks   *)
(* the first of these, and the size of a dead pane differs from the live   *)
(* one's, so the first frame mends it (Restarted).                         *)
(*                                                                         *)
(* The keyboard: one pane reads a frame's keys at most (OneReads), because *)
(* what is up in one pane keeps the other from having anything up or       *)
(* asking for the focus (Poised), and a quiet pane leaves the keys alone   *)
(* (QuietIs). The reader's log has each key once and a program's in their  *)
(* order (Neat): chords, what is copied and the wheel come before the loop *)
(* (Before), the loop adds the entry of its own key or none (Looped), and  *)
(* an overlay that is up adds only keys that the others left (Calm).       *)
(*                                                                         *)
(* The view: blocks are one below the other (Layout, by induction over the *)
(* heights, Column), so one block at most is at the top and its header ends*)
(* before the next (PinnedIs). Pages overlap by what a header may cover    *)
(* (PagesOverlap), and the jump to a match leaves room for the header, or  *)
(* the header shows the row (MatchIsInView).                               *)
(*                                                                         *)
(* Find: what one line adds is found column by column from its end         *)
(* (RangesAreFound), the lines are in document order and the matches, too, *)
(* with no two at a place (LinesFollow, MatchesAre). The bright match is   *)
(* the selected one of all there are now (MatchHeld), and a block that is  *)
(* sealed adds matches behind the others (SealAddsMatches). A walk stands  *)
(* on an entry (OnItsWalk), and the history is shorter than what was asked *)
(* (Remembers), so it does not come to its limit.                          *)
(***************************************************************************)
EXTENDS PromptEditor, PaneSize, KeyRouting, PaneView, Find, SublistProofs, SequenceTheorems
-----------------------------------------------------------------------------
\* Well-formed texts and their boundaries

Bytes == {"w", "s", "n", "L", "C"}
Texts == {t \in Seq(Bytes) : WellFormed(t)}
Pasteable == {t \in Seq(Bytes \cup {"x"}) : WellFormed(t)}

\* The greatest of a bounded set of numbers.
LEMMA MaxOf ==
  ASSUME NEW S \in SUBSET Nat, S # {}, NEW n \in Nat, \A k \in S : k <= n
  PROVE  Max(S) \in S /\ \A k \in S : k <= Max(S)
<1> DEFINE T == {n - k : k \in S}
<1>1. T \in SUBSET Nat /\ T # {}
  <2>1. PICK x \in S : TRUE
    OBVIOUS
  <2>2. n - x \in T
    OBVIOUS
  <2>3. \A k \in S : n - k \in Nat
    OBVIOUS
  <2>4. QED BY <2>2, <2>3
<1>2. PICK m \in T : \A k \in T : m <= k
  BY <1>1, Least
<1>3. PICK x \in S : m = n - x
  BY <1>2
<1>4. \A y \in S : x >= y
  <2> TAKE y \in S
  <2>1. n - y \in T
    OBVIOUS
  <2>2. QED BY <2>1, <1>2, <1>3
<1>5. QED BY <1>3, <1>4 DEF Max

\* The least of a set of numbers.
LEMMA MinOf ==
  ASSUME NEW S \in SUBSET Nat, S # {}
  PROVE  Min(S) \in S /\ \A k \in S : Min(S) <= k
<1>1. PICK m \in S : \A k \in S : m <= k
  BY Least
<1>2. \A y \in S : m =< y
  BY <1>1
<1>3. QED BY <1>1, <1>2 DEF Min

\* The ends of a text are boundaries, and a boundary is a place of the text.
LEMMA Ends ==
  ASSUME NEW t \in Texts
  PROVE  /\ IsBoundary(t, 0) /\ IsBoundary(t, Len(t)) /\ Len(t) \in Nat
         /\ \A i : IsBoundary(t, i) => i \in Nat /\ i <= Len(t)
         /\ Boundaries(t) \in SUBSET Nat
         /\ \A i : i \in Boundaries(t) <=> IsBoundary(t, i)
<1>1. t \in Seq(Bytes) /\ Len(t) \in Nat /\ WellFormed(t)
  BY DEF Texts
<1>2. Len(t) > 0 => t[1] # "C"
  <2> SUFFICES ASSUME Len(t) > 0, t[1] = "C" PROVE FALSE
    OBVIOUS
  <2>1. 1 \in 1..Len(t)
    BY <1>1
  <2>2. QED BY <1>1, <2>1 DEF WellFormed
<1>3. QED BY <1>1, <1>2 DEF IsBoundary, Boundaries

\* An entry of a text that follows one byte of a character.
LEMMA Follows ==
  ASSUME NEW t \in Texts, NEW i \in 1..Len(t)
  PROVE  t[i] \in Bytes /\ (t[i] = "C" => i - 1 \in 1..Len(t) /\ t[i - 1] = "L")
BY DEF Texts, WellFormed

\* Behind a byte that begins no longer character is a boundary.
LEMMA BehindShort ==
  ASSUME NEW t \in Texts, NEW i \in 1..Len(t), t[i] # "L"
  PROVE  IsBoundary(t, i)
<1>1. t \in Seq(Bytes) /\ Len(t) \in Nat /\ i \in Nat /\ i <= Len(t)
  BY DEF Texts
<1>2. ASSUME i < Len(t), t[i + 1] = "C" PROVE FALSE
  <2>1. PICK j \in 1..Len(t) : j = i + 1
    BY <1>1, <1>2
  <2>2. j - 1 = i
    BY <2>1, <1>1
  <2>3. t[j - 1] = "L"
    BY <2>1, <1>2, Follows
  <2>4. QED BY <2>2, <2>3
<1>3. QED BY <1>1, <1>2 DEF IsBoundary

\* Where the cursor goes: clamped, to the character before or behind.
LEMMA ClampedOnBoundary ==
  ASSUME NEW t \in Texts, NEW i \in Nat
  PROVE  IsBoundary(t, Clamped(t, i)) /\ Clamped(t, i) <= i
<1> DEFINE S == {k \in Boundaries(t) : k <= i}
<1>1. S \in SUBSET Nat /\ 0 \in S /\ \A k \in S : k <= i
  BY Ends
<1>2. Max(S) \in S
  <2> HIDE DEF S
  <2>1. QED BY <1>1, MaxOf
<1>3. QED BY <1>2, Ends DEF Clamped

LEMMA PrevOnBoundary ==
  ASSUME NEW t \in Texts, NEW i \in Nat
  PROVE  /\ IsBoundary(t, PrevBoundary(t, i))
         /\ i > 0 => PrevBoundary(t, i) < i
         /\ i = 0 => PrevBoundary(t, i) = 0
<1> DEFINE S == {k \in Boundaries(t) : k < i} \cup {0}
<1>1. S \in SUBSET Nat /\ S # {} /\ \A k \in S : k <= i
  BY Ends
<1>2. Max(S) \in S
  <2> HIDE DEF S
  <2>1. QED BY <1>1, MaxOf
<1>3. QED BY <1>2, Ends DEF PrevBoundary

LEMMA NextOnBoundary ==
  ASSUME NEW t \in Texts, NEW i \in Nat, i <= Len(t)
  PROVE  IsBoundary(t, NextBoundary(t, i)) /\ i <= NextBoundary(t, i)
<1> DEFINE S == {k \in Boundaries(t) : k > i} \cup {Len(t)}
<1>1. S \in SUBSET Nat /\ S # {}
  BY Ends
<1>2. Min(S) \in S
  <2> HIDE DEF S
  <2>1. QED BY <1>1, MinOf
<1>3. QED BY <1>2, Ends DEF NextBoundary

\* A class of bytes that does not split a character.
Whole(class) == "L" \in class <=> "C" \in class

\* As far back as a class goes is a boundary.
LEMMA BackOnBoundary ==
  ASSUME NEW t \in Texts, NEW i, IsBoundary(t, i), NEW class, Whole(class)
  PROVE  /\ IsBoundary(t, Back(t, i, class)) /\ Back(t, i, class) <= i
         /\ (i > 0 => t[i] \notin class) => Back(t, i, class) = i
<1> DEFINE S == {k \in 0..i : \A j \in k + 1..i : t[j] \in class}
           b == Back(t, i, class)
<1>1. i \in Nat /\ i <= Len(t) /\ Len(t) \in Nat /\ IsBoundary(t, 0)
  BY Ends
<1>2. S \in SUBSET Nat /\ i \in S
  BY <1>1
<1>3. b \in S /\ \A k \in S : b <= k
  <2> HIDE DEF S
  <2>1. Min(S) \in S /\ \A k \in S : Min(S) <= k
    BY <1>2, MinOf
  <2>2. b = Min(S)
    BY DEF Back, S
  <2>3. QED BY <2>1, <2>2
<1> HIDE DEF b
<1>4. ASSUME b < i, t[b + 1] = "C" PROVE FALSE
  <2>1. b + 1 \in 1..Len(t) /\ b + 1 \in b + 1..i
    BY <1>1, <1>3, <1>4
  <2>2. b \in 1..Len(t) /\ t[b] = "L" /\ "L" \in class
    <3>1. b + 1 - 1 = b
      BY <1>3
    <3>2. QED BY <2>1, <3>1, <1>3, <1>4, Follows DEF Whole
  <2>3. b - 1 \in 0..i
    BY <2>2, <1>1, <1>4
  <2>4. \A j \in (b - 1) + 1..i : t[j] \in class
    <3> TAKE j \in (b - 1) + 1..i
    <3>1. j = b \/ j \in b + 1..i
      BY <2>2, <1>1
    <3>2. QED BY <3>1, <2>2, <1>3
  <2>5. b - 1 \in S
    BY <2>3, <2>4
  <2>6. QED BY <2>5, <1>3
<1>5. IsBoundary(t, b)
  BY <1>1, <1>3, <1>4 DEF IsBoundary
<1>6. ASSUME i > 0 => t[i] \notin class PROVE b = i
  <2>1. ASSUME b < i PROVE FALSE
    <3>1. i \in b + 1..i /\ i > 0
      BY <1>1, <1>3, <2>1
    <3>2. QED BY <3>1, <1>3, <1>6
  <2>2. QED BY <2>1, <1>1, <1>3
<1>7. QED BY <1>3, <1>5, <1>6, <1>1 DEF b

\* As far forward as a class goes is a boundary, and what is behind it is not
\* of the class.
LEMMA AheadOnBoundary ==
  ASSUME NEW t \in Texts, NEW i, IsBoundary(t, i), NEW class, Whole(class)
  PROVE  /\ IsBoundary(t, Ahead(t, i, class)) /\ i <= Ahead(t, i, class)
         /\ Ahead(t, i, class) < Len(t) => t[Ahead(t, i, class) + 1] \notin class
<1> DEFINE S == {k \in i..Len(t) : \A j \in i + 1..k : t[j] \in class}
           a == Ahead(t, i, class)
<1>1. i \in Nat /\ i <= Len(t) /\ Len(t) \in Nat
  BY Ends
<1>2. S \in SUBSET Nat /\ i \in S /\ \A k \in S : k <= Len(t)
  BY <1>1
<1>3. a \in S /\ \A k \in S : k <= a
  <2> HIDE DEF S
  <2>1. Max(S) \in S /\ \A k \in S : k <= Max(S)
    BY <1>1, <1>2, MaxOf
  <2>2. a = Max(S)
    BY DEF Ahead, S
  <2>3. QED BY <2>1, <2>2
<1> HIDE DEF a
<1>4. ASSUME a < Len(t), t[a + 1] \in class PROVE FALSE
  <2>1. a + 1 \in i..Len(t)
    BY <1>1, <1>3, <1>4
  <2>2. \A j \in i + 1..a + 1 : t[j] \in class
    <3> TAKE j \in i + 1..a + 1
    <3>1. j = a + 1 \/ j \in i + 1..a
      BY <1>1, <1>3
    <3>2. QED BY <3>1, <1>3, <1>4
  <2>3. a + 1 \in S
    BY <2>1, <2>2
  <2>4. QED BY <2>3, <1>1, <1>3
<1>5. ASSUME a < Len(t), t[a + 1] = "C" PROVE FALSE
  <2>1. a + 1 \in 1..Len(t) /\ a + 1 - 1 = a
    BY <1>1, <1>3, <1>5
  <2>2. a \in 1..Len(t) /\ t[a] = "L" /\ "C" \notin class
    <3>1. "C" \notin class
      BY <1>4, <1>5
    <3>2. a \in 1..Len(t) /\ t[a] = "L"
      BY <2>1, <1>1, <1>3, <1>5, Follows
    <3>3. QED BY <3>1, <3>2
  <2>3. a # i
    BY <1>5 DEF IsBoundary
  <2>4. a \in i + 1..a
    BY <1>1, <1>3, <2>3
  <2>5. t[a] \in class
    BY <2>4, <1>3
  <2>6. "L" \in class => "C" \in class
    BY DEF Whole
  <2>7. QED BY <2>2, <2>5, <2>6
<1>6. QED BY <1>1, <1>3, <1>4, <1>5 DEF IsBoundary, a

\* No class of the editor's splits a character.
LEMMA Classes == Whole(Word) /\ Whole(Sep) /\ Whole(Word \cup {"s"})
BY DEF Whole, Word, Sep

\* Word and line motions end on boundaries, on their side of the caret.
LEMMA WordsOnBoundaries ==
  ASSUME NEW t \in Texts, NEW i, IsBoundary(t, i)
  PROVE  /\ IsBoundary(t, WordLeft(t, i)) /\ WordLeft(t, i) <= i
         /\ IsBoundary(t, WordRight(t, i)) /\ i <= WordRight(t, i)
         /\ IsBoundary(t, WordRangeAt(t, i)[1]) /\ IsBoundary(t, WordRangeAt(t, i)[2])
<1>1. /\ IsBoundary(t, Back(t, i, Sep)) /\ Back(t, i, Sep) <= i
      /\ IsBoundary(t, Ahead(t, i, Sep)) /\ i <= Ahead(t, i, Sep)
  BY Classes, BackOnBoundary, AheadOnBoundary
<1>2. /\ IsBoundary(t, WordLeft(t, i)) /\ WordLeft(t, i) <= Back(t, i, Sep)
      /\ IsBoundary(t, WordRight(t, i)) /\ Ahead(t, i, Sep) <= WordRight(t, i)
  BY <1>1, Classes, BackOnBoundary, AheadOnBoundary DEF WordLeft, WordRight
<1>3. IsBoundary(t, Back(t, i, Word)) /\ IsBoundary(t, Ahead(t, i, Word))
  BY Classes, BackOnBoundary, AheadOnBoundary
<1>4. /\ i \in Nat /\ WordLeft(t, i) \in Nat /\ Back(t, i, Sep) \in Nat
      /\ WordRight(t, i) \in Nat /\ Ahead(t, i, Sep) \in Nat
  BY <1>1, <1>2, Ends
<1>5. WordRangeAt(t, i)[1] = Back(t, i, Word) /\ WordRangeAt(t, i)[2] = Ahead(t, i, Word)
  BY DEF WordRangeAt
<1>6. QED BY <1>1, <1>2, <1>3, <1>4, <1>5

LEMMA LinesOnBoundaries ==
  ASSUME NEW t \in Texts, NEW i, IsBoundary(t, i)
  PROVE  /\ IsBoundary(t, LineStart(t, i)) /\ LineStart(t, i) <= i
         /\ IsBoundary(t, LineEnd(t, i))
         /\ IsBoundary(t, LineRangeAt(t, i)[1]) /\ IsBoundary(t, LineRangeAt(t, i)[2])
<1> DEFINE end == LineEnd(t, i)
<1>1. /\ IsBoundary(t, LineStart(t, i)) /\ LineStart(t, i) <= i /\ IsBoundary(t, end)
      /\ end < Len(t) => t[end + 1] \notin Word \cup {"s"}
  BY Classes, BackOnBoundary, AheadOnBoundary DEF LineStart, LineEnd
<1>2. end \in Nat /\ end <= Len(t) /\ Len(t) \in Nat
  BY <1>1, Ends
<1> HIDE DEF end
<1>3. Min({end + 1, Len(t)}) \in {end + 1, Len(t)}
      /\ Min({end + 1, Len(t)}) <= Len(t)
  <2> DEFINE S == {end + 1, Len(t)}
  <2>1. S \in SUBSET Nat /\ S # {} /\ Len(t) \in S
    BY <1>2
  <2> HIDE DEF S
  <2>2. Min(S) \in S /\ Min(S) <= Len(t)
    BY <2>1, MinOf
  <2>3. QED BY <2>2 DEF S
<1>4. ASSUME end < Len(t) PROVE IsBoundary(t, end + 1)
  <2>1. end + 1 \in 1..Len(t)
    BY <1>2, <1>4
  <2>2. t[end + 1] = "n"
    BY <1>1, <1>4, <2>1, Follows DEF Bytes, Word
  <2>3. QED BY <2>1, <2>2, BehindShort
<1>5. IsBoundary(t, Min({end + 1, Len(t)}))
  BY <1>2, <1>3, <1>4, Ends
<1>6. LineRangeAt(t, i)[1] = LineStart(t, i) /\ LineRangeAt(t, i)[2] = Min({end + 1, Len(t)})
  BY DEF LineRangeAt, end
<1>7. QED BY <1>1, <1>5, <1>6 DEF end

\* One row more or none at each byte.
LEMMA RowSteps ==
  ASSUME NEW t \in Texts, NEW k \in Nat, k < Len(t)
  PROVE  /\ RowOf(t, k) \in Nat
         /\ RowOf(t, k + 1) = IF t[k + 1] = "n" THEN RowOf(t, k) + 1 ELSE RowOf(t, k)
<1> DEFINE N(i) == {j \in 1..i : t[j] = "n"}
<1>1. IsFiniteSet(N(k)) /\ k + 1 \notin N(k)
  <2>1. IsFiniteSet(1..k)
    BY FS_Interval
  <2>2. QED BY <2>1, FS_Subset
<1>2. N(k + 1) = IF t[k + 1] = "n" THEN N(k) \cup {k + 1} ELSE N(k)
  <2>1. \A j : j \in 1..k + 1 <=> j \in 1..k \/ j = k + 1
    OBVIOUS
  <2>2. CASE t[k + 1] = "n"
    BY <2>1, <2>2
  <2>3. CASE t[k + 1] # "n"
    BY <2>1, <2>3
  <2>4. QED BY <2>2, <2>3
<1> HIDE DEF N
<1>3. Cardinality(N(k)) \in Nat /\ Cardinality(N(k) \cup {k + 1}) = Cardinality(N(k)) + 1
  BY <1>1, FS_CardinalityType, FS_AddElement
<1>4. RowOf(t, k) = Cardinality(N(k)) /\ RowOf(t, k + 1) = Cardinality(N(k + 1))
  BY DEF RowOf, N
<1>5. QED BY <1>2, <1>3, <1>4

\* Rows do not fall as the caret goes on.
LEMMA RowsRise ==
  ASSUME NEW t \in Texts, NEW i \in Nat, NEW k \in Nat, i <= k
  PROVE  RowOf(t, i) \in Nat /\ RowOf(t, k) \in Nat /\ RowOf(t, i) <= RowOf(t, k)
<1> DEFINE N(j) == {l \in 1..j : t[l] = "n"}
<1>1. \A j \in Nat : IsFiniteSet(N(j))
  <2> TAKE j \in Nat
  <2>1. IsFiniteSet(1..j)
    BY FS_Interval
  <2>2. QED BY <2>1, FS_Subset
<1>2. N(i) \subseteq N(k)
  OBVIOUS
<1> HIDE DEF N
<1>3. /\ Cardinality(N(i)) \in Nat /\ Cardinality(N(k)) \in Nat
      /\ Cardinality(N(i)) <= Cardinality(N(k))
  BY <1>1, <1>2, FS_CardinalityType, FS_Subset
<1>4. RowOf(t, i) = Cardinality(N(i)) /\ RowOf(t, k) = Cardinality(N(k))
  BY DEF RowOf, N
<1>5. QED BY <1>3, <1>4

\* Every row up to the last begins on a boundary, at column 0.
LEMMA RowBegins ==
  ASSUME NEW t \in Texts, NEW r \in Nat, r <= RowOf(t, Len(t))
  PROVE  \E k \in Boundaries(t) : RowOf(t, k) = r /\ ColOf(t, k) = 0
<1> DEFINE S == {k \in 0..Len(t) : RowOf(t, k) >= r}
<1>1. Len(t) \in Nat /\ S \in SUBSET Nat /\ Len(t) \in S
  BY Ends
<1>2. PICK k \in S : \A j \in S : k <= j
  BY <1>1, Least
<1>3. k \in Nat /\ k <= Len(t) /\ RowOf(t, k) >= r
  BY <1>1
<1> HIDE DEF S
<1>4. CASE k = 0
  <2>1. RowOf(t, 0) = 0
    <3>1. {j \in 1..0 : t[j] = "n"} = {}
      OBVIOUS
    <3>2. QED BY <3>1, FS_EmptySet DEF RowOf
  <2>2. IsBoundary(t, 0) /\ LineStart(t, 0) \in Nat
    BY Ends, LinesOnBoundaries
  <2>3. {b \in Boundaries(t) : b > LineStart(t, 0) /\ b <= 0} = {}
    BY <2>2, Ends
  <2>4. ColOf(t, 0) = 0
    BY <2>3, FS_EmptySet DEF ColOf
  <2>5. QED BY <1>3, <1>4, <2>1, <2>2, <2>4, Ends
<1>5. CASE k > 0
  <2>1. k - 1 \in Nat /\ k - 1 < Len(t) /\ k - 1 + 1 = k /\ k \in 1..Len(t)
    BY <1>1, <1>3, <1>5
  <2>2. RowOf(t, k - 1) \in Nat /\ RowOf(t, k - 1) < r
    <3>1. RowOf(t, k - 1) \in Nat
      BY <2>1, RowSteps
    <3>2. k - 1 \notin S
      BY <2>1, <1>2
    <3>3. QED BY <2>1, <1>1, <3>1, <3>2 DEF S
  <2>3. RowOf(t, k) = IF t[k] = "n" THEN RowOf(t, k - 1) + 1 ELSE RowOf(t, k - 1)
    BY <2>1, RowSteps
  <2>4. t[k] = "n" /\ RowOf(t, k) = r
    BY <2>2, <2>3, <1>3
  <2>5. IsBoundary(t, k)
    BY <2>1, <2>4, BehindShort
  <2>6. LineStart(t, k) = k
    <3>1. t[k] \notin Word \cup {"s"}
      BY <2>4 DEF Word
    <3>2. QED BY <2>5, <3>1, Classes, BackOnBoundary DEF LineStart
  <2>7. {b \in Boundaries(t) : b > LineStart(t, k) /\ b <= k} = {}
    BY <2>6, <1>3, Ends
  <2>8. ColOf(t, k) = 0
    BY <2>7, FS_EmptySet DEF ColOf
  <2>9. QED BY <2>4, <2>5, <2>8, Ends
<1>6. QED BY <1>3, <1>4, <1>5

\* The place of a row and a column is a boundary.
LEMMA IndexOnBoundary ==
  ASSUME NEW t \in Texts, NEW r \in Nat, r <= RowOf(t, Len(t)), NEW i, IsBoundary(t, i)
  PROVE  IsBoundary(t, IndexAt(t, r, ColOf(t, i)))
<1> DEFINE line == {k \in Boundaries(t) : RowOf(t, k) = r}
           S == {k \in line : ColOf(t, k) <= ColOf(t, i)}
<1>1. ColOf(t, i) \in Nat
  <2> DEFINE B == {k \in Boundaries(t) : k > LineStart(t, i) /\ k <= i}
  <2>1. B \in SUBSET Nat /\ i \in Nat /\ \A k \in B : k <= i
    BY Ends
  <2> HIDE DEF B
  <2>2. IsFiniteSet(B)
    BY <2>1, FS_BoundedSetOfNaturals
  <2>3. Cardinality(B) \in Nat
    BY <2>2, FS_CardinalityType
  <2>4. QED BY <2>3 DEF ColOf, B
<1>2. S \in SUBSET Nat /\ Len(t) \in Nat /\ \A k \in S : k <= Len(t)
  BY Ends
<1>3. S # {}
  <2>1. PICK k \in Boundaries(t) : RowOf(t, k) = r /\ ColOf(t, k) = 0
    BY RowBegins
  <2>2. k \in S
    BY <1>1, <2>1
  <2>3. QED BY <2>2
<1>4. Max(S) \in S
  <2> HIDE DEF S
  <2>1. QED BY <1>2, <1>3, MaxOf
<1>5. QED BY <1>4, Ends DEF IndexAt

-----------------------------------------------------------------------------
\* Cutting and joining well-formed texts

\* The beginning of a text is a text, and so is the rest from a boundary on.
LEMMA Pieces ==
  ASSUME NEW t \in Texts, NEW k \in Nat, NEW m \in Nat, k <= m, m <= Len(t), IsBoundary(t, k)
  PROVE  /\ SubSeq(t, k + 1, m) \in Texts
         /\ Len(SubSeq(t, k + 1, m)) = m - k
<1> DEFINE s == SubSeq(t, k + 1, m)
<1>1. t \in Seq(Bytes) /\ Len(t) \in Nat
  BY DEF Texts
<1>2. s \in Seq(Bytes) /\ Len(s) = m - k /\ \A i \in 1..Len(s) : s[i] = t[k + i]
  <2>1. \A i \in k + 1..m : t[i] \in Bytes
    BY <1>1
  <2>2. s \in Seq(Bytes) /\ Len(s) = IF k + 1 <= m THEN m - (k + 1) + 1 ELSE 0
    BY <2>1, SubSeqProperties
  <2>3. \A i \in 1..Len(s) : s[i] = t[k + i]
    BY <1>1, <2>2
  <2>4. QED BY <2>2, <2>3
<1> HIDE DEF s
<1>3. ASSUME NEW i \in 1..Len(s), s[i] = "C" PROVE i > 1 /\ s[i - 1] = "L"
  <2>1. PICK j \in 1..Len(t) : j = k + i
    BY <1>1, <1>2
  <2>2. j - 1 \in 1..Len(t) /\ t[j - 1] = "L"
    BY <1>2, <1>3, <2>1, Follows
  <2>3. i > 1
    <3>1. ASSUME i = 1 PROVE FALSE
      <4>1. k < Len(t) /\ t[k + 1] = "C"
        BY <1>1, <1>2, <1>3, <3>1
      <4>2. QED BY <4>1 DEF IsBoundary
    <3>2. QED BY <3>1, <1>2
  <2>4. PICK h \in 1..Len(s) : h = i - 1
    BY <2>3, <1>2
  <2>5. k + h = j - 1
    BY <2>1, <2>4, <1>2
  <2>6. s[h] = "L"
    BY <1>2, <2>2, <2>5
  <2>7. QED BY <2>3, <2>4, <2>6
<1>4. QED BY <1>2, <1>3 DEF Texts, WellFormed, s

\* Two texts joined are a text, with a boundary where they meet.
LEMMA Joined ==
  ASSUME NEW s \in Texts, NEW t \in Texts
  PROVE  /\ s \o t \in Texts /\ IsBoundary(s \o t, Len(s))
         /\ Len(s \o t) = Len(s) + Len(t)
<1> DEFINE u == s \o t
<1>1. /\ s \in Seq(Bytes) /\ t \in Seq(Bytes) /\ Len(s) \in Nat /\ Len(t) \in Nat
      /\ u \in Seq(Bytes) /\ Len(u) = Len(s) + Len(t)
      /\ \A i \in 1..Len(s) : u[i] = s[i]
      /\ \A i \in 1..Len(t) : u[Len(s) + i] = t[i]
  BY DEF Texts
<1> HIDE DEF u
<1>2. ASSUME NEW i \in 1..Len(u), u[i] = "C" PROVE i > 1 /\ u[i - 1] = "L"
  <2>1. CASE i <= Len(s)
    <3>1. i \in 1..Len(s) /\ s[i] = "C"
      BY <1>1, <1>2, <2>1
    <3>2. i - 1 \in 1..Len(s) /\ s[i - 1] = "L"
      BY <3>1, Follows
    <3>3. QED BY <1>1, <3>1, <3>2
  <2>2. CASE i > Len(s)
    <3>1. PICK j \in 1..Len(t) : i = Len(s) + j
      <4>1. i - Len(s) \in 1..Len(t) /\ i = Len(s) + (i - Len(s))
        BY <1>1, <2>2
      <4>2. QED BY <4>1
    <3>2. t[j] = "C"
      BY <1>1, <1>2, <3>1
    <3>3. PICK h \in 1..Len(t) : h = j - 1 /\ t[h] = "L"
      BY <3>2, Follows
    <3>4. u[Len(s) + h] = "L" /\ Len(s) + h = i - 1
      BY <1>1, <3>1, <3>3
    <3>5. QED BY <1>1, <3>3, <3>4
  <2>3. QED BY <2>1, <2>2, <1>1
<1>3. u \in Texts
  BY <1>1, <1>2 DEF Texts, WellFormed
<1>4. ASSUME Len(s) < Len(u), u[Len(s) + 1] = "C" PROVE FALSE
  <2>1. 1 \in 1..Len(t) /\ t[1] = "C"
    BY <1>1, <1>4
  <2>2. 1 - 1 \in 1..Len(t)
    BY <2>1, Follows
  <2>3. QED BY <2>2
<1>5. IsBoundary(u, Len(s))
  BY <1>1, <1>4 DEF IsBoundary
<1>6. QED BY <1>1, <1>3, <1>5 DEF u

\* A text put in the place of another between two boundaries: the caret behind
\* it is on a boundary.
LEMMA Spliced ==
  ASSUME NEW t \in Texts, NEW from, NEW to, IsBoundary(t, from), IsBoundary(t, to),
         NEW s \in Texts
  PROVE  /\ Splice(t, from, to, s) \in Texts
         /\ IsBoundary(Splice(t, from, to, s), from + Len(s))
<1> DEFINE a == SubSeq(t, 1, from)
           c == SubSeq(t, to + 1, Len(t))
<1>1. /\ from \in Nat /\ to \in Nat /\ from <= Len(t) /\ to <= Len(t) /\ Len(t) \in Nat
      /\ IsBoundary(t, 0)
  BY Ends
<1>2. a \in Texts /\ Len(a) = from
  <2>1. SubSeq(t, 0 + 1, from) \in Texts /\ Len(SubSeq(t, 0 + 1, from)) = from - 0
    BY <1>1, Pieces
  <2>2. QED BY <2>1, <1>1
<1>3. c \in Texts
  BY <1>1, Pieces
<1>4. s \in Seq(Bytes) /\ a \in Seq(Bytes) /\ c \in Seq(Bytes) /\ Len(s) \in Nat
  BY <1>2, <1>3 DEF Texts
<1>5. Splice(t, from, to, s) = (a \o s) \o c
  BY DEF Splice
<1> HIDE DEF a, c
<1>7. a \o s \in Texts /\ Len(a \o s) = from + Len(s)
  BY <1>2, Joined
<1>8. (a \o s) \o c \in Texts /\ IsBoundary((a \o s) \o c, from + Len(s))
  <2>1. (a \o s) \o c \in Texts /\ IsBoundary((a \o s) \o c, Len(a \o s))
    BY <1>3, <1>7, Joined
  <2>2. QED BY <2>1, <1>7
<1>9. QED BY <1>5, <1>8

\* What is left of a pasted text without its control characters is a text.
LEMMA PastedIsText ==
  ASSUME NEW s \in Pasteable
  PROVE  Keep(s, {i \in 1..Len(s) : s[i] # "x"}) \in Texts
<1> DEFINE places == {i \in 1..Len(s) : s[i] # "x"}
           kept == Keep(s, places)
<1>1. s \in Seq(Bytes \cup {"x"}) /\ Len(s) \in Nat /\ WellFormed(s)
  BY DEF Pasteable
<1>2. kept \in Seq(Bytes \cup {"x"})
  <2> HIDE DEF places
  <2>1. QED BY <1>1, KeepType
<1>3. PICK from : KeptFrom(from, s, places)
  <2> HIDE DEF places
  <2>1. QED BY <1>1, KeepPlaces
<1> DEFINE N == Len(kept)
<1>4. /\ \A k \in 1..N : from[k] \in 1..Len(s) /\ s[from[k]] # "x" /\ kept[k] = s[from[k]]
      /\ \A j, k \in 1..N : j < k => from[j] < from[k]
      /\ \A n \in 1..Len(s) : s[n] # "x" => \E k \in 1..N : from[k] = n
      /\ N \in Nat
  <2>1. N \in Nat
    BY <1>2
  <2>2. /\ \A k \in 1..N : from[k] \in 1..Len(s) \cap places /\ kept[k] = s[from[k]]
        /\ \A j, k \in 1..N : j < k => from[j] < from[k]
        /\ \A n \in 1..Len(s) \cap places : \E k \in 1..N : from[k] = n
    <3> HIDE DEF places
    <3>1. QED BY <1>3 DEF KeptFrom
  <2>3. \A n : n \in 1..Len(s) \cap places <=> n \in 1..Len(s) /\ s[n] # "x"
    OBVIOUS
  <2> HIDE DEF kept, N, places
  <2>4. QED BY <2>1, <2>2, <2>3
<1> HIDE DEF kept, N
<1>5. kept \in Seq(Bytes)
  <2>1. \A k \in 1..N : kept[k] \in Bytes
    BY <1>1, <1>4
  <2>2. QED BY <1>2, <2>1 DEF N
<1>6. ASSUME NEW k \in 1..N, kept[k] = "C" PROVE k > 1 /\ kept[k - 1] = "L"
  <2>1. from[k] \in 1..Len(s) /\ s[from[k]] = "C"
    BY <1>4, <1>6
  <2>2. from[k] - 1 \in 1..Len(s) /\ s[from[k] - 1] = "L"
    BY <1>1, <2>1 DEF WellFormed
  <2>3. PICK h \in 1..N : from[h] = from[k] - 1
    BY <1>4, <2>2
  <2>4. h < k
    <3>1. ASSUME h >= k PROVE FALSE
      <4>1. h = k \/ k < h
        BY <1>4, <3>1
      <4>2. from[k] <= from[h]
        BY <1>4, <2>1, <2>3, <4>1
      <4>3. QED BY <4>2, <2>1, <2>3
    <3>2. QED BY <3>1, <1>4
  <2>5. k - 1 \in 1..N /\ k > 1
    BY <2>4, <1>4
  <2>6. h = k - 1
    <3>1. ASSUME h < k - 1 PROVE FALSE
      <4>1. from[h] < from[k - 1] /\ from[k - 1] < from[k]
        BY <1>4, <2>5, <3>1
      <4>2. from[k - 1] \in 1..Len(s)
        BY <1>4, <2>5
      <4>3. QED BY <4>1, <4>2, <2>1, <2>3
    <3>2. QED BY <3>1, <2>4, <2>5
  <2>7. kept[h] = "L"
    BY <1>4, <2>2, <2>3
  <2>8. QED BY <2>5, <2>6, <2>7
<1>7. QED BY <1>5, <1>6 DEF Texts, WellFormed, N, kept

-----------------------------------------------------------------------------
\* What an edit makes of the editor and its undo stack

Shots == {s \in [text : Texts, cur : Nat, anc : Int] :
            IsBoundary(s.text, s.cur) /\ (s.anc # None => IsBoundary(s.text, s.anc))}
EditKinds == {"none", "type", "backspace", "delete", "other"}

\* A run of single characters has its entry, and nothing to redo.
Coalesces(e) == e.last \notin {"none", "other"} => e.undo # <<>> /\ e.redo = <<>>
Shape == [text : Texts, cur : Nat, anc : Int, undo : Seq(Shots), redo : Seq(Shots),
          last : EditKinds]
Editors == {e \in Shape : Snapshot(e) \in Shots /\ Coalesces(e)}

\* The text that undoing everything brings back, and redoing everything.
FirstText(e) == IF e.undo = <<>> THEN e.text ELSE e.undo[1].text
LastText(e) == IF e.redo = <<>> THEN e.text ELSE e.redo[1].text

\* f is e but for what is shown.
Alters(e, f) ==
  f \in Editors /\ f.undo = e.undo /\ f.redo = e.redo /\ f.last = e.last

\* f is what an edit makes of e: an entry more and nothing to redo, or the same
\* entries, and then the text is the same unless there is one and nothing to redo.
Covers(e, f) ==
  /\ f \in Editors /\ FirstText(f) = FirstText(e)
  /\ \/ Len(f.undo) > Len(e.undo) /\ f.redo = <<>>
     \/ f.undo = e.undo /\ f.redo = e.redo /\ (f.text = e.text \/ f.redo = <<>>)

LEMMA EditorParts ==
  ASSUME NEW e \in Editors
  PROVE  /\ e \in Shape
         /\ e.text \in Texts /\ e.cur \in Nat /\ e.anc \in Int /\ e.last \in EditKinds
         /\ e.undo \in Seq(Shots) /\ e.redo \in Seq(Shots)
         /\ Snapshot(e) \in Shots /\ Snapshot(e).text = e.text
         /\ IsBoundary(e.text, e.cur) /\ (e.anc # None => IsBoundary(e.text, e.anc))
         /\ Coalesces(e)
<1>1. /\ e \in Shape /\ Snapshot(e) \in Shots /\ Coalesces(e)
      /\ e.text \in Texts /\ e.cur \in Nat /\ e.anc \in Int /\ e.last \in EditKinds
      /\ e.undo \in Seq(Shots) /\ e.redo \in Seq(Shots)
  BY DEF Editors, Shape
<1>2. /\ Snapshot(e).text = e.text /\ Snapshot(e).cur = e.cur /\ Snapshot(e).anc = e.anc
  BY DEF Snapshot
<1>3. IsBoundary(e.text, e.cur) /\ (e.anc # None => IsBoundary(e.text, e.anc))
  BY <1>1, <1>2 DEF Shots
<1>4. QED BY <1>1, <1>2, <1>3

\* Another text with its caret, and no anchor or one on a boundary.
LEMMA Shown ==
  ASSUME NEW e \in Editors, NEW f \in Shape,
         f.undo = e.undo, f.redo = e.redo, f.last = e.last,
         IsBoundary(f.text, f.cur), f.anc # None => IsBoundary(f.text, f.anc)
  PROVE  Alters(e, f)
<1>1. f.text \in Texts /\ f.cur \in Nat /\ f.anc \in Int
  BY DEF Shape
<1>2. Snapshot(f) \in Shots
  BY <1>1 DEF Shots, Snapshot
<1>3. Coalesces(f)
  BY EditorParts DEF Coalesces
<1>4. QED BY <1>2, <1>3 DEF Editors, Alters

LEMMA AltersCovers ==
  ASSUME NEW e \in Editors, NEW f, Alters(e, f), f.text = e.text
  PROVE  Covers(e, f)
BY DEF Alters, Covers, FirstText

LEMMA CoversSelf == ASSUME NEW e \in Editors PROVE Covers(e, e)
BY DEF Covers

\* Two edits in a row.
LEMMA CoversTwice ==
  ASSUME NEW e \in Editors, NEW f, NEW g, Covers(e, f), Covers(f, g)
  PROVE  Covers(e, g)
<1>1. f \in Editors /\ g \in Editors /\ FirstText(g) = FirstText(e)
  BY DEF Covers
<1>2. Len(e.undo) \in Nat /\ Len(f.undo) \in Nat /\ Len(g.undo) \in Nat
  BY <1>1, EditorParts
<1>3. QED BY <1>1, <1>2 DEF Covers

\* What Recorded adds covers what was changed before.
LEMMA RecordedCovers ==
  ASSUME NEW e \in Editors, NEW f, Alters(e, f), NEW kind \in EditKinds \ {"none"}
  PROVE  /\ Covers(e, Recorded(f, kind, Snapshot(e)))
         /\ Recorded(f, kind, Snapshot(e)).text = f.text
         /\ Recorded(f, kind, Snapshot(e)).anc = f.anc
         /\ Recorded(f, kind, Snapshot(e)).redo = <<>>
<1>1. f \in Editors /\ f.undo = e.undo /\ f.redo = e.redo /\ f.last = e.last
  BY DEF Alters
<1>2. CASE kind # "other" /\ f.last = kind
  <2>1. Recorded(f, kind, Snapshot(e)) = f
    BY <1>2 DEF Recorded
  <2>2. f.undo # <<>> /\ f.redo = <<>>
    BY <1>1, <1>2, EditorParts DEF Coalesces
  <2>3. FirstText(f) = FirstText(e)
    BY <1>1, <2>2 DEF FirstText
  <2>4. QED BY <1>1, <1>2, <2>1, <2>2, <2>3 DEF Covers
<1>3. CASE ~(kind # "other" /\ f.last = kind)
  <2> DEFINE pre == Snapshot(e)
             g == [f EXCEPT !.undo = Append(@, pre), !.redo = <<>>, !.last = kind]
  <2>1. Recorded(f, kind, pre) = g
    BY <1>3 DEF Recorded
  <2>2. pre \in Shots /\ pre.text = e.text
    BY EditorParts
  <2>3. f \in Shape /\ Snapshot(f) \in Shots
    BY <1>1, EditorParts
  <2>4. e.undo \in Seq(Shots)
    BY EditorParts
  <2> HIDE DEF pre
  <2>5. /\ Append(f.undo, pre) \in Seq(Shots) /\ Append(f.undo, pre) # <<>>
        /\ Len(Append(f.undo, pre)) = Len(e.undo) + 1
        /\ Len(e.undo) \in Nat
        /\ Append(f.undo, pre)[1] = IF e.undo = <<>> THEN pre ELSE e.undo[1]
      <3> DEFINE u == e.undo
    <3>1. u \in Seq(Shots) /\ f.undo = u
      BY <1>1, <2>4
    <3> HIDE DEF u
    <3>2. /\ Append(u, pre) \in Seq(Shots) /\ Append(u, pre) # <<>>
          /\ Len(Append(u, pre)) = Len(u) + 1 /\ Len(u) \in Nat
      BY <3>1, <2>2, AppendProperties
    <3>3. CASE u = <<>>
      <4>1. Append(u, pre) = <<pre>> /\ <<pre>>[1] = pre
        BY <3>3
      <4>2. QED BY <3>1, <3>2, <3>3, <4>1 DEF u
    <3>4. CASE u # <<>>
      <4>1. Append(u, pre)[1] = u[1]
        BY <3>1, <3>4, <2>2
      <4>2. QED BY <3>1, <3>2, <3>4, <4>1 DEF u
    <3>5. QED BY <3>3, <3>4
  <2>6. <<>> \in Seq(Shots)
    OBVIOUS
  <2>7. g \in Shape
    BY <2>3, <2>5, <2>6 DEF Shape, EditKinds
  <2>8. /\ g.text = f.text /\ g.cur = f.cur /\ g.anc = f.anc
        /\ g.undo = Append(f.undo, pre) /\ g.redo = <<>> /\ g.last = kind
    BY <2>3 DEF Shape
  <2> HIDE DEF g
  <2>9. Snapshot(g) = Snapshot(f)
    BY <2>8 DEF Snapshot
  <2>10. g \in Editors
    BY <2>3, <2>5, <2>7, <2>8, <2>9 DEF Editors, Coalesces
  <2>11. FirstText(g) = FirstText(e)
    BY <2>2, <2>5, <2>8 DEF FirstText
  <2>12. Len(g.undo) > Len(e.undo)
    BY <2>5, <2>8
  <2>13. Covers(e, g)
    BY <2>8, <2>10, <2>11, <2>12 DEF Covers
  <2>14. QED BY <2>1, <2>5, <2>8, <2>13 DEF pre
<1>4. QED BY <1>2, <1>3

\* The selection is between boundaries; deleting it leaves the caret where it
\* began, and no anchor.
LEMMA DeletedSelectionAlters ==
  ASSUME NEW e \in Editors
  PROVE  /\ Alters(e, DeletedSelection(e)) /\ DeletedSelection(e).anc = None
         /\ ~HasSelection(e) =>
              DeletedSelection(e).text = e.text /\ DeletedSelection(e).cur = e.cur
<1>1. /\ e.text \in Texts /\ IsBoundary(e.text, e.cur)
      /\ e.anc # None => IsBoundary(e.text, e.anc)
  BY EditorParts
<1>2. None \in Int
  BY DEF None
<1>3. CASE HasSelection(e)
  <2>1. e.anc \in Nat /\ e.cur \in Nat /\ IsBoundary(e.text, e.anc)
    BY <1>1, <1>3, Ends DEF HasSelection
  <2>2. SelectionStart(e) \in {e.anc, e.cur}
    <3> DEFINE S == {e.anc, e.cur}
    <3>1. S \in SUBSET Nat /\ S # {}
      BY <2>1
    <3> HIDE DEF S
    <3>2. Min(S) \in S
      BY <3>1, MinOf
    <3>3. QED BY <3>2 DEF S, SelectionStart
  <2>3. SelectionEnd(e) \in {e.anc, e.cur}
    <3> DEFINE S == {e.anc, e.cur}
    <3>1. S \in SUBSET Nat /\ S # {}
      BY <2>1
    <3>2. e.anc + e.cur \in Nat /\ \A k \in S : k <= e.anc + e.cur
      BY <2>1
    <3> HIDE DEF S
    <3>3. Max(S) \in S
      BY <3>1, <3>2, MaxOf
    <3>4. QED BY <3>3 DEF S, SelectionEnd
  <2> DEFINE t == Splice(e.text, SelectionStart(e), SelectionEnd(e), <<>>)
  <2>4. <<>> \in Texts /\ Len(<<>>) = 0
    BY DEF Texts, WellFormed
  <2>5. t \in Texts /\ IsBoundary(t, SelectionStart(e) + Len(<<>>))
    BY <1>1, <2>1, <2>2, <2>3, <2>4, Spliced
  <2>6. IsBoundary(t, SelectionStart(e))
    BY <2>1, <2>2, <2>4, <2>5
  <2> HIDE DEF t
  <2> DEFINE d == DeletedSelection(e)
  <2>7. d = [e EXCEPT !.text = t, !.cur = SelectionStart(e), !.anc = None]
    BY <1>3 DEF DeletedSelection, t
  <2>8. /\ d \in Shape /\ d.text = t /\ d.cur = SelectionStart(e) /\ d.anc = None
        /\ d.undo = e.undo /\ d.redo = e.redo /\ d.last = e.last
    <3>1. e \in Shape /\ SelectionStart(e) \in Nat
      BY <2>1, <2>2, EditorParts
    <3> HIDE DEF d
    <3>2. QED BY <1>2, <2>5, <2>7, <3>1 DEF Shape
  <2> HIDE DEF d
  <2>9. Alters(e, d)
    BY <2>6, <2>8, Shown
  <2>10. QED BY <1>3, <2>8, <2>9 DEF d
<1>4. CASE ~HasSelection(e)
  <2> DEFINE d == DeletedSelection(e)
  <2>1. d = [e EXCEPT !.anc = None]
    BY <1>4 DEF DeletedSelection
  <2>2. /\ d \in Shape /\ d.text = e.text /\ d.cur = e.cur /\ d.anc = None
        /\ d.undo = e.undo /\ d.redo = e.redo /\ d.last = e.last
    <3>1. e \in Shape
      BY EditorParts
    <3> HIDE DEF d
    <3>2. QED BY <1>2, <2>1, <3>1 DEF Shape
  <2> HIDE DEF d
  <2>3. Alters(e, d)
    BY <1>1, <2>2, Shown
  <2>4. QED BY <1>4, <2>2, <2>3 DEF d
<1>5. QED BY <1>3, <1>4

\* Text put in at the caret, with the selection gone: recorded, it covers.
LEMMA InsertedCovers ==
  ASSUME NEW e \in Editors, NEW s \in Texts, NEW kind \in EditKinds \ {"none"}
  PROVE  LET d == DeletedSelection(e)
             f == [d EXCEPT !.text = Splice(@, d.cur, d.cur, s), !.cur = @ + Len(s)]
             g == Recorded(f, kind, Snapshot(e))
         IN  Covers(e, g) /\ g.redo = <<>> /\ g.text = Splice(d.text, d.cur, d.cur, s)
<1> DEFINE d == DeletedSelection(e)
           t == Splice(d.text, d.cur, d.cur, s)
           f == [d EXCEPT !.text = Splice(@, d.cur, d.cur, s), !.cur = @ + Len(s)]
<1>1. Alters(e, d) /\ d.anc = None
  BY DeletedSelectionAlters
<1> HIDE DEF d
<1>2. d \in Editors /\ d.undo = e.undo /\ d.redo = e.redo /\ d.last = e.last
  BY <1>1 DEF Alters
<1>3. d \in Shape /\ d.text \in Texts /\ IsBoundary(d.text, d.cur) /\ d.cur \in Nat
  BY <1>2, EditorParts
<1>4. t \in Texts /\ IsBoundary(t, d.cur + Len(s)) /\ d.cur + Len(s) \in Nat
  <2>1. Len(s) \in Nat
    BY Ends
  <2>2. QED BY <1>3, <2>1, Spliced
<1> HIDE DEF t
<1>5. /\ f \in Shape /\ f.text = t /\ f.cur = d.cur + Len(s) /\ f.anc = None
      /\ f.undo = e.undo /\ f.redo = e.redo /\ f.last = e.last
  <2>1. f = [d EXCEPT !.text = t, !.cur = d.cur + Len(s)]
    BY DEF t
  <2> HIDE DEF f
  <2>2. QED BY <1>1, <1>2, <1>3, <1>4, <2>1 DEF Shape
<1> HIDE DEF f
<1>6. Alters(e, f)
  BY <1>4, <1>5, Shown
<1> DEFINE g == Recorded(f, kind, Snapshot(e))
<1>7. Covers(e, g) /\ g.redo = <<>> /\ g.text = t
  BY <1>5, <1>6, RecordedCovers
<1>8. QED BY <1>7 DEF f, d, t

LEMMA CharsAreTexts == ASSUME NEW c \in Chars PROVE c \in Texts
<1>1. ASSUME NEW b \in {"w", "s", "n"}, c = <<b>> PROVE c \in Texts
  <2>1. c \in Seq(Bytes) /\ Len(c) = 1 /\ c[1] # "C"
    BY <1>1 DEF Bytes
  <2>2. WellFormed(c)
    <3> SUFFICES ASSUME NEW i \in 1..Len(c), c[i] = "C" PROVE FALSE
      BY DEF WellFormed
    <3>1. i = 1
      BY <2>1
    <3>2. QED BY <2>1, <3>1
  <2>3. QED BY <2>1, <2>2 DEF Texts
<1>2. CASE c = <<"L", "C">>
  <2>1. c \in Seq(Bytes) /\ Len(c) = 2 /\ c[1] = "L" /\ c[2] = "C"
    BY <1>2 DEF Bytes
  <2>2. WellFormed(c)
    <3> SUFFICES ASSUME NEW i \in 1..Len(c), c[i] = "C" PROVE i > 1 /\ c[i - 1] = "L"
      BY DEF WellFormed
    <3>1. i = 2 /\ i - 1 = 1
      BY <2>1
    <3>2. QED BY <2>1, <3>1
  <2>3. QED BY <2>1, <2>2 DEF Texts
<1>3. QED BY <1>1, <1>2 DEF Chars

LEMMA TypedCovers ==
  ASSUME NEW e \in Editors, NEW c \in Chars
  PROVE  Covers(e, Typed(e, c)) /\ Typed(e, c).redo = <<>>
<1> DEFINE kind == IF HasSelection(e) THEN "other" ELSE "type"
<1>1. kind \in EditKinds \ {"none"} /\ c \in Texts
  BY CharsAreTexts DEF EditKinds
<1> HIDE DEF kind
<1>2. QED BY <1>1, InsertedCovers DEF Typed, kind

LEMMA PastedCovers ==
  ASSUME NEW e \in Editors, NEW s \in Pasteable
  PROVE  Covers(e, Pasted(e, s))
<1> DEFINE kept == Keep(s, {i \in 1..Len(s) : s[i] # "x"})
<1>1. kept \in Texts
  BY PastedIsText
<1> HIDE DEF kept
<1>2. "other" \in EditKinds \ {"none"}
  BY DEF EditKinds
<1>3. QED BY <1>1, <1>2, InsertedCovers DEF Pasted, kept

\* A range from the caret's side of it goes, or the selection does.
LEMMA DeletedCovers ==
  ASSUME NEW e \in Editors, NEW from, IsBoundary(e.text, from),
         NEW to, IsBoundary(e.text, to), NEW kind \in EditKinds \ {"none"}
  PROVE  Covers(e, Deleted(e, from, to, kind))
<1> DEFINE d == DeletedSelection(e)
<1>1. /\ Alters(e, d) /\ d.anc = None
      /\ ~HasSelection(e) => d.text = e.text /\ d.cur = e.cur
  BY DeletedSelectionAlters
<1>2. "other" \in EditKinds \ {"none"}
  BY DEF EditKinds
<1> HIDE DEF d
<1>3. CASE HasSelection(e)
  <2>1. Deleted(e, from, to, kind) = Recorded(d, "other", Snapshot(e))
    BY <1>3 DEF Deleted, d
  <2>2. QED BY <1>1, <1>2, <2>1, RecordedCovers
<1>4. CASE ~HasSelection(e) /\ from = to
  <2>1. Deleted(e, from, to, kind) = d
    BY <1>4 DEF Deleted, d
  <2>2. QED BY <1>1, <1>4, <2>1, AltersCovers
<1>5. CASE ~HasSelection(e) /\ from # to
  <2> DEFINE t == Splice(d.text, from, to, <<>>)
             f == [d EXCEPT !.text = Splice(@, from, to, <<>>), !.cur = from]
  <2>1. Deleted(e, from, to, kind) = Recorded(f, kind, Snapshot(e))
    BY <1>5 DEF Deleted, d
  <2>2. d \in Editors /\ d \in Shape /\ d.undo = e.undo /\ d.redo = e.redo /\ d.last = e.last
    BY <1>1, EditorParts DEF Alters
  <2>3. d.text \in Texts /\ IsBoundary(d.text, from) /\ IsBoundary(d.text, to) /\ from \in Nat
    BY <1>1, <1>5, <2>2, EditorParts, Ends
  <2>4. <<>> \in Texts /\ Len(<<>>) = 0
    BY DEF Texts, WellFormed
  <2>5. t \in Texts /\ IsBoundary(t, from + Len(<<>>))
    BY <2>3, <2>4, Spliced
  <2>6. IsBoundary(t, from)
    BY <2>3, <2>4, <2>5
  <2> HIDE DEF t
  <2>7. /\ f \in Shape /\ f.text = t /\ f.cur = from /\ f.anc = None
        /\ f.undo = e.undo /\ f.redo = e.redo /\ f.last = e.last
    <3>1. f = [d EXCEPT !.text = t, !.cur = from]
      BY DEF t
    <3> HIDE DEF f
    <3>2. QED BY <1>1, <2>2, <2>3, <2>5, <3>1 DEF Shape
  <2> HIDE DEF f
  <2>8. Alters(e, f)
    BY <2>6, <2>7, Shown
  <2>9. QED BY <2>1, <2>8, RecordedCovers
<1>6. QED BY <1>3, <1>4, <1>5

LEMMA DeletedByCovers ==
  ASSUME NEW e \in Editors,
         NEW key \in {"backspace", "delete", "word_left", "word_right", "line_start"}
  PROVE  Covers(e, DeletedBy(e, key))
<1>1. e.text \in Texts /\ IsBoundary(e.text, e.cur) /\ e.cur \in Nat /\ e.cur <= Len(e.text)
  BY EditorParts, Ends
<1>2. /\ IsBoundary(e.text, PrevBoundary(e.text, e.cur))
      /\ IsBoundary(e.text, NextBoundary(e.text, e.cur))
      /\ IsBoundary(e.text, WordLeft(e.text, e.cur))
      /\ IsBoundary(e.text, WordRight(e.text, e.cur))
      /\ IsBoundary(e.text, LineStart(e.text, e.cur))
  BY <1>1, PrevOnBoundary, NextOnBoundary, WordsOnBoundaries, LinesOnBoundaries
<1>3. IsBoundary(e.text, Min({LineStart(e.text, e.cur), PrevBoundary(e.text, e.cur)}))
  <2> DEFINE S == {LineStart(e.text, e.cur), PrevBoundary(e.text, e.cur)}
  <2>1. S \in SUBSET Nat /\ S # {} /\ \A k \in S : IsBoundary(e.text, k)
    BY <1>1, <1>2, Ends
  <2> HIDE DEF S
  <2>2. IsBoundary(e.text, Min(S))
    BY <2>1, MinOf
  <2>3. QED BY <2>2 DEF S
<1>4. {"backspace", "delete", "other"} \subseteq EditKinds \ {"none"}
  BY DEF EditKinds
<1>5. CASE key = "backspace"
  <2>1. DeletedBy(e, key) = Deleted(e, PrevBoundary(e.text, e.cur), e.cur, "backspace")
    BY <1>5 DEF DeletedBy
  <2>2. QED BY <1>1, <1>2, <1>4, <2>1, DeletedCovers
<1>6. CASE key = "delete"
  <2>1. DeletedBy(e, key) = Deleted(e, e.cur, NextBoundary(e.text, e.cur), "delete")
    BY <1>6 DEF DeletedBy
  <2>2. QED BY <1>1, <1>2, <1>4, <2>1, DeletedCovers
<1>7. CASE key = "word_left"
  <2>1. DeletedBy(e, key) = Deleted(e, WordLeft(e.text, e.cur), e.cur, "other")
    BY <1>7 DEF DeletedBy
  <2>2. QED BY <1>1, <1>2, <1>4, <2>1, DeletedCovers
<1>8. CASE key = "word_right"
  <2>1. DeletedBy(e, key) = Deleted(e, e.cur, WordRight(e.text, e.cur), "other")
    BY <1>8 DEF DeletedBy
  <2>2. QED BY <1>1, <1>2, <1>4, <2>1, DeletedCovers
<1>9. CASE key = "line_start"
  <2>1. DeletedBy(e, key) =
          Deleted(e, Min({LineStart(e.text, e.cur), PrevBoundary(e.text, e.cur)}), e.cur, "other")
    BY <1>9 DEF DeletedBy
  <2>2. QED BY <1>1, <1>3, <1>4, <2>1, DeletedCovers
<1>10. QED BY <1>5, <1>6, <1>7, <1>8, <1>9

LEMMA TransposedCovers == ASSUME NEW e \in Editors PROVE Covers(e, Transposed(e))
<1> DEFINE mid == CASE e.cur = 0            -> NextBoundary(e.text, 0)
                    [] e.cur >= Len(e.text) -> PrevBoundary(e.text, Len(e.text))
                    [] OTHER                -> e.cur
           a == PrevBoundary(e.text, mid)
           c == NextBoundary(e.text, mid)
           left == SubSeq(e.text, a + 1, mid)
           right == SubSeq(e.text, mid + 1, c)
           t == Splice(e.text, a, c, right \o left)
           f == [e EXCEPT !.text = Splice(@, a, c, right \o left), !.cur = c, !.anc = None]
<1>1. /\ e \in Shape /\ e.text \in Texts /\ IsBoundary(e.text, e.cur)
      /\ e.cur \in Nat /\ Len(e.text) \in Nat /\ e.cur <= Len(e.text)
  BY EditorParts, Ends
<1>2. IsBoundary(e.text, mid)
  BY <1>1, PrevOnBoundary, NextOnBoundary
<1> HIDE DEF mid
<1>3. mid \in Nat /\ mid <= Len(e.text)
  BY <1>1, <1>2, Ends
<1>4. IsBoundary(e.text, a) /\ IsBoundary(e.text, c)
  BY <1>1, <1>3, PrevOnBoundary, NextOnBoundary
<1>5. Transposed(e) = IF a >= mid \/ mid >= c \/ <<"n">> \in {left, right} THEN e
                      ELSE Recorded(f, "other", Snapshot(e))
  BY DEF Transposed, mid
<1>6. a \in Nat /\ c \in Nat /\ c <= Len(e.text)
  BY <1>1, <1>4, Ends
<1> HIDE DEF a, c
<1>7. CASE a >= mid \/ mid >= c \/ <<"n">> \in {left, right}
  BY <1>5, <1>7, CoversSelf
<1>8. CASE ~(a >= mid \/ mid >= c \/ <<"n">> \in {left, right})
  <2>1. left \in Texts /\ Len(left) = mid - a
    BY <1>1, <1>3, <1>4, <1>6, <1>8, Pieces
  <2>2. right \in Texts /\ Len(right) = c - mid
    BY <1>1, <1>2, <1>3, <1>6, <1>8, Pieces
  <2> HIDE DEF left, right
  <2>3. right \o left \in Texts /\ Len(right \o left) = c - a
    <3>1. right \o left \in Texts /\ Len(right \o left) = Len(right) + Len(left)
      BY <2>1, <2>2, Joined
    <3>2. QED BY <3>1, <2>1, <2>2, <1>3, <1>6
  <2>4. t \in Texts /\ IsBoundary(t, c)
    <3> DEFINE s == right \o left
    <3> HIDE DEF s
    <3>1. Splice(e.text, a, c, s) \in Texts /\ IsBoundary(Splice(e.text, a, c, s), a + Len(s))
      BY <2>3, <1>1, <1>4, Spliced DEF s
    <3>2. a + Len(s) = c
      BY <2>3, <1>6 DEF s
    <3>3. QED BY <3>1, <3>2 DEF s
  <2> HIDE DEF t
  <2>5. /\ f \in Shape /\ f.text = t /\ f.cur = c /\ f.anc = None
        /\ f.undo = e.undo /\ f.redo = e.redo /\ f.last = e.last
    <3>1. f = [e EXCEPT !.text = t, !.cur = c, !.anc = None]
      BY DEF t
    <3>2. None \in Int
      BY DEF None
    <3> HIDE DEF f
    <3>3. QED BY <1>1, <1>6, <2>4, <3>1, <3>2 DEF Shape
  <2>6. Transposed(e) = Recorded(f, "other", Snapshot(e))
    BY <1>5, <1>8
  <2> HIDE DEF f
  <2>7. Alters(e, f)
    BY <2>4, <2>5, Shown
  <2>8. "other" \in EditKinds \ {"none"}
    BY DEF EditKinds
  <2>9. QED BY <2>6, <2>7, <2>8, RecordedCovers
<1>9. QED BY <1>7, <1>8

LEMMA CutCovers == ASSUME NEW e \in Editors PROVE Covers(e, CutOut(e))
<1>1. "other" \in EditKinds \ {"none"}
  BY DEF EditKinds
<1>2. CASE HasSelection(e)
  <2>1. CutOut(e) = Recorded(DeletedSelection(e), "other", Snapshot(e))
    BY <1>2 DEF CutOut
  <2>2. QED BY <1>1, <2>1, DeletedSelectionAlters, RecordedCovers
<1>3. CASE ~HasSelection(e)
  BY <1>3, CoversSelf DEF CutOut
<1>4. QED BY <1>2, <1>3

LEMMA ClearedCovers ==
  ASSUME NEW e \in Editors
  PROVE  Covers(e, Cleared(e)) /\ Cleared(e).text = <<>>
<1> DEFINE c == [e EXCEPT !.text = <<>>, !.cur = 0, !.anc = None]
<1>1. e \in Shape /\ None \in Int /\ <<>> \in Texts
  BY EditorParts DEF None, Texts, WellFormed
<1>2. /\ c \in Shape /\ c.text = <<>> /\ c.cur = 0 /\ c.anc = None
      /\ c.undo = e.undo /\ c.redo = e.redo /\ c.last = e.last
  BY <1>1 DEF Shape
<1>3. Cleared(e) = IF e.text = <<>> /\ e.anc = None THEN c ELSE Recorded(c, "other", Snapshot(e))
  BY DEF Cleared
<1> HIDE DEF c
<1>4. Alters(e, c)
  BY <1>1, <1>2, Ends, Shown
<1>5. "other" \in EditKinds \ {"none"}
  BY DEF EditKinds
<1>6. CASE e.text = <<>> /\ e.anc = None
  BY <1>2, <1>3, <1>4, <1>6, AltersCovers
<1>7. CASE ~(e.text = <<>> /\ e.anc = None)
  BY <1>2, <1>3, <1>4, <1>5, <1>7, RecordedCovers
<1>8. QED BY <1>6, <1>7

LEMMA ReplacedCovers ==
  ASSUME NEW e \in Editors, NEW s \in Pasteable
  PROVE  Covers(e, Replaced(e, s))
<1>1. Covers(e, Cleared(e)) /\ Cleared(e) \in Editors
  BY ClearedCovers DEF Covers
<1>2. Covers(Cleared(e), Replaced(e, s))
  BY <1>1, PastedCovers DEF Replaced
<1>3. QED BY <1>1, <1>2, CoversTwice

-----------------------------------------------------------------------------
\* Moves, selections, undo and redo

\* f shows the same text as e, elsewhere, and ends the run of characters or not.
Turns(e, f) ==
  f \in Editors /\ f.text = e.text /\ f.undo = e.undo /\ f.redo = e.redo

LEMMA TurnsCovers == ASSUME NEW e \in Editors, NEW f, Turns(e, f) PROVE Covers(e, f)
BY DEF Turns, Covers, FirstText

\* A caret and an anchor elsewhere on boundaries.
LEMMA Turned ==
  ASSUME NEW e \in Editors, NEW f \in Shape,
         f.text = e.text, f.undo = e.undo, f.redo = e.redo, f.last \in {"none", e.last},
         IsBoundary(e.text, f.cur), f.anc # None => IsBoundary(e.text, f.anc)
  PROVE  Turns(e, f)
<1>1. f.text \in Texts /\ f.cur \in Nat /\ f.anc \in Int
  BY DEF Shape
<1>2. Snapshot(f) \in Shots
  BY <1>1 DEF Shots, Snapshot
<1>3. Coalesces(f)
  BY EditorParts DEF Coalesces
<1>4. QED BY <1>2, <1>3 DEF Editors, Turns

LEMMA MovedTurns ==
  ASSUME NEW e \in Editors, NEW to, IsBoundary(e.text, to), NEW extend \in BOOLEAN
  PROVE  Turns(e, Moved(e, to, extend))
<1> DEFINE f == Moved(e, to, extend)
           anc == CASE ~extend                     -> None
                    [] extend /\ e.anc = None      -> e.cur
                    [] OTHER                       -> e.anc
<1>1. /\ e \in Shape /\ e.text \in Texts /\ IsBoundary(e.text, e.cur) /\ to \in Nat
      /\ e.cur \in Nat /\ e.anc \in Int
      /\ e.anc # None => IsBoundary(e.text, e.anc)
  BY EditorParts, Ends
<1>2. anc \in Int /\ (anc # None => IsBoundary(e.text, anc))
  BY <1>1 DEF None
<1>3. f = [e EXCEPT !.anc = anc, !.cur = to, !.last = "none"]
  BY DEF Moved
<1> HIDE DEF f, anc
<1>4. /\ f \in Shape /\ f.text = e.text /\ f.cur = to /\ f.anc = anc
      /\ f.undo = e.undo /\ f.redo = e.redo /\ f.last = "none"
  BY <1>1, <1>2, <1>3 DEF Shape, EditKinds
<1>5. Turns(e, f)
  BY <1>2, <1>4, Turned
<1>6. QED BY <1>5 DEF f

LEMMA SelectedTurns ==
  ASSUME NEW e \in Editors, NEW anchor, IsBoundary(e.text, anchor),
         NEW head, IsBoundary(e.text, head)
  PROVE  Turns(e, Selected(e, anchor, head))
<1> DEFINE f == Selected(e, anchor, head)
           anc == IF anchor = head THEN None ELSE anchor
<1>1. e \in Shape /\ e.text \in Texts /\ anchor \in Nat /\ head \in Nat
  BY EditorParts, Ends
<1>2. anc \in Int /\ (anc # None => IsBoundary(e.text, anc))
  BY <1>1 DEF None
<1>3. f = [e EXCEPT !.anc = anc, !.cur = head, !.last = "none"]
  BY DEF Selected
<1> HIDE DEF f, anc
<1>4. /\ f \in Shape /\ f.text = e.text /\ f.cur = head /\ f.anc = anc
      /\ f.undo = e.undo /\ f.redo = e.redo /\ f.last = "none"
  BY <1>1, <1>2, <1>3 DEF Shape, EditKinds
<1>5. Turns(e, f)
  BY <1>2, <1>4, Turned
<1>6. QED BY <1>5 DEF f

LEMMA MotionOnBoundary ==
  ASSUME NEW e \in Editors,
         NEW key \in {"left", "right", "word<", "word>", "home", "end", "doc<", "doc>"}
  PROVE  IsBoundary(e.text, Motion(e, key))
<1>1. e.text \in Texts /\ IsBoundary(e.text, e.cur) /\ e.cur \in Nat /\ e.cur <= Len(e.text)
  BY EditorParts, Ends
<1>2. /\ IsBoundary(e.text, PrevBoundary(e.text, e.cur))
      /\ IsBoundary(e.text, NextBoundary(e.text, e.cur))
      /\ IsBoundary(e.text, WordLeft(e.text, e.cur))
      /\ IsBoundary(e.text, WordRight(e.text, e.cur))
      /\ IsBoundary(e.text, LineStart(e.text, e.cur))
      /\ IsBoundary(e.text, LineEnd(e.text, e.cur))
      /\ IsBoundary(e.text, 0) /\ IsBoundary(e.text, Len(e.text))
  BY <1>1, PrevOnBoundary, NextOnBoundary, WordsOnBoundaries, LinesOnBoundaries, Ends
<1>3. QED BY <1>2 DEF Motion

LEMMA RowedTurns ==
  ASSUME NEW e \in Editors, NEW row \in Nat, row <= RowOf(e.text, Len(e.text))
  PROVE  Turns(e, Rowed(e, row))
<1> DEFINE f == Rowed(e, row)
           to == IndexAt(e.text, row, ColOf(e.text, e.cur))
<1>1. e \in Shape /\ e.text \in Texts /\ IsBoundary(e.text, e.cur) /\ None \in Int
  BY EditorParts DEF None
<1>2. IsBoundary(e.text, to)
  BY <1>1, IndexOnBoundary
<1>3. f = [e EXCEPT !.cur = to, !.anc = None]
  BY DEF Rowed
<1> HIDE DEF f, to
<1>4. /\ f \in Shape /\ f.text = e.text /\ f.cur = to /\ f.anc = None
      /\ f.undo = e.undo /\ f.redo = e.redo /\ f.last = e.last
  BY <1>1, <1>2, <1>3, Ends DEF Shape
<1>5. Turns(e, f)
  BY <1>2, <1>4, Turned
<1>6. QED BY <1>5 DEF f

LEMMA PressedTurns ==
  ASSUME NEW e \in Editors, NEW i, IsBoundary(e.text, i), NEW count \in 1..3
  PROVE  Turns(e, Pressed(e, i, count))
<1>1. e \in Shape /\ e.text \in Texts
  BY EditorParts
<1>2. /\ IsBoundary(e.text, WordRangeAt(e.text, i)[1])
      /\ IsBoundary(e.text, WordRangeAt(e.text, i)[2])
      /\ IsBoundary(e.text, LineRangeAt(e.text, i)[1])
      /\ IsBoundary(e.text, LineRangeAt(e.text, i)[2])
  BY <1>1, WordsOnBoundaries, LinesOnBoundaries
<1> DEFINE word == WordRangeAt(e.text, i)
           line == LineRangeAt(e.text, i)
<1>3. CASE count = 1
  <2>1. Pressed(e, i, count) = Moved(e, i, FALSE)
    BY <1>3 DEF Pressed
  <2>2. QED BY <2>1, MovedTurns
<1>4. CASE count = 2
  <2>1. Pressed(e, i, count) = IF word[1] = word[2] THEN Moved(e, i, FALSE)
                               ELSE Selected(e, word[1], word[2])
    BY <1>4 DEF Pressed
  <2> HIDE DEF word
  <2>2. IsBoundary(e.text, word[1]) /\ IsBoundary(e.text, word[2])
    BY <1>2 DEF word
  <2>3. QED BY <2>1, <2>2, MovedTurns, SelectedTurns
<1>5. CASE count = 3
  <2> DEFINE f == Pressed(e, i, count)
  <2>1. f = [e EXCEPT !.anc = line[1], !.cur = line[2], !.last = "none"]
    BY <1>5 DEF Pressed
  <2>2. line[1] \in Nat /\ line[2] \in Nat
    BY <1>1, <1>2, Ends
  <2> DEFINE from == line[1]
             to == line[2]
  <2> HIDE DEF f, line, from, to
  <2>3. /\ f \in Shape /\ f.text = e.text /\ f.cur = to /\ f.anc = from
        /\ f.undo = e.undo /\ f.redo = e.redo /\ f.last = "none"
    <3>1. f = [e EXCEPT !.anc = from, !.cur = to, !.last = "none"]
      BY <2>1 DEF from, to
    <3>2. from \in Nat /\ to \in Nat
      BY <2>2 DEF from, to
    <3>3. from \in Int /\ "none" \in EditKinds
      BY <3>2 DEF EditKinds
    <3>4. f \in Shape
      BY <1>1, <3>1, <3>2, <3>3 DEF Shape
    <3>5. /\ f.text = e.text /\ f.cur = to /\ f.anc = from
          /\ f.undo = e.undo /\ f.redo = e.redo /\ f.last = "none"
      BY <1>1, <3>1 DEF Shape
    <3>6. QED BY <3>4, <3>5
  <2>4. IsBoundary(e.text, f.cur) /\ IsBoundary(e.text, f.anc)
    BY <1>2, <2>3 DEF line, from, to
  <2>5. Turns(e, f)
    BY <2>3, <2>4, Turned
  <2>6. QED BY <2>5 DEF f
<1>6. QED BY <1>3, <1>4, <1>5

Grips == [count : 1..3, range : Nat \X Nat]

\* The word or line first pressed may be of a text that is gone: its ends are
\* clamped to the one that is there.
LEMMA StretchedTurns ==
  ASSUME NEW e \in Editors, NEW i, IsBoundary(e.text, i), NEW g \in Grips
  PROVE  Turns(e, Stretched(e, i, g))
<1> DEFINE now == IF g.count = 2 THEN WordRangeAt(e.text, i) ELSE LineRangeAt(e.text, i)
           S == {g.range[1], now[1]}
           T == {g.range[2], now[2]}
<1>1. e.text \in Texts
  BY EditorParts
<1>2. now[1] \in Nat /\ now[2] \in Nat
  BY <1>1, WordsOnBoundaries, LinesOnBoundaries, Ends
<1>3. g.range[1] \in Nat /\ g.range[2] \in Nat
  BY DEF Grips
<1>4. Stretched(e, i, g) = IF g.count = 1 THEN Moved(e, i, TRUE)
                           ELSE Selected(e, Clamped(e.text, Min(S)), Clamped(e.text, Max(T)))
  BY DEF Stretched
<1> HIDE DEF now
<1>5. S \in SUBSET Nat /\ S # {} /\ T \in SUBSET Nat /\ T # {}
  BY <1>2, <1>3
<1>6. g.range[2] + now[2] \in Nat /\ \A k \in T : k <= g.range[2] + now[2]
  BY <1>2, <1>3
<1> HIDE DEF S, T
<1>7. Min(S) \in Nat /\ Max(T) \in Nat
  BY <1>5, <1>6, MinOf, MaxOf
<1>8. IsBoundary(e.text, Clamped(e.text, Min(S))) /\ IsBoundary(e.text, Clamped(e.text, Max(T)))
  BY <1>1, <1>7, ClampedOnBoundary
<1>9. QED BY <1>4, <1>8, MovedTurns, SelectedTurns

\* An entry goes from one stack to the other: the texts at their far ends stay.
LEMMA StackMoves ==
  ASSUME NEW s \in Seq(Shots), s # <<>>, NEW r \in Seq(Shots), NEW shot \in Shots
  PROVE  /\ Last(s) \in Shots /\ Front(s) \in Seq(Shots) /\ Append(r, shot) \in Seq(Shots)
         /\ Front(s) = <<>> => Last(s) = s[1]
         /\ Front(s) # <<>> => Front(s)[1] = s[1]
         /\ Append(r, shot) # <<>>
         /\ Append(r, shot)[1] = IF r = <<>> THEN shot ELSE r[1]
<1>1. Len(s) \in Nat /\ Len(s) > 0
  BY EmptySeq
<1>2. Last(s) \in Shots
  BY <1>1 DEF Last
<1>3. Front(s) \in Seq(Shots) /\ Len(Front(s)) = Len(s) - 1
  <2>1. \A i \in 1..Len(s) - 1 : s[i] \in Shots
    BY <1>1
  <2>2. SubSeq(s, 1, Len(s) - 1) \in Seq(Shots)
        /\ Len(SubSeq(s, 1, Len(s) - 1)) = IF 1 <= Len(s) - 1 THEN Len(s) - 1 - 1 + 1 ELSE 0
    BY <1>1, <2>1, SubSeqProperties
  <2>3. Front(s) = SubSeq(s, 1, Len(s) - 1)
    BY DEF Front
  <2>4. (IF 1 <= Len(s) - 1 THEN Len(s) - 1 - 1 + 1 ELSE 0) = Len(s) - 1
    <3> DEFINE n == Len(s) - 1
    <3>1. n \in Nat
      BY <1>1
    <3> HIDE DEF n
    <3>2. (IF 1 <= n THEN n - 1 + 1 ELSE 0) = n
      BY <3>1
    <3>3. QED BY <3>2 DEF n
  <2>5. QED BY <2>2, <2>3, <2>4
<1>4. Front(s) = <<>> => Last(s) = s[1]
  <2>1. Front(s) = <<>> => Len(s) = 1
    BY <1>1, <1>3
  <2>2. QED BY <2>1 DEF Last
<1>5. Front(s) # <<>> => Front(s)[1] = s[1]
  <2>1. SUFFICES ASSUME Front(s) # <<>> PROVE Front(s)[1] = s[1]
    OBVIOUS
  <2>2. Len(s) > 1
    BY <1>1, <1>3, <2>1, EmptySeq
  <2>3. QED BY <1>1, <2>2 DEF Front
<1>6. Append(r, shot) \in Seq(Shots) /\ Append(r, shot) # <<>>
  BY AppendProperties
<1>7. Append(r, shot)[1] = IF r = <<>> THEN shot ELSE r[1]
  <2>1. CASE r = <<>>
    BY <2>1
  <2>2. CASE r # <<>>
    BY <2>2
  <2>3. QED BY <2>1, <2>2
<1>8. QED BY <1>2, <1>3, <1>4, <1>5, <1>6, <1>7

LEMMA UndoneKeepsEnds ==
  ASSUME NEW e \in Editors
  PROVE  /\ Undone(e) \in Editors /\ FirstText(Undone(e)) = FirstText(e)
         /\ LastText(Undone(e)) = LastText(e)
<1>1. CASE e.undo = <<>>
  BY <1>1 DEF Undone
<1>2. CASE e.undo # <<>>
  <2> DEFINE s == e.undo
             shot == Snapshot(e)
             f == Undone(e)
  <2>1. /\ e \in Shape /\ e.redo \in Seq(Shots) /\ s \in Seq(Shots) /\ s # <<>>
        /\ shot \in Shots /\ shot.text = e.text
    BY <1>2, EditorParts
  <2>2. f = [At(e, Last(s)) EXCEPT !.undo = Front(@), !.redo = Append(@, shot), !.last = "none"]
    BY <1>2 DEF Undone
  <2>3. At(e, Last(s)) = [e EXCEPT !.text = Last(s).text, !.cur = Last(s).cur, !.anc = Last(s).anc]
    BY DEF At
  <2> HIDE DEF f, shot, s
  <2>4. /\ Last(s) \in Shots /\ Front(s) \in Seq(Shots) /\ Append(e.redo, shot) \in Seq(Shots)
        /\ Front(s) = <<>> => Last(s) = s[1]
        /\ Front(s) # <<>> => Front(s)[1] = s[1]
        /\ Append(e.redo, shot) # <<>>
        /\ Append(e.redo, shot)[1] = IF e.redo = <<>> THEN shot ELSE e.redo[1]
    BY <2>1, StackMoves
  <2>5. /\ Last(s).text \in Texts /\ Last(s).cur \in Nat /\ Last(s).anc \in Int
    BY <2>4 DEF Shots
  <2>6. At(e, Last(s)) \in Shape
    BY <2>1, <2>3, <2>5 DEF Shape
  <2>7. /\ At(e, Last(s)).undo = s /\ At(e, Last(s)).redo = e.redo
        /\ At(e, Last(s)).text = Last(s).text /\ At(e, Last(s)).cur = Last(s).cur
        /\ At(e, Last(s)).anc = Last(s).anc
    BY <2>1, <2>3 DEF Shape, s
  <2>8. f \in Shape
    BY <2>2, <2>4, <2>6, <2>7 DEF Shape, EditKinds
  <2>9. /\ f.undo = Front(s) /\ f.redo = Append(e.redo, shot) /\ f.last = "none"
        /\ f.text = Last(s).text /\ f.cur = Last(s).cur /\ f.anc = Last(s).anc
    BY <2>2, <2>6, <2>7 DEF Shape
  <2>10. Snapshot(f) \in Shots
    BY <2>4, <2>5, <2>9 DEF Shots, Snapshot
  <2>11. f \in Editors
    BY <2>8, <2>9, <2>10 DEF Editors, Coalesces
  <2>12. FirstText(f) = s[1].text /\ FirstText(e) = s[1].text
    BY <2>1, <2>4, <2>9 DEF FirstText, s
  <2>13. LastText(f) = LastText(e)
    BY <2>1, <2>4, <2>9 DEF LastText
  <2>14. QED BY <2>11, <2>12, <2>13 DEF f
<1>3. QED BY <1>1, <1>2

LEMMA RedoneKeepsEnds ==
  ASSUME NEW e \in Editors
  PROVE  /\ Redone(e) \in Editors /\ FirstText(Redone(e)) = FirstText(e)
         /\ LastText(Redone(e)) = LastText(e)
<1>1. CASE e.redo = <<>>
  BY <1>1 DEF Redone
<1>2. CASE e.redo # <<>>
  <2> DEFINE s == e.redo
             shot == Snapshot(e)
             f == Redone(e)
  <2>1. /\ e \in Shape /\ e.undo \in Seq(Shots) /\ s \in Seq(Shots) /\ s # <<>>
        /\ shot \in Shots /\ shot.text = e.text
    BY <1>2, EditorParts
  <2>2. f = [At(e, Last(s)) EXCEPT !.redo = Front(@), !.undo = Append(@, shot), !.last = "none"]
    BY <1>2 DEF Redone
  <2>3. At(e, Last(s)) = [e EXCEPT !.text = Last(s).text, !.cur = Last(s).cur, !.anc = Last(s).anc]
    BY DEF At
  <2> HIDE DEF f, shot, s
  <2>4. /\ Last(s) \in Shots /\ Front(s) \in Seq(Shots) /\ Append(e.undo, shot) \in Seq(Shots)
        /\ Front(s) = <<>> => Last(s) = s[1]
        /\ Front(s) # <<>> => Front(s)[1] = s[1]
        /\ Append(e.undo, shot) # <<>>
        /\ Append(e.undo, shot)[1] = IF e.undo = <<>> THEN shot ELSE e.undo[1]
    BY <2>1, StackMoves
  <2>5. /\ Last(s).text \in Texts /\ Last(s).cur \in Nat /\ Last(s).anc \in Int
    BY <2>4 DEF Shots
  <2>6. At(e, Last(s)) \in Shape
    BY <2>1, <2>3, <2>5 DEF Shape
  <2>7. /\ At(e, Last(s)).redo = s /\ At(e, Last(s)).undo = e.undo
        /\ At(e, Last(s)).text = Last(s).text /\ At(e, Last(s)).cur = Last(s).cur
        /\ At(e, Last(s)).anc = Last(s).anc
    BY <2>1, <2>3 DEF Shape, s
  <2>8. f \in Shape
    BY <2>2, <2>4, <2>6, <2>7 DEF Shape, EditKinds
  <2>9. /\ f.redo = Front(s) /\ f.undo = Append(e.undo, shot) /\ f.last = "none"
        /\ f.text = Last(s).text /\ f.cur = Last(s).cur /\ f.anc = Last(s).anc
    BY <2>2, <2>6, <2>7 DEF Shape
  <2>10. Snapshot(f) \in Shots
    BY <2>4, <2>5, <2>9 DEF Shots, Snapshot
  <2>11. f \in Editors
    BY <2>8, <2>9, <2>10 DEF Editors, Coalesces
  <2>12. LastText(f) = s[1].text /\ LastText(e) = s[1].text
    BY <2>1, <2>4, <2>9 DEF LastText, s
  <2>13. FirstText(f) = FirstText(e)
    BY <2>1, <2>4, <2>9 DEF FirstText
  <2>14. QED BY <2>11, <2>12, <2>13 DEF f
<1>3. QED BY <1>1, <1>2

-----------------------------------------------------------------------------
\* The invariant of the editor

Walks == [saved : Texts, caret : Nat, cached : Seq(Pasteable), at : Nat]

BufferInv ==
  /\ ed \in Editors /\ span \in [from : Texts, to : Texts]
  /\ FirstText(ed) = span.from /\ LastText(ed) = span.to
WalkInv ==
  /\ past \in Seq(Pasteable)
  /\ walk \in Walks /\ walk.at <= Len(walk.cached)
EditorInv == BufferInv /\ WalkInv /\ grip \in Grips

LEMMA TextsArePasteable == Texts \subseteq Pasteable /\ <<"x">> \in Pasteable
<1>1. ASSUME NEW t \in Texts PROVE t \in Pasteable
  <2>1. t \in Seq(Bytes) /\ WellFormed(t) /\ Bytes \subseteq Bytes \cup {"x"}
    BY DEF Texts
  <2>2. t \in Seq(Bytes \cup {"x"})
    BY <2>1, SeqMonotonic
  <2>3. QED BY <2>1, <2>2 DEF Pasteable
<1>2. <<"x">> \in Seq(Bytes \cup {"x"}) /\ WellFormed(<<"x">>)
  BY DEF WellFormed
<1>3. QED BY <1>1, <1>2 DEF Pasteable

LEMMA EditorTextsArePasteable == ASSUME NEW t \in EditorTexts PROVE t \in Pasteable
<1>1. Bytes \cup {"x"} = {"w", "s", "n", "L", "C", "x"}
  BY DEF Bytes
<1>2. QED BY <1>1, EditorAssumption DEF Pasteable

\* An edit, as Edited records it.
LEMMA EditedKeeps ==
  ASSUME BufferInv, Covers(ed, ed'),
         span' = IF Len(ed'.undo) > Len(ed.undo) \/ ed'.text # ed.text
                   THEN [span EXCEPT !.to = ed'.text] ELSE span
  PROVE  BufferInv'
<1>1. /\ ed \in Editors /\ span \in [from : Texts, to : Texts]
      /\ FirstText(ed) = span.from /\ LastText(ed) = span.to
  BY DEF BufferInv
<1>2. ed' \in Editors /\ FirstText(ed') = FirstText(ed) /\ ed'.text \in Texts
  BY EditorParts DEF Covers
<1>3. CASE Len(ed'.undo) > Len(ed.undo) \/ ed'.text # ed.text
  <2>1. ed'.redo = <<>>
    BY <1>1, <1>2, <1>3, EditorParts DEF Covers
  <2>2. LastText(ed') = ed'.text
    BY <2>1 DEF LastText
  <2>3. span' \in [from : Texts, to : Texts] /\ span'.from = span.from /\ span'.to = ed'.text
    BY <1>1, <1>2, <1>3
  <2>4. QED BY <1>1, <1>2, <2>2, <2>3 DEF BufferInv
<1>4. CASE ~(Len(ed'.undo) > Len(ed.undo) \/ ed'.text # ed.text)
  <2>1. ed'.redo = ed.redo /\ ed'.text = ed.text
    BY <1>4 DEF Covers
  <2>2. LastText(ed') = LastText(ed) /\ span' = span
    BY <1>4, <2>1 DEF LastText
  <2>3. QED BY <1>1, <1>2, <2>2 DEF BufferInv
<1>5. QED BY <1>3, <1>4

\* A move or a selection leaves the texts.
LEMMA TurnKeeps ==
  ASSUME BufferInv, Turns(ed, ed'), UNCHANGED span
  PROVE  BufferInv'
BY DEF BufferInv, Turns, FirstText, LastText

LEMMA NewEditorFits ==
  /\ NewEditor \in Editors /\ FirstText(NewEditor) = <<>> /\ LastText(NewEditor) = <<>>
  /\ <<>> \in Texts
<1>1. <<>> \in Texts /\ <<>> \in Seq(Shots) /\ None \in Int /\ "none" \in EditKinds
  BY DEF Texts, WellFormed, None, EditKinds
<1>2. NewEditor \in Shape
  BY <1>1 DEF NewEditor, Shape
<1>3. Snapshot(NewEditor) \in Shots
  BY <1>1, Ends DEF NewEditor, Snapshot, Shots
<1>4. Coalesces(NewEditor)
  BY DEF Coalesces, NewEditor
<1>5. FirstText(NewEditor) = <<>> /\ LastText(NewEditor) = <<>>
  BY DEF NewEditor, FirstText, LastText
<1>6. QED BY <1>1, <1>2, <1>3, <1>4, <1>5 DEF Editors

LEMMA EmptiedIsNew ==
  ASSUME NEW e \in Editors
  PROVE  /\ Emptied(e) \in Editors /\ Emptied(e).text = <<>>
         /\ FirstText(Emptied(e)) = <<>> /\ LastText(Emptied(e)) = <<>>
<1> DEFINE c == Cleared(e)
           f == Emptied(e)
<1>1. c \in Editors /\ c.text = <<>>
  BY ClearedCovers DEF Covers
<1>2. c \in Shape /\ Snapshot(c) \in Shots
  BY <1>1, EditorParts
<1>3. f = [c EXCEPT !.undo = <<>>, !.redo = <<>>, !.last = "none"]
  BY DEF Emptied
<1> HIDE DEF c, f
<1>4. <<>> \in Seq(Shots) /\ "none" \in EditKinds
  BY DEF EditKinds
<1>5. /\ f \in Shape /\ f.text = c.text /\ f.cur = c.cur /\ f.anc = c.anc
      /\ f.undo = <<>> /\ f.redo = <<>> /\ f.last = "none"
  BY <1>2, <1>3, <1>4 DEF Shape
<1>6. Snapshot(f) \in Shots
  BY <1>2, <1>5 DEF Snapshot
<1>7. f \in Editors
  BY <1>5, <1>6 DEF Editors, Coalesces
<1>8. FirstText(f) = <<>> /\ LastText(f) = <<>>
  BY <1>1, <1>5 DEF FirstText, LastText
<1>9. QED BY <1>1, <1>5, <1>7, <1>8 DEF f

\* At first there is no entry, or that of the text put in.
LEMMA EditorStarts == EditorInit => EditorInv
<1> SUFFICES ASSUME EditorInit PROVE EditorInv
  OBVIOUS
<1>1. PICK t \in EditorTexts : past = <<t>> /\ ed \in {NewEditor, Pasted(NewEditor, t)}
  BY DEF EditorInit
<1>2. t \in Pasteable
  BY EditorTextsArePasteable
<1>3. Covers(NewEditor, ed)
  BY <1>1, <1>2, NewEditorFits, CoversSelf, PastedCovers
<1>4. ed \in Editors /\ FirstText(ed) = <<>> /\ ed.text \in Texts
  BY <1>3, NewEditorFits, EditorParts DEF Covers
<1>5. LastText(ed) = ed.text
  <2>1. ed.redo = <<>>
    BY <1>3 DEF Covers, NewEditor
  <2>2. QED BY <2>1 DEF LastText
<1>6. BufferInv
  BY <1>4, <1>5, NewEditorFits DEF BufferInv, EditorInit
<1>7. WalkInv
  BY <1>1, <1>2, NewEditorFits DEF WalkInv, Walks, EditorInit, NotWalking
<1>8. grip \in Grips
  BY DEF EditorInit, Grips
<1>9. QED BY <1>6, <1>7, <1>8 DEF EditorInv

-----------------------------------------------------------------------------
\* The steps

\* What leaves a walk, and what leaves it alone.
LEMMA WalkRests ==
  ASSUME WalkInv, walk' \in {walk, NotWalking}, UNCHANGED past
  PROVE  WalkInv'
<1>1. NotWalking \in Walks /\ NotWalking.at <= Len(NotWalking.cached)
  BY NewEditorFits DEF NotWalking, Walks
<1>2. QED BY <1>1 DEF WalkInv

\* The keys and gestures that edit, outside of the walk.
LEMMA EditStep ==
  ASSUME EditorInv, Type \/ Paste \/ Delete \/ Transpose \/ Cut \/ Pick
  PROVE  EditorInv'
<1>1. ed \in Editors /\ BufferInv /\ WalkInv /\ grip \in Grips
  BY DEF EditorInv, BufferInv
<1>2. /\ Covers(ed, ed') /\ walk' \in {walk, NotWalking} /\ UNCHANGED <<grip, past>>
      /\ span' = IF Len(ed'.undo) > Len(ed.undo) \/ ed'.text # ed.text
                   THEN [span EXCEPT !.to = ed'.text] ELSE span
  <2>1. CASE Type
    <3>1. PICK c \in Chars : Edited(Typed(ed, c)) /\ Abandon /\ Same
      BY <2>1 DEF Type
    <3>2. QED BY <3>1, <1>1, TypedCovers DEF Edited, Did, Abandon, Same
  <2>2. CASE Paste
    <3>1. PICK s \in EditorTexts \cup {<<"x">>} : Edited(Pasted(ed, s)) /\ Abandon /\ Same
      BY <2>2 DEF Paste
    <3>2. s \in Pasteable
      BY EditorTextsArePasteable, TextsArePasteable
    <3>3. QED BY <3>1, <3>2, <1>1, PastedCovers DEF Edited, Did, Abandon, Same
  <2>3. CASE Delete
    <3>1. PICK key \in {"backspace", "delete", "word_left", "word_right", "line_start"} :
            Edited(DeletedBy(ed, key)) /\ Abandon /\ Same
      BY <2>3 DEF Delete
    <3>2. QED BY <3>1, <1>1, DeletedByCovers DEF Edited, Did, Abandon, Same
  <2>4. CASE Transpose
    BY <2>4, <1>1, TransposedCovers DEF Transpose, Edited, Did, Abandon, Same
  <2>5. CASE Cut
    BY <2>5, <1>1, CutCovers DEF Cut, Edited, Did, Same
  <2>6. CASE Pick
    <3>1. PICK s \in EditorTexts : Edited(Replaced(ed, s)) /\ UNCHANGED walk /\ Same
      BY <2>6 DEF Pick
    <3>2. QED BY <3>1, <1>1, EditorTextsArePasteable, ReplacedCovers DEF Edited, Did, Same
  <2>7. QED BY <2>1, <2>2, <2>3, <2>4, <2>5, <2>6
<1>3. BufferInv'
  BY <1>1, <1>2, EditedKeeps
<1>4. WalkInv'
  BY <1>1, <1>2, WalkRests
<1>5. QED BY <1>1, <1>2, <1>3, <1>4 DEF EditorInv

LEMMA UndoStep ==
  ASSUME EditorInv, Undo \/ Redo
  PROVE  EditorInv'
<1>1. ed \in Editors /\ BufferInv /\ WalkInv /\ grip \in Grips
  BY DEF EditorInv, BufferInv
<1>2. /\ ed' \in Editors /\ FirstText(ed') = FirstText(ed) /\ LastText(ed') = LastText(ed)
      /\ walk' = NotWalking /\ UNCHANGED <<grip, past, span>>
  BY <1>1, UndoneKeepsEnds, RedoneKeepsEnds DEF Undo, Redo, Did, Abandon, Same
<1>3. BufferInv'
  BY <1>1, <1>2 DEF BufferInv
<1>4. WalkInv'
  BY <1>1, <1>2, WalkRests
<1>5. QED BY <1>1, <1>2, <1>3, <1>4 DEF EditorInv

LEMMA TurnStep ==
  ASSUME EditorInv, Move \/ SelectAll \/ Press \/ Stretch
  PROVE  EditorInv'
<1>1. /\ ed \in Editors /\ BufferInv /\ WalkInv /\ grip \in Grips
      /\ ed.text \in Texts /\ Len(ed.text) \in Nat
  BY EditorParts, Ends DEF EditorInv, BufferInv
<1>2. Turns(ed, ed') /\ grip' \in Grips /\ UNCHANGED <<walk, span, past>>
  <2>1. CASE Move
    <3>1. PICK key \in {"left", "right", "word<", "word>", "home", "end", "doc<", "doc>"},
               extend \in {FALSE} \cup ({TRUE} \cap {Uses("extend")}) :
            Did(Moved(ed, Motion(ed, key), extend)) /\ UNCHANGED <<walk, span>> /\ Same
      BY <2>1 DEF Move
    <3>2. extend \in BOOLEAN
      OBVIOUS
    <3>3. IsBoundary(ed.text, Motion(ed, key))
      BY <1>1, MotionOnBoundary
    <3>4. QED BY <3>1, <3>2, <3>3, <1>1, MovedTurns DEF Did, Same
  <2>2. CASE SelectAll
    <3>1. IsBoundary(ed.text, 0) /\ IsBoundary(ed.text, Len(ed.text))
      BY <1>1, Ends
    <3>2. QED BY <2>2, <3>1, <1>1, SelectedTurns DEF SelectAll, Did, Same
  <2>3. CASE Press
    <3>1. PICK b \in 0..Len(ed.text), count \in 1..3 :
            /\ Did(Pressed(ed, Clamped(ed.text, b), count))
            /\ grip' = [count |-> count,
                        range |-> CASE count = 1 -> <<0, 0>>
                                    [] count = 2 -> WordRangeAt(ed.text, Clamped(ed.text, b))
                                    [] count = 3 -> LineRangeAt(ed.text, Clamped(ed.text, b))]
      BY <2>3 DEF Press
    <3> DEFINE i == Clamped(ed.text, b)
    <3>2. IsBoundary(ed.text, i)
      BY <1>1, ClampedOnBoundary
    <3> HIDE DEF i
    <3>3. Turns(ed, ed')
      BY <3>1, <3>2, <1>1, PressedTurns DEF Did, i
    <3>4. WordRangeAt(ed.text, i) \in Nat \X Nat /\ LineRangeAt(ed.text, i) \in Nat \X Nat
      <4>1. /\ WordRangeAt(ed.text, i)[1] \in Nat /\ WordRangeAt(ed.text, i)[2] \in Nat
            /\ LineRangeAt(ed.text, i)[1] \in Nat /\ LineRangeAt(ed.text, i)[2] \in Nat
        BY <1>1, <3>2, WordsOnBoundaries, LinesOnBoundaries, Ends
      <4>2. QED BY <4>1 DEF WordRangeAt, LineRangeAt
    <3>5. grip'.range \in Nat \X Nat /\ grip'.count \in 1..3
      BY <3>1, <3>4 DEF i
    <3>6. grip' \in Grips
      BY <3>1, <3>5 DEF Grips
    <3>7. QED BY <2>3, <3>3, <3>6 DEF Press
  <2>4. CASE Stretch
    <3>1. PICK b \in 0..Len(ed.text) : Did(Stretched(ed, Clamped(ed.text, b), grip))
      BY <2>4 DEF Stretch
    <3>2. IsBoundary(ed.text, Clamped(ed.text, b))
      BY <1>1, ClampedOnBoundary
    <3>3. QED BY <2>4, <3>1, <3>2, <1>1, StretchedTurns DEF Stretch, Did, Same
  <2>5. QED BY <2>1, <2>2, <2>3, <2>4
<1>3. BufferInv'
  BY <1>1, <1>2, TurnKeeps
<1>4. WalkInv'
  BY <1>1, <1>2, WalkRests
<1>5. QED BY <1>2, <1>3, <1>4 DEF EditorInv

-----------------------------------------------------------------------------
\* The walk

\* Where nothing is left out, everything is kept.
LEMMA KeepWhole ==
  ASSUME NEW S, NEW s \in Seq(S), NEW places, 1..Len(s) \subseteq places
  PROVE  Keep(s, places) = s
<1> DEFINE T == {t \in Seq(S) : 1..Len(t) \subseteq places => Keep(t, places) = t}
<1>1. <<>> \in T
  <2>1. <<>> \in Seq(S)
    OBVIOUS
  <2>2. QED BY <2>1, KeepNone
<1>2. ASSUME NEW t \in T \cap Seq(S), NEW x \in S PROVE Append(t, x) \in T
  <2> DEFINE u == Append(t, x)
  <2>1. /\ u \in Seq(S) /\ Len(u) = Len(t) + 1 /\ Len(t) \in Nat
        /\ Len(t) + 1 \in 1..Len(u) /\ 1..Len(t) \subseteq 1..Len(u)
    OBVIOUS
  <2>2. Keep(u, places) = IF Len(t) + 1 \in places THEN Append(Keep(t, places), x)
                          ELSE Keep(t, places)
    BY KeepAppend
  <2>3. u = Append(t, x)
    OBVIOUS
  <2> HIDE DEF u
  <2>4. ASSUME 1..Len(u) \subseteq places PROVE Keep(u, places) = u
    <3>1. Keep(t, places) = t /\ Len(t) + 1 \in places
      BY <2>1, <2>4
    <3>2. QED BY <2>2, <2>3, <3>1
  <2>5. u \in T
    BY <2>1, <2>4
  <2>6. QED BY <2>5 DEF u
<1>3. s \in T
  <2> HIDE DEF T
  <2>1. Seq(S) \subseteq T
    BY <1>1, <1>2, SeqInduction
  <2>2. QED BY <2>1
<1>4. QED BY <1>3

\* A text put in the place of what was there is what is there.
LEMMA ReplacedShows ==
  ASSUME NEW e \in Editors, NEW s \in Texts
  PROVE  Replaced(e, s).text = s
<1> DEFINE c == Cleared(e)
           kept == Keep(s, {i \in 1..Len(s) : s[i] # "x"})
           d == DeletedSelection(c)
<1>1. c \in Editors /\ c.text = <<>>
  BY ClearedCovers DEF Covers
<1>2. Replaced(e, s) = Pasted(c, s)
  BY DEF Replaced
<1> HIDE DEF c
<1>3. kept = s
  <2>1. s \in Seq(Bytes) /\ "x" \notin Bytes
    BY DEF Texts, Bytes
  <2>2. 1..Len(s) \subseteq {i \in 1..Len(s) : s[i] # "x"}
    BY <2>1
  <2>3. QED BY <2>1, <2>2, KeepWhole
<1>4. d.text = <<>> /\ d.cur = 0
  <2>1. /\ IsBoundary(<<>>, c.cur)
        /\ c.anc # None => IsBoundary(<<>>, c.anc)
    BY <1>1, EditorParts
  <2>2. c.cur = 0 /\ (c.anc # None => c.anc = 0)
    BY <2>1 DEF IsBoundary
  <2>3. ~HasSelection(c)
    BY <2>2 DEF HasSelection
  <2>4. QED BY <1>1, <2>2, <2>3, DeletedSelectionAlters
<1>5. Splice(<<>>, 0, 0, s) = s
  BY DEF Splice, Texts
<1> HIDE DEF d, kept
<1>6. "other" \in EditKinds \ {"none"}
  BY DEF EditKinds
<1>7. Pasted(c, s).text = Splice(d.text, d.cur, d.cur, kept)
  BY <1>1, <1>3, <1>6, InsertedCovers DEF Pasted, d, kept
<1>8. QED BY <1>2, <1>3, <1>4, <1>5, <1>7

\* An older entry of the walk, or the first.
LEMMA SteppedBackFits ==
  ASSUME WalkInv, ed.text \in Texts, ed.cur \in Nat
  PROVE  LET w == SteppedBack(walk, ed)
         IN  /\ w \in Walks /\ w.at <= Len(w.cached)
             /\ w.at # walk.at => w.at \in 1..Len(w.cached)
<1> DEFINE list == IF past # <<>> /\ past[1] = ed.text THEN Tail(past) ELSE past
           w == SteppedBack(walk, ed)
<1>1. /\ past \in Seq(Pasteable) /\ walk \in Walks /\ walk.at <= Len(walk.cached)
      /\ walk.at \in Nat /\ walk.cached \in Seq(Pasteable) /\ Len(walk.cached) \in Nat
  BY DEF WalkInv, Walks
<1>2. list \in Seq(Pasteable)
  BY <1>1, HeadTailProperties
<1>3. CASE Walking(walk)
  <2> DEFINE S == {walk.at + 1, Len(walk.cached)}
  <2>1. w = [walk EXCEPT !.at = Min(S)]
    BY <1>3 DEF SteppedBack
  <2>2. S \in SUBSET Nat /\ S # {} /\ Len(walk.cached) \in S
    BY <1>1
  <2> HIDE DEF S
  <2>3. Min(S) \in S /\ Min(S) <= Len(walk.cached)
    BY <2>2, MinOf
  <2>4. Min(S) >= walk.at /\ Min(S) \in Nat
    BY <1>1, <2>3 DEF S
  <2> HIDE DEF w
  <2>5. w \in Walks /\ w.at = Min(S) /\ w.cached = walk.cached
    BY <1>1, <2>1, <2>4 DEF Walks
  <2>6. walk.at > 0
    BY <1>3 DEF Walking
  <2>7. w.at <= Len(w.cached) /\ (w.at # walk.at => w.at \in 1..Len(w.cached))
    BY <1>1, <2>3, <2>4, <2>5, <2>6
  <2>8. QED BY <2>5, <2>7 DEF w
<1>4. CASE ~Walking(walk) /\ list = <<>>
  <2>1. w = [walk EXCEPT !.saved = <<>>, !.cached = <<>>]
    BY <1>4 DEF SteppedBack
  <2>2. walk.at = 0 /\ <<>> \in Texts /\ <<>> \in Seq(Pasteable)
    BY <1>1, <1>4, NewEditorFits DEF Walking
  <2> HIDE DEF w
  <2>3. w \in Walks /\ w.at = 0 /\ w.cached = <<>>
    BY <1>1, <2>1, <2>2 DEF Walks
  <2>4. QED BY <2>2, <2>3 DEF w
<1>5. CASE ~Walking(walk) /\ list # <<>>
  <2>1. w = [saved |-> ed.text, caret |-> ed.cur, cached |-> list, at |-> 1]
    BY <1>5 DEF SteppedBack
  <2>2. Len(list) \in Nat \ {0}
    BY <1>2, <1>5, EmptySeq
  <2> HIDE DEF w, list
  <2>3. w \in Walks /\ w.at = 1 /\ w.cached = list
    BY <1>2, <2>1 DEF Walks
  <2>4. QED BY <2>2, <2>3 DEF w
<1>6. QED BY <1>3, <1>4, <1>5

LEMMA UpStep ==
  ASSUME EditorInv, Up
  PROVE  EditorInv'
<1>1. /\ ed \in Editors /\ BufferInv /\ WalkInv /\ grip \in Grips
      /\ ed.text \in Texts /\ Len(ed.text) \in Nat /\ IsBoundary(ed.text, ed.cur)
      /\ ed.cur \in Nat /\ ed.cur <= Len(ed.text)
  BY EditorParts, Ends DEF EditorInv, BufferInv
<1>2. UNCHANGED <<grip, past>>
  BY DEF Up, Same
<1>3. CASE RowOf(ed.text, ed.cur) > 0
  <2>1. Did(Rowed(ed, RowOf(ed.text, ed.cur) - 1)) /\ UNCHANGED <<walk, span>>
    BY <1>3 DEF Up
  <2>2. /\ RowOf(ed.text, ed.cur) \in Nat /\ RowOf(ed.text, Len(ed.text)) \in Nat
        /\ RowOf(ed.text, ed.cur) <= RowOf(ed.text, Len(ed.text))
    BY <1>1, RowsRise
  <2>3. /\ RowOf(ed.text, ed.cur) - 1 \in Nat
        /\ RowOf(ed.text, ed.cur) - 1 <= RowOf(ed.text, Len(ed.text))
    BY <1>3, <2>2
  <2>4. Turns(ed, ed')
    BY <1>1, <2>1, <2>3, RowedTurns DEF Did
  <2>5. BufferInv' /\ WalkInv'
    BY <1>1, <1>2, <2>1, <2>4, TurnKeeps, WalkRests
  <2>6. QED BY <1>1, <1>2, <2>5 DEF EditorInv
<1>4. CASE ~(RowOf(ed.text, ed.cur) > 0)
  <2> DEFINE w1 == SteppedBack(walk, ed)
  <2>1. Edited(Recalled(ed, walk, w1)) /\ walk' = w1
    BY <1>4 DEF Up
  <2>2. w1 \in Walks /\ w1.at <= Len(w1.cached) /\ (w1.at # walk.at => w1.at \in 1..Len(w1.cached))
    BY <1>1, SteppedBackFits
  <2> HIDE DEF w1
  <2>3. Covers(ed, Recalled(ed, walk, w1))
    <3>1. CASE w1.at = walk.at
      BY <1>1, <3>1, CoversSelf DEF Recalled
    <3>2. CASE w1.at # walk.at
      <4>1. w1.cached[w1.at] \in Pasteable
        BY <2>2, <3>2 DEF Walks
      <4>2. QED BY <1>1, <3>2, <4>1, ReplacedCovers DEF Recalled
    <3>3. QED BY <3>1, <3>2
  <2>4. BufferInv'
    BY <1>1, <2>1, <2>3, EditedKeeps DEF Edited, Did
  <2>5. WalkInv'
    BY <1>1, <1>2, <2>1, <2>2 DEF WalkInv
  <2>6. QED BY <1>1, <1>2, <2>4, <2>5 DEF EditorInv
<1>5. QED BY <1>3, <1>4

LEMMA DownStep ==
  ASSUME EditorInv, Down
  PROVE  EditorInv'
<1>1. /\ ed \in Editors /\ BufferInv /\ WalkInv /\ grip \in Grips
      /\ ed.text \in Texts /\ Len(ed.text) \in Nat /\ IsBoundary(ed.text, ed.cur)
      /\ ed.cur \in Nat /\ ed.cur <= Len(ed.text)
  BY EditorParts, Ends DEF EditorInv, BufferInv
<1>2. UNCHANGED <<grip, past>>
  BY DEF Down, Same
<1>3. CASE RowOf(ed.text, ed.cur) < RowOf(ed.text, Len(ed.text))
  <2>1. Did(Rowed(ed, RowOf(ed.text, ed.cur) + 1)) /\ UNCHANGED <<walk, span>>
    BY <1>3 DEF Down
  <2>2. RowOf(ed.text, ed.cur) \in Nat /\ RowOf(ed.text, Len(ed.text)) \in Nat
    BY <1>1, RowsRise
  <2>3. /\ RowOf(ed.text, ed.cur) + 1 \in Nat
        /\ RowOf(ed.text, ed.cur) + 1 <= RowOf(ed.text, Len(ed.text))
    BY <1>3, <2>2
  <2>4. Turns(ed, ed')
    BY <1>1, <2>1, <2>3, RowedTurns DEF Did
  <2>5. BufferInv' /\ WalkInv'
    BY <1>1, <1>2, <2>1, <2>4, TurnKeeps, WalkRests
  <2>6. QED BY <1>1, <1>2, <2>5 DEF EditorInv
<1>4. CASE ~(RowOf(ed.text, ed.cur) < RowOf(ed.text, Len(ed.text)))
  <2> DEFINE new == CASE walk.at = 0 -> ed
                      [] walk.at = 1 -> Returned(ed, walk)
                      [] OTHER       -> Recalled(ed, walk, walk')
  <2>1. Edited(new) /\ walk' = SteppedForward(walk)
    BY <1>4 DEF Down
  <2>2. /\ walk \in Walks /\ walk.at \in Nat /\ walk.at <= Len(walk.cached)
        /\ walk.cached \in Seq(Pasteable) /\ Len(walk.cached) \in Nat
        /\ walk.saved \in Texts /\ walk.caret \in Nat
    BY <1>1 DEF WalkInv, Walks
  <2>3. WalkInv'
    <3>1. CASE walk.at <= 1
      BY <1>1, <1>2, <2>1, <3>1, WalkRests DEF SteppedForward
    <3>2. CASE ~(walk.at <= 1)
      <4>1. walk' = [walk EXCEPT !.at = @ - 1]
        BY <2>1, <3>2 DEF SteppedForward
      <4>2. walk' \in Walks /\ walk'.at = walk.at - 1 /\ walk'.cached = walk.cached
        BY <2>2, <3>2, <4>1 DEF Walks
      <4>3. QED BY <1>1, <1>2, <2>2, <4>2 DEF WalkInv
    <3>3. QED BY <3>1, <3>2
  <2>4. Covers(ed, new)
    <3>1. CASE walk.at = 0
      BY <1>1, <3>1, CoversSelf
    <3>2. CASE walk.at = 1
      <4> DEFINE r == Replaced(ed, walk.saved)
      <4>1. Covers(ed, r) /\ r \in Editors
        BY <1>1, <2>2, TextsArePasteable, ReplacedCovers DEF Covers
      <4>2. r.text = walk.saved
        BY <1>1, <2>2, ReplacedShows
      <4>3. IsBoundary(r.text, Clamped(walk.saved, walk.caret))
        BY <2>2, <4>2, ClampedOnBoundary
      <4>4. new = Moved(r, Clamped(walk.saved, walk.caret), FALSE)
        BY <3>2 DEF Returned
      <4> HIDE DEF r, new
      <4>5. Covers(r, new)
        BY <4>1, <4>3, <4>4, MovedTurns, TurnsCovers
      <4>6. QED BY <1>1, <4>1, <4>5, CoversTwice
    <3>3. CASE walk.at > 1
      <4>1. walk' = [walk EXCEPT !.at = @ - 1]
        BY <2>1, <2>2, <3>3 DEF SteppedForward
      <4>2. walk'.at = walk.at - 1 /\ walk'.cached = walk.cached
        BY <2>2, <4>1 DEF Walks
      <4>3. walk'.at # walk.at /\ walk'.cached[walk'.at] \in Pasteable
        BY <2>2, <3>3, <4>2
      <4>4. new = Replaced(ed, walk'.cached[walk'.at])
        BY <2>2, <3>3, <4>3 DEF Recalled
      <4> HIDE DEF new
      <4>5. QED BY <1>1, <4>3, <4>4, ReplacedCovers
    <3>4. QED BY <3>1, <3>2, <3>3, <2>2
  <2> HIDE DEF new
  <2>5. BufferInv'
    BY <1>1, <2>1, <2>4, EditedKeeps DEF Edited, Did
  <2>6. QED BY <1>1, <1>2, <2>3, <2>5 DEF EditorInv
<1>5. QED BY <1>3, <1>4

LEMMA SubmitStep ==
  ASSUME EditorInv, Submit \/ SubmitContinues
  PROVE  EditorInv'
<1>1. /\ ed \in Editors /\ WalkInv /\ grip \in Grips /\ ed.text \in Pasteable
      /\ past \in Seq(Pasteable)
  BY EditorParts, TextsArePasteable DEF EditorInv, BufferInv, WalkInv
<1>2. /\ Emptied(ed) \in Editors /\ Emptied(ed).text = <<>>
      /\ FirstText(Emptied(ed)) = <<>> /\ LastText(Emptied(ed)) = <<>>
  BY <1>1, EmptiedIsNew
<1>3. CASE Submit
  <2>1. /\ ed' = Emptied(ed) /\ walk' = NotWalking /\ grip' = grip
        /\ past' = <<ed.text>> \o past /\ span' = [from |-> <<>>, to |-> <<>>]
    BY <1>3 DEF Submit, Did, Abandon
  <2>2. BufferInv'
    BY <1>2, <2>1, NewEditorFits DEF BufferInv
  <2>3. past' \in Seq(Pasteable)
    <3>1. <<ed.text>> \in Seq(Pasteable)
      BY <1>1
    <3>2. QED BY <1>1, <2>1, <3>1, ConcatProperties
  <2>4. WalkInv'
    BY <2>1, <2>3, NewEditorFits DEF WalkInv, Walks, NotWalking
  <2>5. QED BY <1>1, <2>1, <2>2, <2>4 DEF EditorInv
<1>4. CASE SubmitContinues
  <2> DEFINE c == Cleared(Emptied(ed))
             p == Pasted(c, ed.text)
             e == Typed(p, <<"n">>)
  <2>1. /\ ed' = e /\ walk' = NotWalking /\ UNCHANGED <<grip, past>>
        /\ span' = [from |-> <<>>, to |-> e.text]
    BY <1>4 DEF SubmitContinues, Did, Abandon, Same
  <2>2. c \in Editors /\ FirstText(c) = <<>>
    BY <1>2, ClearedCovers DEF Covers
  <2> HIDE DEF c
  <2>3. p \in Editors /\ FirstText(p) = <<>>
    BY <1>1, <2>2, PastedCovers DEF Covers
  <2> HIDE DEF p
  <2>4. e \in Editors /\ FirstText(e) = <<>> /\ e.redo = <<>>
    <3>1. <<"n">> \in Chars
      BY DEF Chars
    <3>2. QED BY <2>3, <3>1, TypedCovers DEF Covers
  <2> HIDE DEF e
  <2>5. e.text \in Texts /\ LastText(e) = e.text
    BY <2>4, EditorParts DEF LastText
  <2>6. BufferInv'
    BY <2>1, <2>4, <2>5, NewEditorFits DEF BufferInv
  <2>7. WalkInv'
    BY <1>1, <2>1, WalkRests
  <2>8. QED BY <1>1, <2>1, <2>6, <2>7 DEF EditorInv
<1>5. QED BY <1>3, <1>4

LEMMA EditorSteps == EditorInv /\ [EditorNext]_editorVars => EditorInv'
<1> SUFFICES ASSUME EditorInv, [EditorNext]_editorVars PROVE EditorInv'
  OBVIOUS
<1>1. CASE Type \/ Paste \/ Delete \/ Transpose \/ Cut \/ Pick
  BY <1>1, EditStep
<1>2. CASE Undo \/ Redo
  BY <1>2, UndoStep
<1>3. CASE Move \/ SelectAll \/ Press \/ Stretch
  BY <1>3, TurnStep
<1>4. CASE Up
  BY <1>4, UpStep
<1>5. CASE Down
  BY <1>5, DownStep
<1>6. CASE Submit \/ SubmitContinues
  BY <1>6, SubmitStep
<1>7. CASE UNCHANGED editorVars
  BY <1>7 DEF editorVars, EditorInv, BufferInv, WalkInv
<1>8. QED BY <1>1, <1>2, <1>3, <1>4, <1>5, <1>6, <1>7 DEF EditorNext

\* For every text, key and bound: the caret and the anchor never split a
\* character, in what is shown nor in what an undo or a redo brings back
\* (prompt_editor.rs).
THEOREM CaretsStayOnBoundaries == EditorSpec => []CaretsOnBoundaries
<1>1. EditorInv => CaretsOnBoundaries
  <2> SUFFICES ASSUME EditorInv,
                      NEW shot \in {Snapshot(ed)} \cup ToSet(ed.undo) \cup ToSet(ed.redo)
               PROVE  IsBoundary(shot.text, shot.cur)
                      /\ (shot.anc # None => IsBoundary(shot.text, shot.anc))
    BY DEF CaretsOnBoundaries
  <2>1. ed.undo \in Seq(Shots) /\ ed.redo \in Seq(Shots) /\ Snapshot(ed) \in Shots
    BY EditorParts DEF EditorInv, BufferInv
  <2>2. shot \in Shots
    BY <2>1 DEF ToSet
  <2>3. QED BY <2>2 DEF Shots
<1>2. QED BY EditorStarts, EditorSteps, <1>1, PTL DEF EditorSpec

\* For every text, key and bound: undoing everything gives the text the session
\* began with, redoing everything the text last edited (prompt_editor.rs,
\* UndoStack).
THEOREM UndoIsComplete == EditorSpec => []UndoCoversEveryEdit
<1>1. EditorInv => UndoCoversEveryEdit
  BY DEF EditorInv, BufferInv, FirstText, LastText, UndoCoversEveryEdit
<1>2. QED BY EditorStarts, EditorSteps, <1>1, PTL DEF EditorSpec

-----------------------------------------------------------------------------
\* The size it is given

\* Sizes are whole, the smallest is not nothing, and a dead pane's panel fits.
SizeConstants ==
  /\ MinSize \in [rows : Nat \ {0}, cols : Nat \ {0}]
  /\ PaneAvail \subseteq [rows : Int, cols : Int]
  /\ \A a \in PaneAvail : a.rows >= MinSize.rows + 2
  /\ Debounce \in Nat
  /\ "hasty" \notin SizeMoves

Sizes ==
  /\ avail \in PaneAvail
  /\ phase \in {"boot", "live", "dead"}
  /\ "age" \in DOMAIN settling /\ settling.age \in Nat /\ steady \in Nat

Given == resizes.how # "restart" => refused \/ committed = NoSize \/ tty = committed

Waited == /\ steady >= settling.age
          /\ phase = "boot" => settling = Settled

Asked == quiet => committed = Target /\ settling = Settled

Restarted == resizes.how = "restart" => phase = "boot" /\ onScreen /\ committed # Target

SizeInv == Sizes /\ SizesAgree /\ Given /\ Waited /\ Asked /\ Restarted /\ OneResizePerDrag

-----------------------------------------------------------------------------

\* A size to ask for is never NoSize.
LEMMA TargetIsASize ==
  ASSUME SizeConstants, avail \in PaneAvail
  PROVE  /\ Target # NoSize
         /\ Target.rows \in Int
<1>1. avail.rows \in Int /\ MinSize.rows \in Nat \ {0} /\ Chrome \in Int
  BY DEF SizeConstants, Chrome
<1>2. Target.rows = AtLeast(avail.rows - Chrome, MinSize.rows)
  BY DEF Target
<1>3. AtLeast(avail.rows - Chrome, MinSize.rows) \in Nat \ {0}
  BY <1>1 DEF AtLeast
<1>4. NoSize.rows = 0
  BY DEF NoSize
<1>5. QED BY <1>2, <1>3, <1>4

\* A dead pane is at least one row smaller than the shell that is started in it.
LEMMA DeadIsSmaller ==
  ASSUME SizeConstants, avail \in PaneAvail, phase = "dead", phase' = "boot", UNCHANGED avail
  PROVE  Target # Target'
<1>1. avail.rows \in Int /\ MinSize.rows \in Nat /\ avail.rows >= MinSize.rows + 2
  BY DEF SizeConstants
<1>2. Chrome \in {2, 3} /\ Chrome' = 0
  BY DEF Chrome
<1>3. Target.rows = AtLeast(avail.rows - Chrome, MinSize.rows)
  BY DEF Target
<1>4. Target'.rows = AtLeast(avail.rows - 0, MinSize.rows)
  BY <1>2 DEF Target
<1>5. Target.rows < Target'.rows
  BY <1>1, <1>2, <1>3, <1>4 DEF AtLeast
<1>6. Target.rows \in Int
  BY TargetIsASize
<1>7. QED BY <1>5, <1>6

\* The target is what it was while what it is computed from stays.
LEMMA TargetStays ==
  ASSUME UNCHANGED <<avail, phase, altUp, notice>>
  PROVE  Target' = Target
BY DEF Target, Chrome, Gutter

-----------------------------------------------------------------------------
(* One lemma per kind of step.                                             *)

\* A frame while the shell starts commits to its own size.
LEMMA BootFrameKeeps ==
  ASSUME SizeConstants, SizeInv, BootFrame
  PROVE  SizeInv'
<1>1. Target' = Target /\ phase' = "boot" /\ avail' = avail /\ settling' = settling
  BY TargetStays DEF BootFrame
<1>2. committed' = Target /\ quiet' = TRUE /\ steady' = 0
  BY DEF BootFrame
<1>3. settling = Settled /\ settling.age = 0
  BY DEF BootFrame, SizeInv, Waited, Settled
<1>4. CASE committed # Target
  <2>1. Resized(Target) /\ resizes' = [how |-> "boot", held |-> 0]
    BY <1>4 DEF BootFrame
  <2>2. SizesAgree' /\ Given'
    BY <2>1, <1>2 DEF Resized, SizeInv, SizesAgree, Given
  <2>3. Restarted' /\ OneResizePerDrag'
    BY <2>1 DEF Restarted, OneResizePerDrag
  <2>4. QED BY <2>2, <2>3, <1>1, <1>2, <1>3 DEF SizeInv, Sizes, Waited, Asked
<1>5. CASE committed = Target
  <2>1. UNCHANGED <<tty, cells, refused>> /\ resizes' = NoResize
    BY <1>5 DEF BootFrame, NotResized
  <2>2. resizes.how # "restart"
    BY <1>5 DEF SizeInv, Restarted
  <2>3. SizesAgree' /\ Given'
    BY <2>1, <2>2, <1>2, <1>5 DEF SizeInv, SizesAgree, Given
  <2>4. Restarted' /\ OneResizePerDrag'
    BY <2>1 DEF Restarted, OneResizePerDrag, NoResize
  <2>5. QED BY <2>3, <2>4, <1>1, <1>2, <1>3 DEF SizeInv, Sizes, Waited, Asked
<1>6. QED BY <1>4, <1>5

\* Any later frame keeps what is committed and what is awaited right.
LEMMA SizeFrameKeeps ==
  ASSUME SizeConstants, SizeInv, SizeFrame
  PROVE  SizeInv'
<1>1. /\ Target' = Target /\ phase' = phase /\ phase # "boot" /\ avail' = avail
      /\ avail \in PaneAvail
  BY TargetStays DEF SizeFrame, SizeInv, Sizes
<1>2. Target # NoSize
  BY <1>1, TargetIsASize
<1>3. resizes.how # "restart"
  BY <1>1 DEF SizeInv, Restarted
<1>4. /\ settling.age \in Nat /\ steady \in Nat /\ steady >= settling.age /\ Debounce \in Nat
      /\ Held \in Nat
  BY DEF SizeInv, Sizes, Waited, SizeConstants, Held
<1>5. steady' \in Nat /\ steady' >= Held
  BY <1>4 DEF SizeFrame, Held
<1>6. /\ settling' = Plan.pending
      /\ committed' = IF Plan.commit THEN Target ELSE committed
      /\ quiet' = (Plan.pending = Settled)
      /\ Plan.commit => Resized(Target)
      /\ ~Plan.commit => UNCHANGED <<tty, cells, refused>>
      /\ resizes' = IF Plan.commit
                    THEN [how |-> IF committed = NoSize THEN "first" ELSE "settled", held |-> steady']
                    ELSE NoResize
  BY DEF SizeFrame, NotResized
<1>7. /\ Plan.pending = Settled \/ Plan.pending = [size |-> Target, age |-> Held]
      /\ Plan.pending = Settled => committed = Target \/ Plan.commit
      /\ Plan.commit => Plan.pending = Settled
      /\ Plan.commit => committed = NoSize \/ Held >= Debounce
  <2>1. [size |-> Target, age |-> Held].size # Settled.size
    BY <1>2 DEF Settled
  <2>2. QED BY <2>1 DEF Plan
<1>8. Sizes' /\ Waited'
  <2>1. "age" \in DOMAIN settling' /\ settling'.age \in Nat /\ settling'.age <= Held
    BY <1>4, <1>6, <1>7 DEF Settled
  <2>2. QED BY <2>1, <1>1, <1>4, <1>5 DEF Sizes, Waited, SizeInv
<1>9. SizesAgree' /\ Given'
  BY <1>3, <1>6 DEF SizeInv, SizesAgree, Given, Resized
<1>10. Asked' /\ Restarted'
  BY <1>1, <1>6, <1>7 DEF Asked, Restarted, NoResize
<1>11. OneResizePerDrag'
  BY <1>4, <1>5, <1>6, <1>7 DEF OneResizePerDrag, NoResize
<1>12. QED BY <1>8, <1>9, <1>10, <1>11 DEF SizeInv

\* Time passing does.
LEMMA TickKeeps ==
  ASSUME SizeConstants, SizeInv, Tick
  PROVE  SizeInv'
<1>1. /\ settling.size # NoSize /\ settling' = [settling EXCEPT !.age = @ + 1]
      /\ settling.age < Debounce /\ steady' = IF steady < Debounce THEN steady + 1 ELSE steady
      /\ resizes' = NoResize /\ quiet' = FALSE
      /\ UNCHANGED <<avail, onScreen, phase, altUp, notice, tty, cells, committed, refused>>
  BY DEF Tick
<1>2. phase # "boot"
  BY <1>1 DEF SizeInv, Waited, Settled
<1>3. resizes.how # "restart"
  BY <1>2 DEF SizeInv, Restarted
<1>4. settling'.age = settling.age + 1
  <2>1. "age" \in DOMAIN settling
    BY DEF SizeInv, Sizes
  <2>2. QED BY <1>1, <2>1
<1>5. Sizes' /\ Waited'
  BY <1>1, <1>2, <1>4 DEF SizeInv, Sizes, Waited, SizeConstants
<1>6. QED BY <1>1, <1>3, <1>5
          DEF SizeInv, SizesAgree, Given, Asked, Restarted, OneResizePerDrag, NoResize

\* The window, the tab, the screen or the shell changes.
LEMMA ChangeKeeps ==
  ASSUME SizeConstants, SizeInv,
         ResizeWindow \/ ChooseTab \/ Ready \/ Dismiss \/ SwitchScreen \/ Exit
  PROVE  SizeInv'
<1>1. /\ Between
      /\ UNCHANGED <<tty, cells, committed, refused>>
      /\ avail' = avail \/ avail' \in PaneAvail
      /\ phase' = phase \/ phase' \in {"live", "dead"}
  BY DEF ResizeWindow, ChooseTab, Ready, Dismiss, SwitchScreen, Exit
<1>2. resizes' = NoResize /\ quiet' = FALSE /\ UNCHANGED <<settling, steady>>
  BY <1>1 DEF Between, Changed
<1>3. resizes.how # "restart"
  BY <1>1 DEF Between, Changed, SizeConstants
<1>4. QED BY <1>1, <1>2, <1>3
          DEF SizeInv, Sizes, Waited, SizesAgree, Given, Asked, Restarted, OneResizePerDrag,
              NoResize

\* A restart does, and is mended by the next frame.
LEMMA RestartKeeps ==
  ASSUME SizeConstants, SizeInv, Restart
  PROVE  SizeInv'
<1>1. /\ phase = "dead" /\ onScreen /\ quiet /\ phase' = "boot"
      /\ resizes' = [how |-> "restart", held |-> 0] /\ tty' = cells'
      /\ UNCHANGED <<avail, onScreen, committed>>
  BY DEF Restart, SizeConstants
<1>2. quiet' = FALSE /\ UNCHANGED <<settling, steady>>
  BY DEF Restart, Changed
<1>3. committed = Target /\ settling = Settled
  BY <1>1 DEF SizeInv, Asked
<1>4. Target # Target'
  BY <1>1, DeadIsSmaller DEF SizeInv, Sizes
<1>5. QED BY <1>1, <1>2, <1>3, <1>4
          DEF SizeInv, Sizes, Waited, SizesAgree, Given, Asked, Restarted, OneResizePerDrag

\* At first no size has been committed to.
LEMMA SizeInvStarts == ASSUME SizeConstants, SizeInit PROVE SizeInv
BY DEF SizeInit, SizeInv, Sizes, SizesAgree, Given, Waited, Asked, Restarted, OneResizePerDrag,
       Settled, NoResize

\* The invariant in the words of the properties.
LEMMA QuietIsSized == ASSUME SizeConstants, SizeInv PROVE ShellGetsItsSize
<1> SUFFICES ASSUME quiet, ~refused, phase # "dead" PROVE tty = Target
  BY DEF ShellGetsItsSize
<1>1. committed = Target /\ resizes.how # "restart"
  BY DEF SizeInv, Asked, Restarted
<1>2. Target # NoSize
  BY TargetIsASize DEF SizeInv, Sizes
<1>3. QED BY <1>1, <1>2 DEF SizeInv, Given

\* For every window, debounce and bound: the terminal and the grid agree, the
\* shell ends up with the size its pane is painted in, restarts and failed
\* resizes included, and a drag is one SIGWINCH (plan_resize, restart_pane).
THEOREM SizesAreRight ==
  ASSUME SizeConstants
  PROVE  SizeSpec => []SizesSettle
<1>1. SizeInit => SizeInv
  BY SizeInvStarts
<1>2. SizeInv /\ [SizeNext]_sizeVars => SizeInv'
  <2> SUFFICES ASSUME SizeInv, [SizeNext]_sizeVars PROVE SizeInv'
    OBVIOUS
  <2>1. CASE BootFrame
    BY <2>1, BootFrameKeeps
  <2>2. CASE SizeFrame
    BY <2>2, SizeFrameKeeps
  <2>3. CASE Tick
    BY <2>3, TickKeeps
  <2>4. CASE ResizeWindow \/ ChooseTab \/ Ready \/ Dismiss \/ SwitchScreen \/ Exit
    BY <2>4, ChangeKeeps
  <2>5. CASE Restart
    BY <2>5, RestartKeeps
  <2>6. CASE UNCHANGED sizeVars
    BY <2>6, TargetStays
       DEF sizeVars, SizeInv, Sizes, SizesAgree, Given, Waited, Asked, Restarted,
           OneResizePerDrag
  <2>7. QED BY <2>1, <2>2, <2>3, <2>4, <2>5, <2>6 DEF SizeNext
<1>3. SizeInv => SizesSettle
  BY QuietIsSized DEF SizeInv, SizesSettle
<1>4. QED BY <1>1, <1>2, <1>3, PTL DEF SizeSpec
-----------------------------------------------------------------------------
(***************************************************************************)
(* The keyboard                                                            *)
(***************************************************************************)

PopupSets == {{}, {"completion"}, {"history"}, {"find"}, {"sheet"}}
Panes == [mode : {"raw", "editor", "alt"}, text : {0, 1}, cont : BOOLEAN, popups : PopupSets,
          pending : BOOLEAN, needs : BOOLEAN]
Foci == {Nowhere, Grid(1), Grid(2), Field(1), Field(2)}
Entries == [i : Nat, key : KeyNames \cup {"wheel"}, pane : Sides,
            to : {"popup", "editor", "pty", "clipboard"}, empty : BOOLEAN]
Rendering == [slots : [Sides -> Panes], focus : Foci, log : Seq(Entries), act : [Sides -> Nat],
              touched : BOOLEAN]
Plans == {"open", "await", "close"}
Frames == [keys : Seq(KeyNames), press : 0..2, wheel : 0..2, shift : BOOLEAN, plan : Plans,
           owner : 0..2, on : {"none", "grid", "field"}, modal : BOOLEAN, found : [Sides -> Panes]]

\* A frame in which what is copied comes alone.
CopiedAlone(fr) ==
  \A i \in DOMAIN fr.keys : /\ CopyClaims(fr, fr.keys[i]) <=> fr.keys[i] = "copy"
                            /\ fr.keys[i] = "copy" => Len(fr.keys) = 1

\* The keys that mean something to a program
Typeable == {"x", "enter", "esc", "tab", "ctrl_c", "ctrl_d", "ctrl_x"}
\* The keys an open overlay leaves to others
Calm == {"sheet", "history", "copy", "wheel"}

\* What a shell may see of a key while the editor owns the line, if pane q was
\* found
Permitted(e, q) ==
  e.to = "pty" => /\ e.key # "copy"
                  /\ Editing(q) => \/ e.key = "ctrl_d" /\ e.empty
                                   \/ e.key = "ctrl_c" /\ q.cont

\* An entry says what key of the frame it is of.
Telling(e, p, ks) ==
  /\ e.pane = p
  /\ \/ e.i = 0 /\ e.key = "wheel" /\ e.to = "pty"
     \/ e.i \in DOMAIN ks /\ e.key = ks[e.i]

\* The log of one pane: each key once, the program's in their order
Neat(l, p, ks, q) ==
  /\ \A j \in DOMAIN l : Telling(l[j], p, ks) /\ Permitted(l[j], q)
  /\ \A j, k \in DOMAIN l : l[j].i = l[k].i => j = k
  /\ \A j, k \in DOMAIN l : l[j].to = "pty" /\ l[k].to = "pty" /\ j < k => l[j].i < l[k].i

\* The entries of a log
Told(l) == {l[j] : j \in DOMAIN l}

\* A step that only adds to the log, and one that adds the entry of key i
OnlyLogs(r, s) == r.slots = s.slots /\ r.focus = s.focus /\ r.act = s.act /\ r.touched = s.touched
Adds(r, s, i, key, to) ==
  /\ OnlyLogs(r, s)
  /\ \E e \in Entries : e.i = i /\ e.key = key /\ e.to = to /\ Told(r.log) = Told(s.log) \cup {e}

-----------------------------------------------------------------------------

\* An entry of a key that has none yet keeps a log neat.
LEMMA NeatAppend ==
  ASSUME NEW l \in Seq(Entries), NEW p \in Sides, NEW ks \in Seq(KeyNames), NEW q,
         NEW e \in Entries, Neat(l, p, ks, q), Telling(e, p, ks), Permitted(e, q),
         \A j \in DOMAIN l : l[j].i # e.i,
         e.to = "pty" => \A j \in DOMAIN l : l[j].to = "pty" => l[j].i < e.i
  PROVE  /\ Neat(Append(l, e), p, ks, q)
         /\ Append(l, e) \in Seq(Entries)
         /\ DOMAIN Append(l, e) = 1..(Len(l) + 1)
         /\ \A j \in DOMAIN Append(l, e) :
              Append(l, e)[j] = IF j = Len(l) + 1 THEN e ELSE l[j]
<1> DEFINE m == Append(l, e)
<1>1. /\ m \in Seq(Entries) /\ DOMAIN l = 1..Len(l) /\ Len(l) \in Nat
      /\ DOMAIN m = 1..(Len(l) + 1) /\ m[Len(l) + 1] = e
      /\ \A j \in 1..Len(l) : m[j] = l[j]
  OBVIOUS
<1> HIDE DEF m
<1>2. \A j \in DOMAIN m : j \in DOMAIN l \/ j = Len(l) + 1
  BY <1>1
<1>3. \A j \in DOMAIN m : Telling(m[j], p, ks) /\ Permitted(m[j], q)
  <2>1. \A j \in DOMAIN l : Telling(l[j], p, ks) /\ Permitted(l[j], q)
    BY DEF Neat
  <2>2. QED BY <2>1, <1>1, <1>2
<1>4. \A j, k \in DOMAIN m : m[j].i = m[k].i => j = k
  <2>1. \A j, k \in DOMAIN l : l[j].i = l[k].i => j = k
    BY DEF Neat
  <2>2. QED BY <2>1, <1>1, <1>2
<1>5. ASSUME NEW j \in DOMAIN m, NEW k \in DOMAIN m, m[j].to = "pty", m[k].to = "pty", j < k
      PROVE  m[j].i < m[k].i
  <2>1. \A a, b \in DOMAIN l : l[a].to = "pty" /\ l[b].to = "pty" /\ a < b => l[a].i < l[b].i
    BY DEF Neat
  <2>2. j \in DOMAIN l /\ m[j] = l[j]
    BY <1>1, <1>2, <1>5
  <2>3. CASE k = Len(l) + 1
    BY <1>1, <1>5, <2>2, <2>3
  <2>4. CASE k \in DOMAIN l
    BY <1>1, <1>5, <2>1, <2>2, <2>4
  <2>5. QED BY <2>3, <2>4, <1>2
<1>6. QED BY <1>1, <1>2, <1>3, <1>4, <1>5 DEF Neat, m

\* A key is delivered by one more entry.
LEMMA DeliverIs ==
  ASSUME NEW s \in Rendering, NEW p \in Sides, NEW i \in Nat, NEW key \in KeyNames \cup {"wheel"},
         NEW to \in {"popup", "editor", "pty", "clipboard"},
         NEW e, e = [i |-> i, key |-> key, pane |-> p, to |-> to, empty |-> Empty(s.slots[p])]
  PROVE  /\ Deliver(s, p, i, key, to) \in Rendering /\ e \in Entries
         /\ OnlyLogs(Deliver(s, p, i, key, to), s)
         /\ Deliver(s, p, i, key, to).log = Append(s.log, e)
<1> DEFINE d == Deliver(s, p, i, key, to)
<1>1. Empty(s.slots[p]) \in BOOLEAN
  BY DEF Empty
<1>2. e \in Entries
  BY <1>1 DEF Entries
<1>3. Append(s.log, e) \in Seq(Entries)
  BY <1>2 DEF Rendering
<1>4. d = [s EXCEPT !.log = Append(s.log, e)]
  BY DEF Deliver
<1>5. /\ d \in Rendering
      /\ d.slots = s.slots /\ d.focus = s.focus /\ d.act = s.act /\ d.touched = s.touched
      /\ d.log = Append(s.log, e)
  BY <1>3, <1>4 DEF Rendering
<1>6. QED BY <1>2, <1>5 DEF OnlyLogs

\* A key of the frame that has no entry yet is delivered neatly, to a program
\* if none of its later keys was.
LEMMA DeliverNeat ==
  ASSUME NEW s \in Rendering, NEW p \in Sides, NEW ks \in Seq(KeyNames), NEW q,
         NEW i \in Nat, NEW key \in KeyNames \cup {"wheel"},
         NEW to \in {"popup", "editor", "pty", "clipboard"}, Neat(s.log, p, ks, q),
         \/ i = 0 /\ key = "wheel" /\ to = "pty"
         \/ i \in DOMAIN ks /\ key = ks[i],
         to = "pty" => /\ key # "copy"
                       /\ Editing(q) => \/ key = "ctrl_d" /\ Empty(s.slots[p])
                                        \/ key = "ctrl_c" /\ q.cont,
         \A e \in Told(s.log) : e.i # i /\ (to = "pty" /\ e.to = "pty" => e.i < i)
  PROVE  /\ Deliver(s, p, i, key, to) \in Rendering
         /\ Neat(Deliver(s, p, i, key, to).log, p, ks, q)
         /\ Adds(Deliver(s, p, i, key, to), s, i, key, to)
<1> DEFINE d == Deliver(s, p, i, key, to)
<1>1. PICK e : e = [i |-> i, key |-> key, pane |-> p, to |-> to, empty |-> Empty(s.slots[p])]
  OBVIOUS
<1>2. e.i = i /\ e.key = key /\ e.pane = p /\ e.to = to /\ e.empty = Empty(s.slots[p])
  BY <1>1
<1>3. d \in Rendering /\ e \in Entries /\ OnlyLogs(d, s) /\ d.log = Append(s.log, e)
  BY <1>1, DeliverIs
<1>4. Telling(e, p, ks) /\ Permitted(e, q)
  BY <1>2 DEF Telling, Permitted
<1>5. \A j \in DOMAIN s.log : /\ s.log[j].i # e.i
                              /\ e.to = "pty" /\ s.log[j].to = "pty" => s.log[j].i < e.i
  BY <1>2 DEF Told
<1>6. s.log \in Seq(Entries)
  BY DEF Rendering
<1> HIDE DEF d
<1>7. /\ Neat(d.log, p, ks, q)
      /\ DOMAIN d.log = 1..(Len(s.log) + 1)
      /\ \A j \in DOMAIN d.log : d.log[j] = IF j = Len(s.log) + 1 THEN e ELSE s.log[j]
  BY <1>3, <1>4, <1>5, <1>6, NeatAppend
<1>8. Told(d.log) = Told(s.log) \cup {e}
  <2>1. DOMAIN s.log = 1..Len(s.log) /\ Len(s.log) \in Nat
    BY <1>6
  <2>2. ASSUME NEW j \in DOMAIN d.log PROVE d.log[j] \in Told(s.log) \cup {e}
    BY <1>7, <2>1 DEF Told
  <2>3. ASSUME NEW j \in DOMAIN s.log PROVE j \in DOMAIN d.log /\ d.log[j] = s.log[j]
    BY <1>7, <2>1
  <2>4. Len(s.log) + 1 \in DOMAIN d.log /\ d.log[Len(s.log) + 1] = e
    BY <1>7, <2>1
  <2>5. Told(d.log) \subseteq Told(s.log) \cup {e}
    BY <2>2 DEF Told
  <2>6. Told(s.log) \subseteq Told(d.log) /\ e \in Told(d.log)
    BY <2>3, <2>4 DEF Told
  <2>7. QED BY <2>5, <2>6
<1>9. QED BY <1>2, <1>3, <1>7, <1>8 DEF Adds, d

-----------------------------------------------------------------------------
(* One pane's part of a frame, step by step                                *)

\* A step of pane p's leaves the other pane's state alone.
Apart(r, s, p) == \A q \in Sides : q # p => r.slots[q] = s.slots[q] /\ r.act[q] = s.act[q]

\* What a pane's editor is to its program
SameMode(r, s, p) == r.slots[p].mode = s.slots[p].mode /\ r.slots[p].cont = s.slots[p].cont

\* The start of a pane's frame, before it claims the focus
Begun(s, p, fr) == Grabbed(NoEditor([s EXCEPT !.touched = FALSE], p), p, fr)

\* It drops the completion of a pane that has no editor.
Begins(r, s, p, fr) ==
  /\ r \in Rendering /\ r.log = s.log /\ Apart(r, s, p) /\ r.act = s.act /\ ~r.touched
  /\ SameMode(r, s, p) /\ r.slots[p].needs = s.slots[p].needs
  /\ r.slots[p].popups = IF Editing(s.slots[p]) THEN s.slots[p].popups
                         ELSE s.slots[p].popups \ {"completion"}
  /\ r.focus = IF fr.press = p /\ ~modal THEN Grid(p) ELSE s.focus

LEMMA BegunIs ==
  ASSUME NEW s \in Rendering, NEW p \in Sides, NEW fr
  PROVE  Begins(Begun(s, p, fr), s, p, fr)
<1> DEFINE a == [s EXCEPT !.touched = FALSE]
           b == NoEditor(a, p)
<1>1. /\ a \in Rendering /\ a.slots = s.slots /\ a.log = s.log /\ a.act = s.act /\ a.focus = s.focus
      /\ a.touched = FALSE
  BY DEF Rendering
<1> HIDE DEF a
<1>2. /\ b \in Rendering /\ b.log = s.log /\ Apart(b, s, p) /\ b.act = s.act /\ ~b.touched
      /\ SameMode(b, s, p) /\ b.slots[p].needs = s.slots[p].needs /\ b.focus = s.focus
      /\ b.slots[p].popups = IF Editing(s.slots[p]) THEN s.slots[p].popups
                             ELSE s.slots[p].popups \ {"completion"}
  <2>1. CASE Editing(s.slots[p])
    BY <1>1, <2>1 DEF NoEditor, Apart, SameMode
  <2>2. CASE ~Editing(s.slots[p])
    <3> DEFINE w == [s.slots[p] EXCEPT !.popups = @ \ {"completion"}, !.pending = FALSE]
    <3>1. b = [a EXCEPT !.slots = [@ EXCEPT ![p] = w]]
      BY <1>1, <2>2 DEF NoEditor
    <3>2. s.slots[p] \in Panes /\ s.slots \in [Sides -> Panes]
      BY DEF Rendering
    <3>3. s.slots[p].popups \ {"completion"} \in PopupSets
      BY <3>2 DEF Panes, PopupSets
    <3>4. /\ w \in Panes /\ w.mode = s.slots[p].mode /\ w.cont = s.slots[p].cont
          /\ w.needs = s.slots[p].needs /\ w.popups = s.slots[p].popups \ {"completion"}
      BY <3>2, <3>3 DEF Panes
    <3> HIDE DEF w
    <3>5. /\ b.slots = [s.slots EXCEPT ![p] = w] /\ b.log = s.log /\ b.act = s.act
          /\ b.focus = s.focus /\ ~b.touched /\ b \in Rendering
      BY <1>1, <3>1, <3>2, <3>4 DEF Rendering
    <3>6. b.slots[p] = w /\ \A q \in Sides : q # p => b.slots[q] = s.slots[q]
      BY <3>2, <3>5
    <3>7. QED BY <2>2, <3>4, <3>5, <3>6 DEF Apart, SameMode
  <2>3. QED BY <2>1, <2>2
<1>3. Begun(s, p, fr) = IF fr.press = p /\ ~modal THEN [b EXCEPT !.focus = Grid(p)] ELSE b
  BY DEF Begun, Grabbed, a
<1> HIDE DEF b
<1>4. Grid(p) \in Foci
  BY DEF Foci, Sides
<1>5. QED BY <1>2, <1>3, <1>4 DEF Begins, Rendering, Apart, SameMode

\* Then it claims the focus if it was asked to, or if nobody has it.
LEMMA ClaimedIs ==
  ASSUME NEW s \in Rendering, NEW p \in Sides
  PROVE  LET r == Claimed(s, p)
         IN  /\ r \in Rendering /\ r.log = s.log /\ Apart(r, s, p) /\ r.act = s.act
             /\ r.touched = s.touched /\ SameMode(r, s, p) /\ ~r.slots[p].needs
             /\ r.slots[p].popups = s.slots[p].popups
             /\ r.focus = IF ~modal /\ (s.slots[p].needs \/ s.focus = Nowhere) THEN Grid(p)
                          ELSE s.focus
<1> DEFINE w == [s.slots[p] EXCEPT !.needs = FALSE]
           f == IF ~modal /\ (s.slots[p].needs \/ s.focus = Nowhere) THEN Grid(p) ELSE s.focus
           r == Claimed(s, p)
<1>1. s.slots[p] \in Panes /\ s.slots \in [Sides -> Panes] /\ s.focus \in Foci
  BY DEF Rendering
<1>2. f \in Foci
  BY <1>1 DEF Foci, Sides
<1>3. /\ w \in Panes /\ w.mode = s.slots[p].mode /\ w.cont = s.slots[p].cont /\ ~w.needs
      /\ w.popups = s.slots[p].popups
  BY <1>1 DEF Panes
<1>4. r = [s EXCEPT !.slots = [@ EXCEPT ![p] = w], !.focus = f]
  BY DEF Claimed, Rendering
<1> HIDE DEF w, f, r
<1>5. /\ r.slots = [s.slots EXCEPT ![p] = w] /\ r.log = s.log /\ r.act = s.act /\ r.focus = f
      /\ r.touched = s.touched /\ r \in Rendering
  BY <1>1, <1>2, <1>3, <1>4 DEF Rendering
<1>6. r.slots[p] = w /\ \A q \in Sides : q # p => r.slots[q] = s.slots[q]
  BY <1>1, <1>5
<1>7. QED BY <1>3, <1>5, <1>6 DEF Apart, SameMode, r, f

\* One pane's record replaced
LEMMA PaneIs ==
  ASSUME NEW s \in Rendering, NEW p \in Sides, NEW w \in Panes
  PROVE  LET r == [s EXCEPT !.slots[p] = w]
         IN  /\ r \in Rendering /\ r.slots[p] = w /\ Apart(r, s, p)
             /\ r.log = s.log /\ r.act = s.act /\ r.focus = s.focus /\ r.touched = s.touched
             /\ \A q \in Sides : r.slots[q] = IF q = p THEN w ELSE s.slots[q]
<1> DEFINE r == [s EXCEPT !.slots[p] = w]
<1>1. s.slots \in [Sides -> Panes]
  BY DEF Rendering
<1>2. /\ r.slots = [s.slots EXCEPT ![p] = w] /\ r \in Rendering
      /\ r.log = s.log /\ r.act = s.act /\ r.focus = s.focus /\ r.touched = s.touched
  BY <1>1 DEF Rendering
<1> HIDE DEF r
<1>3. \A q \in Sides : r.slots[q] = IF q = p THEN w ELSE s.slots[q]
  BY <1>1, <1>2
<1>4. QED BY <1>2, <1>3 DEF Apart, r

\* An overlay that is not up does nothing.
LEMMA OtherOverlay ==
  ASSUME NEW s, NEW p, NEW fr, NEW kind, kind \notin s.slots[p].popups
  PROVE  Overlay(s, p, fr, kind) = s
BY DEF Overlay

\* A pane with no popup and no keyboard leaves the frame's keys alone; at most
\* it claims the focus.
LEMMA QuietIs ==
  ASSUME NEW s \in Rendering, NEW p \in Sides, NEW fr,
         s.slots[p].popups = {}, fr.press # p, modal \/ s.focus # Grid(p)
  PROVE  LET r == Rendered(s, p, fr)
         IN  /\ r \in Rendering /\ r.log = s.log /\ Apart(r, s, p) /\ r.act = s.act
             /\ SameMode(r, s, p) /\ ~r.slots[p].needs /\ r.slots[p].popups = {}
             /\ r.focus = IF ~modal /\ (s.slots[p].needs \/ s.focus = Nowhere) THEN Grid(p)
                          ELSE s.focus
<1> DEFINE s1 == Begun(s, p, fr)
           s2 == Claimed(s1, p)
<1>1. /\ s1 \in Rendering /\ s1.log = s.log /\ Apart(s1, s, p) /\ s1.act = s.act
      /\ SameMode(s1, s, p) /\ s1.slots[p].needs = s.slots[p].needs /\ s1.slots[p].popups = {}
      /\ s1.focus = s.focus
  <2>1. Begins(s1, s, p, fr)
    BY BegunIs
  <2> HIDE DEF s1
  <2>2. QED BY <2>1 DEF Begins
<1>2. /\ s2 \in Rendering /\ s2.log = s.log /\ Apart(s2, s, p) /\ s2.act = s.act
      /\ SameMode(s2, s, p) /\ ~s2.slots[p].needs /\ s2.slots[p].popups = {}
      /\ s2.focus = IF ~modal /\ (s.slots[p].needs \/ s.focus = Nowhere) THEN Grid(p)
                    ELSE s.focus
  <2> HIDE DEF s1
  <2>1. QED BY <1>1, ClaimedIs DEF Apart, SameMode
<1>3. \A kind \in Overlays : Overlay(s2, p, fr, kind) = s2
  <2> HIDE DEF s2
  <2>1. \A kind : kind \notin s2.slots[p].popups
    BY <1>2
  <2>2. QED BY <2>1, OtherOverlay
<1>4. Rendered(s, p, fr) = s2
  <2> DEFINE had == s1.focus = Grid(p)
             s3 == IF ~modal /\ (had \/ s2.slots[p].popups # {}) THEN Chords(s2, p, fr) ELSE s2
             s4 == IF ~modal /\ had THEN Refiltered(Keyboard(s3, p, fr), p, fr) ELSE s3
  <2>a. Rendered(s, p, fr)
          = Overlay(Overlay(Overlay(s4, p, fr, "history"), p, fr, "find"), p, fr, "sheet")
    BY Zenon DEF Rendered, Begun
  <2>b. ~(~modal /\ had) /\ s2.slots[p].popups = {}
    BY <1>1, <1>2
  <2> HIDE DEF s1, s2, had
  <2>c. s3 = s2
    BY <2>b
  <2> HIDE DEF s3
  <2>d. s4 = s2
    BY <2>b, <2>c
  <2> HIDE DEF s4
  <2>1. Rendered(s, p, fr)
          = Overlay(Overlay(Overlay(s2, p, fr, "history"), p, fr, "find"), p, fr, "sheet")
    BY <2>a, <2>d
  <2>2. QED BY <2>1, <1>3 DEF Overlays
<1> HIDE DEF s2
<1>5. QED BY <1>2, <1>4

\* The first chord of a frame opens a popup or asks for find.
Chorded(r, s, p, ks, q) ==
  /\ r \in Rendering /\ Apart(r, s, p) /\ SameMode(r, s, p)
  /\ r.focus = s.focus /\ r.touched = s.touched
  /\ \/ /\ r.log = <<>> /\ r.slots = s.slots
        /\ \/ r.act = s.act
           \/ r.act[p] \in DOMAIN ks /\ ks[r.act[p]] = "find"
     \/ /\ r.act = s.act /\ Neat(r.log, p, ks, q)
        /\ \A e \in Told(r.log) : e.key \in {"sheet", "history"} /\ e.to = "popup"
        /\ r.slots[p].popups \in {{"sheet"}, {"history"}}
        /\ \E i \in DOMAIN ks : \/ ks[i] = "sheet"
                                \/ ks[i] = "history" /\ Editing(s.slots[p])

LEMMA ChordsIs ==
  ASSUME NEW s \in Rendering, NEW p \in Sides, NEW fr, NEW q,
         fr.keys \in Seq(KeyNames), s.log = <<>>
  PROVE  Chorded(Chords(s, p, fr), s, p, fr.keys, q)
<1> DEFINE is == {i \in DOMAIN fr.keys : Chord(s, p, fr.keys[i])}
           i == CHOOSE j \in is : \A k \in is : j <= k
           r == Chords(s, p, fr)
<1>1. CASE is = {}
  BY <1>1 DEF Chorded, Chords, Apart, SameMode
<1>2. CASE is # {}
  <2>1. is \in SUBSET Nat
    OBVIOUS
  <2>2. \E j \in is : \A k \in is : j <= k
    BY <1>2, <2>1, Least
  <2>3. i \in is
    BY <2>2
  <2> HIDE DEF i
  <2>4. /\ i \in DOMAIN fr.keys /\ i \in Nat \ {0} /\ fr.keys[i] \in {"sheet", "find", "history"}
        /\ fr.keys[i] = "history" => Editing(s.slots[p])
    BY <2>3 DEF Chord
  <2>5. CASE fr.keys[i] = "find"
    <3>1. r = [s EXCEPT !.act = [@ EXCEPT ![p] = i]]
      BY <1>2, <2>5 DEF Chords, i
    <3>2. s.act \in [Sides -> Nat]
      BY DEF Rendering
    <3>3. /\ r.act = [s.act EXCEPT ![p] = i] /\ r.slots = s.slots /\ r.log = s.log
          /\ r.focus = s.focus /\ r.touched = s.touched /\ r \in Rendering
      BY <3>1, <3>2, <2>4 DEF Rendering
    <3>4. r.act[p] = i /\ \A k \in Sides : k # p => r.act[k] = s.act[k]
      BY <3>2, <3>3
    <3> HIDE DEF r
    <3>5. QED BY <3>3, <3>4, <2>4, <2>5 DEF Chorded, Apart, SameMode, r
  <2>6. CASE fr.keys[i] # "find"
    <3> DEFINE d == Deliver(s, p, i, fr.keys[i], "popup")
               w == [s.slots[p] EXCEPT !.popups = {fr.keys[i]}, !.pending = FALSE]
    <3>1. i \in Nat /\ fr.keys[i] \in KeyNames \cup {"wheel"}
      BY <2>4 DEF KeyNames
    <3>2. Neat(s.log, p, fr.keys, q) /\ Told(s.log) = {}
      BY DEF Neat, Told
    <3>3. /\ d \in Rendering /\ Neat(d.log, p, fr.keys, q)
          /\ Adds(d, s, i, fr.keys[i], "popup")
      BY <2>4, <3>1, <3>2, DeliverNeat
    <3>4. s.slots[p] \in Panes /\ {fr.keys[i]} \in PopupSets
      BY <2>4, <2>6 DEF Rendering, PopupSets
    <3>5. w \in Panes /\ w.mode = s.slots[p].mode /\ w.cont = s.slots[p].cont
          /\ w.popups = {fr.keys[i]}
      BY <3>4 DEF Panes
    <3>6. r = [d EXCEPT !.slots[p] = w]
      <4>1. r = [d EXCEPT !.slots[p].popups = {fr.keys[i]}, !.slots[p].pending = FALSE]
        BY <1>2, <2>6 DEF Chords, i
      <4>2. d.slots = s.slots /\ d.slots \in [Sides -> Panes] /\ d \in Rendering
        BY <3>3 DEF Rendering, Adds, OnlyLogs
      <4> HIDE DEF d
      <4>3. QED BY <4>1, <4>2 DEF Rendering, Panes
    <3> HIDE DEF d, w, r
    <3>7. /\ r \in Rendering /\ r.slots[p] = w /\ Apart(r, d, p)
          /\ r.log = d.log /\ r.act = d.act /\ r.focus = d.focus /\ r.touched = d.touched
      BY <3>3, <3>5, <3>6, PaneIs
    <3>8. \A e \in Told(r.log) : e.key \in {"sheet", "history"} /\ e.to = "popup"
      BY <2>4, <2>6, <3>2, <3>3, <3>7 DEF Adds
    <3>9. Apart(r, s, p) /\ SameMode(r, s, p) /\ r.act = s.act /\ r.focus = s.focus
          /\ r.touched = s.touched
      BY <3>3, <3>5, <3>7 DEF Adds, OnlyLogs, Apart, SameMode
    <3>10. r.slots[p].popups \in {{"sheet"}, {"history"}}
      BY <2>4, <2>6, <3>5, <3>7
    <3>11. QED BY <2>4, <2>6, <3>3, <3>7, <3>8, <3>9, <3>10 DEF Chorded, r
  <2>7. QED BY <2>5, <2>6
<1>3. QED BY <1>1, <1>2

\* What a pane has logged when its keys are looped over: chords, what is copied,
\* the wheel; and only these last when no overlay is up.
Before(s, p, ks, q) ==
  /\ s \in Rendering /\ Neat(s.log, p, ks, q)
  /\ \A e \in Told(s.log) : /\ e.key \in Calm
                            /\ e.to = "pty" => e.i = 0
                            /\ s.slots[p].popups \cap Overlays = {} => e.key \in {"copy", "wheel"}

\* An entry of another key is of another place.
LEMMA Elsewhere ==
  ASSUME NEW l, NEW p, NEW ks \in Seq(KeyNames), NEW q, Neat(l, p, ks, q), NEW e \in Told(l)
  PROVE  /\ \A i \in DOMAIN ks : e.key # ks[i] => e.i # i
         /\ e.key # "wheel" => e.i # 0
         /\ e.i # 0 => e.i \in DOMAIN ks /\ e.key = ks[e.i]
<1>1. Telling(e, p, ks)
  BY DEF Neat, Told
<1>2. QED BY <1>1 DEF Telling

LEMMA ToldEntries ==
  ASSUME NEW s \in Rendering, NEW e \in Told(s.log)
  PROVE  e \in Entries /\ e.i \in Nat
<1>1. e \in Entries
  BY DEF Rendering, Told
<1>2. QED BY <1>1 DEF Entries

\* What is copied goes to the clipboard.
LEMMA ToClipboardIs ==
  ASSUME NEW s \in Rendering, NEW p \in Sides, NEW fr, NEW q,
         fr.keys \in Seq(KeyNames), Before(s, p, fr.keys, q),
         \A e \in Told(s.log) : e.key \in {"sheet", "history"} /\ e.to # "pty"
  PROVE  LET r == ToClipboard(s, p, fr)
         IN  /\ OnlyLogs(r, s) /\ Before(r, p, fr.keys, q)
             /\ \A e \in Told(r.log) : e.key # "wheel" /\ e.to # "pty"
<1> DEFINE is == {i \in DOMAIN fr.keys : fr.keys[i] = "copy" /\ CopyClaims(fr, "copy")}
           i == CHOOSE k \in is : TRUE
           r == ToClipboard(s, p, fr)
<1>1. CASE is = {}
  <2>1. r = s
    BY <1>1 DEF ToClipboard
  <2>2. QED BY <2>1 DEF OnlyLogs
<1>2. CASE is # {}
  <2>1. i \in is
    BY <1>2
  <2>2. r = Deliver(s, p, i, "copy", "clipboard")
    BY <1>2 DEF ToClipboard
  <2> HIDE DEF i, r
  <2>3. /\ i \in DOMAIN fr.keys /\ i \in Nat \ {0} /\ fr.keys[i] = "copy"
        /\ "copy" \in KeyNames \cup {"wheel"}
    BY <2>1 DEF KeyNames
  <2>4. \A e \in Told(s.log) : e.i # i
    BY <2>3, Elsewhere DEF Before
  <2>5. /\ r \in Rendering /\ Neat(r.log, p, fr.keys, q)
        /\ Adds(r, s, i, "copy", "clipboard")
    BY <2>2, <2>3, <2>4, DeliverNeat DEF Before
  <2>6. ASSUME NEW e \in Told(r.log)
        PROVE  /\ e.key \in Calm /\ e.key # "wheel" /\ e.to # "pty"
               /\ s.slots[p].popups \cap Overlays = {} => e.key \in {"copy", "wheel"}
    BY <2>5 DEF Before, Calm, Adds
  <2>7. Before(r, p, fr.keys, q) /\ OnlyLogs(r, s)
    BY <2>5, <2>6 DEF Before, Adds, OnlyLogs
  <2>8. QED BY <2>6, <2>7 DEF r
<1>3. QED BY <1>1, <1>2

\* The wheel is turned for the program on the alternate screen.
LEMMA WheelIs ==
  ASSUME NEW s \in Rendering, NEW p \in Sides, NEW fr, NEW q,
         fr.keys \in Seq(KeyNames), Before(s, p, fr.keys, q), q.mode = s.slots[p].mode,
         \A e \in Told(s.log) : e.key # "wheel" /\ e.to # "pty"
  PROVE  LET r == Wheel(s, p, fr)
         IN  OnlyLogs(r, s) /\ Before(r, p, fr.keys, q)
<1> DEFINE r == Wheel(s, p, fr)
<1>1. CASE ~(fr.wheel = p /\ s.slots[p].mode = "alt" /\ ~modal)
  <2>1. r = s
    BY <1>1 DEF Wheel
  <2>2. QED BY <2>1 DEF OnlyLogs
<1>2. CASE fr.wheel = p /\ s.slots[p].mode = "alt" /\ ~modal
  <2>1. r = Deliver(s, p, 0, "wheel", "pty")
    BY <1>2 DEF Wheel
  <2> HIDE DEF r
  <2>2. "wheel" \in KeyNames \cup {"wheel"} /\ ~Editing(q)
    BY <1>2 DEF Editing
  <2>3. \A e \in Told(s.log) : e.i # 0 /\ e.to # "pty"
    BY Elsewhere DEF Before
  <2>4. /\ r \in Rendering /\ Neat(r.log, p, fr.keys, q)
        /\ Adds(r, s, 0, "wheel", "pty")
    BY <2>1, <2>2, <2>3, DeliverNeat DEF Before
  <2>5. ASSUME NEW e \in Told(r.log)
        PROVE  /\ e.key \in Calm /\ (e.to = "pty" => e.i = 0)
               /\ s.slots[p].popups \cap Overlays = {} => e.key \in {"copy", "wheel"}
    BY <2>4 DEF Before, Calm, Adds
  <2>6. QED BY <2>4, <2>5 DEF Before, Adds, OnlyLogs, r
<1>3. QED BY <1>1, <1>2

\* A step that only tends to pane p's editor and completion: an editor may go,
\* and no continuation begins.
Tends(r, d, p) ==
  /\ r \in Rendering /\ Apart(r, d, p) /\ r.act = d.act /\ r.log = d.log /\ r.focus = d.focus
  /\ r.slots[p].cont => d.slots[p].cont
  /\ Editing(r.slots[p]) => Editing(d.slots[p])

\* No popup but the completion's
Plain(s, p) == s.slots[p].popups \in {{}, {"completion"}}

\* Pane p's record and whether its text was touched, replaced
Put(d, p, w, b) == [d EXCEPT !.slots[p] = w, !.touched = b]

LEMMA TendsOnce ==
  ASSUME NEW d \in Rendering, NEW p \in Sides, NEW w \in Panes, NEW b \in BOOLEAN,
         w.cont => d.slots[p].cont, Editing(w) => Editing(d.slots[p])
  PROVE  Tends(Put(d, p, w, b), d, p) /\ Put(d, p, w, b).slots[p] = w
<1> DEFINE c == [d EXCEPT !.slots[p] = w]
           r == Put(d, p, w, b)
<1>1. /\ c \in Rendering /\ c.slots[p] = w /\ Apart(c, d, p)
      /\ c.log = d.log /\ c.act = d.act /\ c.focus = d.focus
  BY PaneIs
<1>2. r = [c EXCEPT !.touched = b]
  BY DEF Rendering, Put
<1> HIDE DEF c, r
<1>3. /\ r \in Rendering /\ r.slots = c.slots /\ r.log = c.log /\ r.act = c.act
      /\ r.focus = c.focus
  BY <1>1, <1>2 DEF Rendering
<1>4. Tends(r, d, p) /\ r.slots[p] = w
  BY <1>1, <1>3 DEF Tends, Apart
<1>5. QED BY <1>4 DEF r

LEMMA TendsTwice ==
  ASSUME NEW a, NEW b, NEW c, NEW p, Tends(a, b, p), Tends(b, c, p)
  PROVE  Tends(a, c, p)
BY DEF Tends, Apart

\* Text that is inserted
LEMMA InsertIs ==
  ASSUME NEW d \in Rendering, NEW p \in Sides
  PROVE  /\ Tends(Insert(d, p), d, p)
         /\ Insert(d, p).slots[p].popups = d.slots[p].popups
<1>1. CASE Editing(d.slots[p])
  <2> DEFINE w == [d.slots[p] EXCEPT !.text = 1]
  <2>1. d.slots[p] \in Panes
    BY DEF Rendering
  <2>2. w \in Panes /\ w.mode = d.slots[p].mode /\ w.cont = d.slots[p].cont
        /\ w.popups = d.slots[p].popups
    BY <2>1 DEF Panes
  <2>3. Insert(d, p) = Put(d, p, w, TRUE) /\ TRUE \in BOOLEAN
    BY <1>1 DEF Insert, Rendering, Put
  <2> HIDE DEF w
  <2>4. w.cont => d.slots[p].cont
    BY <2>2
  <2>5. Tends(Insert(d, p), d, p) /\ Insert(d, p).slots[p] = w
    <3>1. Tends(Put(d, p, w, TRUE), d, p) /\ Put(d, p, w, TRUE).slots[p] = w
      BY <1>1, <2>2, <2>4, TendsOnce
    <3>2. QED BY <2>3, <3>1
  <2>6. QED BY <2>2, <2>5
<1>2. CASE ~Editing(d.slots[p])
  BY <1>2 DEF Insert, Tends, Apart
<1>3. QED BY <1>1, <1>2

\* A plan opens the completion, closes it, or waits.
LEMMA PlannedIs ==
  ASSUME NEW d \in Rendering, NEW p \in Sides, NEW plan \in Plans, Plain(d, p)
  PROVE  Tends(Planned(d, p, plan), d, p) /\ Plain(Planned(d, p, plan), p)
<1> DEFINE w == IF plan = "await" THEN [d.slots[p] EXCEPT !.pending = TRUE]
                ELSE [d.slots[p] EXCEPT !.pending = FALSE,
                        !.popups = IF plan = "open" THEN @ \cup {"completion"} ELSE @ \ {"completion"}]
           r == Planned(d, p, plan)
<1>1. d.slots[p] \in Panes /\ d.slots[p].popups \in {{}, {"completion"}}
  BY DEF Rendering, Plain
<1>2. /\ d.slots[p].popups \cup {"completion"} = {"completion"}
      /\ d.slots[p].popups \ {"completion"} = {}
  BY <1>1
<1>3. w \in Panes /\ w.mode = d.slots[p].mode /\ w.cont = d.slots[p].cont
      /\ w.popups \in {{}, {"completion"}}
  BY <1>1, <1>2 DEF Panes, PopupSets
<1>4. r = Put(d, p, w, d.touched)
  <2>1. CASE plan = "await"
    BY <2>1 DEF Planned, Rendering, Put
  <2>2. CASE plan # "await"
    BY <2>2 DEF Planned, Rendering, Panes, Put
  <2>3. QED BY <2>1, <2>2
<1>5. d.touched \in BOOLEAN
  BY DEF Rendering
<1> HIDE DEF w, r
<1>6. Tends(r, d, p) /\ r.slots[p] = w
  <2>1. (w.cont => d.slots[p].cont) /\ (Editing(w) => Editing(d.slots[p]))
    BY <1>3 DEF Editing
  <2>2. QED BY <1>3, <1>4, <1>5, <2>1, TendsOnce
<1>7. QED BY <1>3, <1>6 DEF Plain, r

\* The completion takes a key and closes.
LEMMA ToPopupIs ==
  ASSUME NEW s \in Rendering, NEW p \in Sides, NEW i \in Nat, NEW key \in KeyNames, Plain(s, p)
  PROVE  LET d == Deliver(s, p, i, key, "popup")
             r == ToPopup(s, p, i, key)
         IN  Tends(r, d, p) /\ Plain(r, p)
<1> DEFINE d == Deliver(s, p, i, key, "popup")
           w == [d.slots[p] EXCEPT !.popups = @ \ {"completion"}]
           v == [w EXCEPT !.pending = FALSE]
           c == Put(d, p, w, d.touched)
           r == ToPopup(s, p, i, key)
<1>1. PICK e : e = [i |-> i, key |-> key, pane |-> p, to |-> "popup", empty |-> Empty(s.slots[p])]
  OBVIOUS
<1>2. d \in Rendering /\ OnlyLogs(d, s)
  BY <1>1, DeliverIs
<1>3. r = IF key = "esc" THEN [[d EXCEPT !.slots[p].popups = @ \ {"completion"}] EXCEPT
                                 !.slots[p].pending = FALSE]
          ELSE Insert([d EXCEPT !.slots[p].popups = @ \ {"completion"}], p)
  BY DEF ToPopup
<1> HIDE DEF d
<1>4. d.slots[p] \in Panes /\ d.touched \in BOOLEAN /\ d.slots[p].popups \ {"completion"} = {}
  BY <1>2 DEF Rendering, Plain, OnlyLogs
<1>5. w \in Panes /\ w.mode = d.slots[p].mode /\ w.cont = d.slots[p].cont /\ w.popups = {}
  BY <1>4 DEF Panes, PopupSets
<1>6. v \in Panes /\ v.mode = d.slots[p].mode /\ v.cont = d.slots[p].cont /\ v.popups = {}
  BY <1>5 DEF Panes, PopupSets
<1>7. [d EXCEPT !.slots[p].popups = @ \ {"completion"}] = c
  BY <1>2 DEF Rendering, Put
<1>8. CASE key = "esc"
  <2>1. r = Put(d, p, v, d.touched)
    <3>1. r = [c EXCEPT !.slots[p].pending = FALSE]
      BY <1>3, <1>7, <1>8
    <3>2. QED BY <3>1, <1>2 DEF Rendering, Put
  <2> HIDE DEF r, v
  <2>2. Tends(r, d, p) /\ r.slots[p] = v
    <3>1. (v.cont => d.slots[p].cont) /\ (Editing(v) => Editing(d.slots[p]))
      BY <1>6 DEF Editing
    <3>2. QED BY <2>1, <1>2, <1>4, <1>6, <3>1, TendsOnce
  <2>3. QED BY <2>2, <1>6 DEF Plain, r, d
<1>9. CASE key # "esc"
  <2>1. r = Insert(c, p)
    BY <1>3, <1>7, <1>9
  <2> HIDE DEF r, w
  <2>2. Tends(c, d, p) /\ c.slots[p] = w
    <3>1. (w.cont => d.slots[p].cont) /\ (Editing(w) => Editing(d.slots[p]))
      BY <1>5 DEF Editing
    <3>2. QED BY <1>2, <1>4, <1>5, <3>1, TendsOnce
  <2> HIDE DEF c
  <2>3. Tends(r, c, p) /\ r.slots[p].popups = {}
    BY <1>5, <2>1, <2>2, InsertIs DEF Tends
  <2>4. QED BY <2>2, <2>3, TendsTwice DEF Plain, r, d
<1>10. QED BY <1>8, <1>9

\* The editor takes a key: the line is submitted, or a continuation ended.
LEMMA ToEditorIs ==
  ASSUME NEW s \in Rendering, NEW p \in Sides, NEW i \in Nat, NEW key \in KeyNames, Plain(s, p),
         Editing(s.slots[p]),
         NEW to, to = IF key = "ctrl_c" THEN "pty" ELSE "editor"
  PROVE  /\ Tends(ToEditor(s, p, i, key), Deliver(s, p, i, key, to), p)
         /\ Plain(ToEditor(s, p, i, key), p)
<1> DEFINE d == Deliver(s, p, i, key, to)
           r == ToEditor(s, p, i, key)
           w == [d.slots[p] EXCEPT !.mode = "raw", !.text = 0, !.cont = FALSE]
           v == [d.slots[p] EXCEPT !.text = 0, !.cont = FALSE]
<1>1. PICK e : e = [i |-> i, key |-> key, pane |-> p, to |-> to, empty |-> Empty(s.slots[p])]
  OBVIOUS
<1>2. d \in Rendering /\ OnlyLogs(d, s)
  BY <1>1, DeliverIs
<1>3. r = IF key = "x" THEN Insert(d, p)
          ELSE IF key = "enter" THEN [d EXCEPT !.slots[p].mode = "raw", !.slots[p].text = 0,
                                               !.slots[p].cont = FALSE]
          ELSE IF key = "ctrl_c" THEN [d EXCEPT !.slots[p].text = 0, !.slots[p].cont = FALSE,
                                                !.touched = TRUE]
          ELSE d
  BY DEF ToEditor
<1> HIDE DEF d
<1>4. /\ d.slots[p] \in Panes /\ d.touched \in BOOLEAN /\ Editing(d.slots[p])
      /\ d.slots[p].popups \in {{}, {"completion"}} /\ TRUE \in BOOLEAN
  BY <1>2 DEF Rendering, Plain, OnlyLogs
<1>5. /\ w \in Panes /\ ~w.cont /\ w.popups = d.slots[p].popups
      /\ v \in Panes /\ ~v.cont /\ v.popups = d.slots[p].popups
  BY <1>4 DEF Panes
<1>6. CASE key = "x"
  <2>1. r = Insert(d, p)
    BY <1>3, <1>6
  <2>2. Tends(Insert(d, p), d, p) /\ Insert(d, p).slots[p].popups = d.slots[p].popups
    BY <1>2, InsertIs
  <2> HIDE DEF r
  <2>3. QED BY <1>4, <2>1, <2>2 DEF Plain, r, d
<1>7. CASE key = "enter"
  <2>1. r = Put(d, p, w, d.touched)
    <3>1. r = [d EXCEPT !.slots[p].mode = "raw", !.slots[p].text = 0, !.slots[p].cont = FALSE]
      BY <1>3, <1>7
    <3> HIDE DEF r
    <3>2. QED BY <3>1, <1>2, <1>4 DEF Rendering, Put, Panes
  <2> HIDE DEF w, r
  <2>2. Tends(r, d, p) /\ r.slots[p] = w
    BY <2>1, <1>2, <1>4, <1>5, TendsOnce
  <2>3. QED BY <2>2, <1>4, <1>5 DEF Plain, r, d
<1>8. CASE key = "ctrl_c"
  <2>1. r = Put(d, p, v, TRUE)
    <3>1. r = [d EXCEPT !.slots[p].text = 0, !.slots[p].cont = FALSE, !.touched = TRUE]
      BY <1>3, <1>8
    <3> HIDE DEF r
    <3>2. QED BY <3>1, <1>2, <1>4 DEF Rendering, Put, Panes
  <2> HIDE DEF v, r
  <2>2. Tends(Put(d, p, v, TRUE), d, p) /\ Put(d, p, v, TRUE).slots[p] = v
    BY <1>2, <1>4, <1>5, TendsOnce
  <2>3. QED BY <2>1, <2>2, <1>4, <1>5 DEF Plain, r, d
<1>9. CASE key \notin {"x", "enter", "ctrl_c"}
  BY <1>2, <1>3, <1>4, <1>9 DEF Tends, Apart, Plain, d
<1>10. QED BY <1>6, <1>7, <1>8, <1>9 DEF d

-----------------------------------------------------------------------------
(* The loop over the keys                                                  *)

\* After n keys of the loop that began at s, where pane q was found: a pane with
\* an overlay is as it was, and a program has got what was typed.
Looped(t, s, p, ks, q, n) ==
  /\ t \in Rendering /\ Neat(t.log, p, ks, q)
  /\ Apart(t, s, p) /\ t.act = s.act /\ t.focus = s.focus
  /\ IF Plain(s, p)
     THEN /\ Plain(t, p)
          /\ \A e \in Told(t.log) : e.key # "find" /\ (e.i <= n \/ e.key = "copy")
     ELSE t = s
  /\ t.slots[p].cont => q.cont
  /\ Editing(t.slots[p]) => Editing(s.slots[p])
  /\ ~Editing(s.slots[p]) /\ s.slots[p].popups = {} =>
       /\ t.slots = s.slots
       /\ \A i \in 1..n : ks[i] \in Typeable => \E e \in Told(t.log) : e.i = i /\ e.to = "pty"

\* A pane shows an overlay or is plain.
LEMMA PlainOrNot ==
  ASSUME NEW s \in Rendering, NEW p \in Sides
  PROVE  Plain(s, p) <=> s.slots[p].popups \cap Overlays = {}
<1>1. s.slots[p].popups \in PopupSets
  BY DEF Rendering, Panes
<1>2. QED BY <1>1 DEF PopupSets, Plain, Overlays

LEMMA LoopBegins ==
  ASSUME NEW s, NEW p \in Sides, NEW ks \in Seq(KeyNames), NEW q,
         Before(s, p, ks, q), s.slots[p].cont => q.cont
  PROVE  Looped(s, s, p, ks, q, 0)
<1>1. ASSUME NEW e \in Told(s.log), Plain(s, p)
      PROVE  e.key # "find" /\ (e.i <= 0 \/ e.key = "copy")
  <2>1. e.key \in {"copy", "wheel"} /\ s \in Rendering
    BY <1>1, PlainOrNot DEF Before
  <2>2. CASE e.key = "wheel"
    <3>1. \A i \in DOMAIN ks : ks[i] # "wheel"
      BY DEF KeyNames
    <3>2. e.i = 0
      BY <2>2, <3>1, Elsewhere DEF Before
    <3>3. QED BY <2>2, <3>2
  <2>3. QED BY <2>1, <2>2
<1>2. QED BY <1>1 DEF Before, Looped, Apart

\* A key that does nothing
LEMMA LoopRests ==
  ASSUME NEW t, NEW s, NEW p \in Sides, NEW ks \in Seq(KeyNames), NEW q, NEW n \in 1..Len(ks),
         Looped(t, s, p, ks, q, n - 1),
         ~Editing(s.slots[p]) /\ s.slots[p].popups = {} => ks[n] \notin Typeable
  PROVE  Looped(t, s, p, ks, q, n)
<1>1. Plain(s, p) => \A e \in Told(t.log) : e.key # "find" /\ (e.i <= n \/ e.key = "copy")
  <2>1. ASSUME NEW e \in Told(t.log), e.i <= n - 1 PROVE e.i <= n
    <3>1. e \in Entries
      BY DEF Looped, Rendering, Told
    <3>2. e.i \in Nat
      BY <3>1 DEF Entries
    <3>3. QED BY <2>1, <3>2
  <2>2. QED BY <2>1 DEF Looped
<1>2. \A i \in 1..n : i \in 1..(n - 1) \/ i = n
  OBVIOUS
<1>3. QED BY <1>1, <1>2 DEF Looped

\* A key that is delivered, and what it does to the editor and the completion
LEMMA LoopDelivers ==
  ASSUME NEW t, NEW s, NEW p \in Sides, NEW ks \in Seq(KeyNames), NEW q, NEW n \in 1..Len(ks),
         Looped(t, s, p, ks, q, n - 1), Plain(s, p), ks[n] # "copy", ks[n] # "find",
         NEW to \in {"popup", "editor", "pty", "clipboard"},
         NEW r, Tends(r, Deliver(t, p, n, ks[n], to), p), Plain(r, p),
         to = "pty" /\ Editing(q) => \/ ks[n] = "ctrl_d" /\ Empty(t.slots[p])
                                     \/ ks[n] = "ctrl_c" /\ q.cont,
         ~Editing(s.slots[p]) /\ s.slots[p].popups = {} => to = "pty" /\ r.slots = t.slots
  PROVE  Looped(r, s, p, ks, q, n)
<1> DEFINE d == Deliver(t, p, n, ks[n], to)
<1>1. n \in DOMAIN ks /\ n \in Nat /\ ks[n] \in KeyNames \cup {"wheel"}
  OBVIOUS
<1>2. t \in Rendering /\ Neat(t.log, p, ks, q)
  BY DEF Looped
<1>3. \A e \in Told(t.log) : e \in Entries
  BY <1>2 DEF Rendering, Told
<1>4. ASSUME NEW e \in Told(t.log)
      PROVE  e.i # n /\ (to = "pty" /\ e.to = "pty" => e.i < n)
  <2>1. e.i \in Nat /\ e.key # "find" /\ (e.i <= n - 1 \/ e.key = "copy")
    BY <1>3 DEF Entries, Looped
  <2>2. e.key = "copy" => e.i # n
    BY <1>1, <1>2, Elsewhere
  <2>3. e.to = "pty" => e.key # "copy"
    BY <1>2 DEF Neat, Permitted, Told
  <2>4. QED BY <2>1, <2>2, <2>3
<1>5. d \in Rendering /\ Neat(d.log, p, ks, q) /\ Adds(d, t, n, ks[n], to)
  <2>1. n \in Nat
    OBVIOUS
  <2>2. QED BY <1>1, <1>2, <1>4, <2>1, DeliverNeat
<1> HIDE DEF d
<1>6. PICK e \in Entries : e.i = n /\ e.key = ks[n] /\ e.to = to /\ Told(d.log) = Told(t.log) \cup {e}
  BY <1>5 DEF Adds
<1>7. r \in Rendering /\ r.log = d.log /\ Tends(r, d, p) /\ OnlyLogs(d, t)
  BY <1>5 DEF Tends, Adds, d
<1>8. /\ Apart(r, s, p) /\ r.act = s.act /\ r.focus = s.focus
      /\ r.slots[p].cont => q.cont
      /\ Editing(r.slots[p]) => Editing(s.slots[p])
  BY <1>7 DEF Tends, OnlyLogs, Apart, Looped
<1>9. \A x \in Told(r.log) : x.key # "find" /\ (x.i <= n \/ x.key = "copy")
  <2>1. \A x \in Told(t.log) : x.i \in Nat /\ x.key # "find" /\ (x.i <= n - 1 \/ x.key = "copy")
    BY <1>3 DEF Entries, Looped
  <2>2. QED BY <1>6, <1>7, <2>1
<1>10. ASSUME ~Editing(s.slots[p]), s.slots[p].popups = {}
       PROVE  /\ r.slots = s.slots
              /\ \A i \in 1..n : ks[i] \in Typeable => \E x \in Told(r.log) : x.i = i /\ x.to = "pty"
  <2>1. /\ t.slots = s.slots /\ to = "pty" /\ r.slots = t.slots
        /\ \A i \in 1..(n - 1) : ks[i] \in Typeable => \E x \in Told(t.log) : x.i = i /\ x.to = "pty"
    BY <1>10 DEF Looped
  <2>2. \A i \in 1..n : i \in 1..(n - 1) \/ i = n
    OBVIOUS
  <2>3. QED BY <2>1, <2>2, <1>6, <1>7
<1>11. QED BY <1>5, <1>7, <1>8, <1>9, <1>10 DEF Looped

\* Each key of the loop
LEMMA OneKeyKeeps ==
  ASSUME NEW t, NEW s \in Rendering, NEW p \in Sides, NEW fr \in Frames, CopiedAlone(fr), NEW q,
         q.mode = s.slots[p].mode, NEW n \in 1..Len(fr.keys),
         Looped(t, s, p, fr.keys, q, n - 1)
  PROVE  Looped(OneKey(t, p, n, fr, Editing(s.slots[p])), s, p, fr.keys, q, n)
<1> DEFINE ks == fr.keys
           key == ks[n]
           editor == Editing(s.slots[p])
           r == OneKey(t, p, n, fr, editor)
           program == ~editor /\ s.slots[p].popups = {}
           overlaid == t.slots[p].popups \cap Overlays # {}
           chosen == key = "tab" /\ editor /\ t.slots[p].popups = {} /\ ~t.slots[p].pending
           edits_ == editor /\ EditorTakes(t, p, key)
           told == Passes(t, p, key, editor) /\ Encodes(key)
<1>1. r = IF CopyClaims(fr, key) \/ overlaid THEN t
          ELSE IF PopupTakes(t, p, key) THEN ToPopup(t, p, n, key)
          ELSE IF chosen THEN Planned(Deliver(t, p, n, key, "editor"), p, fr.plan)
          ELSE IF edits_ THEN ToEditor(t, p, n, key)
          ELSE IF told THEN Deliver(t, p, n, key, "pty")
          ELSE t
  BY DEF OneKey
<1>2. /\ ks \in Seq(KeyNames) /\ n \in DOMAIN ks /\ n \in Nat /\ key \in KeyNames /\ fr.plan \in Plans
      /\ CopyClaims(fr, key) <=> key = "copy"
  BY DEF Frames, CopiedAlone
<1>3. /\ t \in Rendering /\ Looped(t, s, p, ks, q, n - 1)
      /\ program => t.slots = s.slots
      /\ Plain(s, p) => Plain(t, p)
      /\ ~Plain(s, p) => t = s
      /\ t.slots[p].cont => q.cont
  BY DEF Looped
<1>4. Plain(t, p) <=> ~overlaid
  BY <1>3, PlainOrNot
<1>5. Editing(q) <=> editor
  BY DEF Editing
<1>6. Plain(s, p) <=> Plain(t, p)
  BY <1>3
<1>7. program => Plain(s, p)
  BY DEF Plain
<1>8. \A to \in {"popup", "editor", "pty", "clipboard"} :
        /\ Deliver(t, p, n, key, to) \in Rendering
        /\ Plain(Deliver(t, p, n, key, to), p) <=> Plain(t, p)
        /\ Deliver(t, p, n, key, to).slots = t.slots
  <2>1. TAKE to \in {"popup", "editor", "pty", "clipboard"}
  <2>2. PICK e : e = [i |-> n, key |-> key, pane |-> p, to |-> to, empty |-> Empty(t.slots[p])]
    OBVIOUS
  <2>3. key \in KeyNames \cup {"wheel"}
    BY <1>2
  <2>4. Deliver(t, p, n, key, to) \in Rendering /\ OnlyLogs(Deliver(t, p, n, key, to), t)
    BY <1>2, <1>3, <2>2, <2>3, DeliverIs
  <2>5. QED BY <2>4 DEF OnlyLogs, Plain
<1> HIDE DEF r, key, editor, overlaid
<1>9. CASE CopyClaims(fr, key) \/ overlaid
  <2>1. r = t
    BY <1>1, <1>9
  <2>2. ~program \/ key \notin Typeable
    BY <1>2, <1>4, <1>6, <1>7, <1>9 DEF Typeable
  <2>3. Looped(t, s, p, ks, q, n)
    BY <1>2, <1>3, <2>2, LoopRests DEF key, editor
  <2>4. QED BY <2>1, <2>3 DEF r, editor
<1> DEFINE there == ~(CopyClaims(fr, key) \/ overlaid)
<1>10. there => Plain(t, p) /\ Plain(s, p) /\ key # "copy"
  BY <1>2, <1>4, <1>6
<1>11. CASE there /\ PopupTakes(t, p, key)
  <2>1. r = ToPopup(t, p, n, key)
    BY <1>1, <1>11
  <2>2. key # "find" /\ ~program
    BY <1>3, <1>11 DEF PopupTakes
  <2>3. Tends(r, Deliver(t, p, n, key, "popup"), p) /\ Plain(r, p)
    BY <1>2, <1>3, <1>10, <1>11, <2>1, ToPopupIs
  <2>4. Looped(r, s, p, ks, q, n)
    BY <1>2, <1>3, <1>10, <1>11, <2>2, <2>3, LoopDelivers DEF key, editor
  <2>5. QED BY <2>4 DEF r, editor
<1>12. CASE there /\ ~PopupTakes(t, p, key) /\ chosen
  <2> DEFINE d == Deliver(t, p, n, key, "editor")
  <2>1. r = Planned(d, p, fr.plan)
    BY <1>1, <1>12
  <2>2. key # "find" /\ ~program
    BY <1>12
  <2>3. d \in Rendering /\ Plain(d, p)
    BY <1>8, <1>10, <1>12
  <2> HIDE DEF d
  <2>4. Tends(r, d, p) /\ Plain(r, p)
    BY <1>2, <2>1, <2>3, PlannedIs
  <2>5. Looped(r, s, p, ks, q, n)
    BY <1>2, <1>3, <1>10, <1>12, <2>2, <2>4, LoopDelivers DEF key, editor, d
  <2>6. QED BY <2>5 DEF r, editor
<1>13. CASE there /\ ~PopupTakes(t, p, key) /\ ~chosen /\ edits_
  <2>1. r = ToEditor(t, p, n, key)
    BY <1>1, <1>13
  <2>2. CASE ~Editing(t.slots[p])
    <3>1. r = t
      BY <2>1, <2>2 DEF ToEditor
    <3>2. Looped(t, s, p, ks, q, n)
      BY <1>2, <1>3, <1>13, LoopRests DEF key, editor
    <3>3. QED BY <3>1, <3>2 DEF r, editor
  <2>3. CASE Editing(t.slots[p])
    <3>1. PICK to : to = IF key = "ctrl_c" THEN "pty" ELSE "editor"
      OBVIOUS
    <3>2. to \in {"popup", "editor", "pty", "clipboard"} /\ key # "find" /\ ~program
      BY <1>13, <3>1 DEF EditorTakes
    <3>3. Tends(r, Deliver(t, p, n, key, to), p) /\ Plain(r, p)
      BY <1>2, <1>3, <1>10, <1>13, <2>1, <2>3, <3>1, ToEditorIs
    <3>4. to = "pty" => key = "ctrl_c" /\ q.cont
      BY <1>3, <1>13, <3>1 DEF EditorTakes
    <3>5. Looped(r, s, p, ks, q, n)
      BY <1>2, <1>3, <1>10, <1>13, <3>2, <3>3, <3>4, LoopDelivers DEF key, editor
    <3>6. QED BY <3>5 DEF r, editor
  <2>4. QED BY <2>2, <2>3
<1>14. CASE there /\ ~PopupTakes(t, p, key) /\ ~chosen /\ ~edits_ /\ told
  <2> DEFINE d == Deliver(t, p, n, key, "pty")
  <2>1. r = d
    BY <1>1, <1>14
  <2>2. key # "find"
    BY <1>14 DEF Encodes
  <2>3. d \in Rendering /\ Plain(d, p) /\ d.slots = t.slots
    BY <1>8, <1>10, <1>14
  <2>4. Tends(d, d, p)
    BY <2>3 DEF Tends, Apart
  <2>5. Editing(q) => key = "ctrl_d" /\ Empty(t.slots[p])
    BY <1>5, <1>14 DEF Passes
  <2> HIDE DEF d
  <2>6. Looped(d, s, p, ks, q, n)
    BY <1>2, <1>3, <1>10, <1>14, <2>2, <2>3, <2>4, <2>5, LoopDelivers DEF key, editor, d
  <2>7. QED BY <2>1, <2>6 DEF r, editor
<1>15. CASE there /\ ~PopupTakes(t, p, key) /\ ~chosen /\ ~edits_ /\ ~told
  <2>1. r = t
    BY <1>1, <1>15
  <2>2. ~program \/ key \notin Typeable
    BY <1>15 DEF Passes, Encodes, Typeable
  <2>3. Looped(t, s, p, ks, q, n)
    BY <1>2, <1>3, <2>2, LoopRests DEF key, editor
  <2>4. QED BY <2>1, <2>3 DEF r, editor
<1>16. QED BY <1>9, <1>11, <1>12, <1>13, <1>14, <1>15

\* The loop's function
LEMMA LoopExists ==
  ASSUME NEW s \in Rendering, NEW p \in Sides, NEW fr \in Frames, Len(fr.keys) \in Nat
  PROVE  \E f : f = [n \in 0..Len(fr.keys) |->
                       IF n = 0 THEN s ELSE OneKey(f[n - 1], p, n, fr, Editing(s.slots[p]))]
<1> DEFINE Fits(f, m) == f = [n \in 0..m |->
                       IF n = 0 THEN s ELSE OneKey(f[n - 1], p, n, fr, Editing(s.slots[p]))]
           T == {m \in Nat : \E f : Fits(f, m)}
<1>1. 0 \in T
  <2>1. Fits([n \in 0..0 |-> s], 0)
    OBVIOUS
  <2>2. QED BY <2>1
<1>2. ASSUME NEW m \in T PROVE m + 1 \in T
  <2>1. PICK f : Fits(f, m)
    OBVIOUS
  <2> DEFINE g == [n \in 0..(m + 1) |->
                     IF n = m + 1 THEN OneKey(f[m], p, n, fr, Editing(s.slots[p])) ELSE f[n]]
  <2>2. \A n \in 0..m : g[n] = f[n]
    OBVIOUS
  <2>3. ASSUME NEW n \in 0..(m + 1)
        PROVE  g[n] = IF n = 0 THEN s ELSE OneKey(g[n - 1], p, n, fr, Editing(s.slots[p]))
    <3>1. CASE n = m + 1
      BY <3>1, <2>2
    <3>2. CASE n \in 0..m
      <4>1. g[n] = f[n] /\ (n # 0 => n - 1 \in 0..m /\ g[n - 1] = f[n - 1])
        BY <3>2, <2>2
      <4>2. f[n] = IF n = 0 THEN s ELSE OneKey(f[n - 1], p, n, fr, Editing(s.slots[p]))
        BY <3>2, <2>1
      <4>3. QED BY <4>1, <4>2
    <3>3. QED BY <3>1, <3>2
  <2>4. Fits(g, m + 1)
    BY <2>3
  <2>5. \E h : Fits(h, m + 1)
    <3> HIDE DEF g, Fits
    <3>1. QED BY <2>4
  <2>6. m + 1 \in Nat
    OBVIOUS
  <2>7. QED BY <2>5, <2>6
<1>3. Len(fr.keys) \in T
  <2>1. T = Nat
    <3> HIDE DEF T
    <3>1. T \in SUBSET Nat
      BY DEF T
    <3>2. QED BY <1>1, <1>2, <3>1, Induction
  <2>2. QED BY <2>1
<1>4. QED BY <1>3

\* Loop takes the keys one by one.
LEMMA LoopStepwise ==
  ASSUME NEW s \in Rendering, NEW p \in Sides, NEW fr \in Frames
  PROVE  \E f : /\ f[0] = s /\ Loop(s, p, fr) = f[Len(fr.keys)]
                /\ \A n \in 1..Len(fr.keys) :
                     f[n] = OneKey(f[n - 1], p, n, fr, Editing(s.slots[p]))
<1> DEFINE N == Len(fr.keys)
           after[n \in 0..N] ==
             IF n = 0 THEN s ELSE OneKey(after[n - 1], p, n, fr, Editing(s.slots[p]))
<1>1. N \in Nat
  BY DEF Frames
<1>2. \E f : f = [n \in 0..N |->
                    IF n = 0 THEN s ELSE OneKey(f[n - 1], p, n, fr, Editing(s.slots[p]))]
  BY <1>1, LoopExists
<1>3. after = [n \in 0..N |->
                 IF n = 0 THEN s ELSE OneKey(after[n - 1], p, n, fr, Editing(s.slots[p]))]
  BY <1>2
<1>4. Loop(s, p, fr) = after[N]
  BY DEF Loop
<1> HIDE DEF after, N
<1>5. \A n \in 0..N : after[n] = IF n = 0 THEN s
                                 ELSE OneKey(after[n - 1], p, n, fr, Editing(s.slots[p]))
  BY <1>3
<1>6. after[0] = s /\ \A n \in 1..N : after[n] = OneKey(after[n - 1], p, n, fr, Editing(s.slots[p]))
  <2>1. 0 \in 0..N /\ \A n \in 1..N : n \in 0..N /\ n # 0
    BY <1>1
  <2>2. QED BY <2>1, <1>5
<1>7. QED BY <1>4, <1>6 DEF N

\* The loop as a whole
LEMMA LoopIs ==
  ASSUME NEW s, NEW p \in Sides, NEW fr \in Frames, CopiedAlone(fr), NEW q,
         Before(s, p, fr.keys, q), s.slots[p].cont => q.cont, q.mode = s.slots[p].mode
  PROVE  Looped(Loop(s, p, fr), s, p, fr.keys, q, Len(fr.keys))
<1> DEFINE N == Len(fr.keys)
<1>1. fr.keys \in Seq(KeyNames) /\ N \in Nat /\ s \in Rendering
  BY DEF Frames, Before
<1>2. PICK f : /\ f[0] = s /\ Loop(s, p, fr) = f[N]
               /\ \A n \in 1..N : f[n] = OneKey(f[n - 1], p, n, fr, Editing(s.slots[p]))
  BY <1>1, LoopStepwise
<1> DEFINE T == {m \in Nat : m <= N => Looped(f[m], s, p, fr.keys, q, m)}
<1>3. 0 \in T
  BY <1>1, <1>2, LoopBegins
<1>4. ASSUME NEW m \in T PROVE m + 1 \in T
  <2>1. CASE m + 1 <= N
    <3>1. m + 1 \in 1..N /\ (m + 1) - 1 = m /\ Looped(f[m], s, p, fr.keys, q, m)
      BY <1>1, <2>1
    <3>2. f[m + 1] = OneKey(f[m], p, m + 1, fr, Editing(s.slots[p]))
      BY <1>2, <3>1
    <3>3. Looped(f[m + 1], s, p, fr.keys, q, m + 1)
      BY <1>1, <3>1, <3>2, OneKeyKeeps
    <3>4. QED BY <3>3
  <2>2. QED BY <2>1, <1>1
<1>5. T = Nat
  <2> HIDE DEF T
  <2>1. T \in SUBSET Nat
    BY DEF T
  <2>2. QED BY <1>3, <1>4, <2>1, Induction
<1>6. N \in T
  BY <1>1, <1>5
<1>7. QED BY <1>1, <1>2, <1>6

-----------------------------------------------------------------------------
(* The overlays                                                            *)

\* After n keys an overlay's field has got no more than the characters.
Fielded(t, s, p, ks, q, n) ==
  /\ t \in Rendering /\ OnlyLogs(t, s) /\ Neat(t.log, p, ks, q)
  /\ \A e \in Told(t.log) : e.key \in Calm \/ (e.key = "x" /\ e.i <= n)

LEMMA FieldExists ==
  ASSUME NEW s \in Rendering, NEW p \in Sides, NEW fr \in Frames, Len(fr.keys) \in Nat
  PROVE  \E f : f = [n \in 0..Len(fr.keys) |->
                       IF n = 0 THEN s
                       ELSE IF fr.keys[n] = "x" /\ s.focus = Field(p)
                         THEN Deliver(f[n - 1], p, n, "x", "popup")
                       ELSE f[n - 1]]
<1> DEFINE Fits(f, m) == f = [n \in 0..m |->
                       IF n = 0 THEN s
                       ELSE IF fr.keys[n] = "x" /\ s.focus = Field(p)
                         THEN Deliver(f[n - 1], p, n, "x", "popup")
                       ELSE f[n - 1]]
           T == {m \in Nat : \E f : Fits(f, m)}
<1>1. 0 \in T
  <2>1. Fits([n \in 0..0 |-> s], 0)
    OBVIOUS
  <2>2. QED BY <2>1
<1>2. ASSUME NEW m \in T PROVE m + 1 \in T
  <2>1. PICK f : Fits(f, m)
    OBVIOUS
  <2> DEFINE g == [n \in 0..(m + 1) |->
                     IF n = m + 1
                     THEN IF fr.keys[n] = "x" /\ s.focus = Field(p)
                            THEN Deliver(f[m], p, n, "x", "popup") ELSE f[m]
                     ELSE f[n]]
  <2>2. \A n \in 0..m : g[n] = f[n]
    OBVIOUS
  <2>3. ASSUME NEW n \in 0..(m + 1)
        PROVE  g[n] = IF n = 0 THEN s
                      ELSE IF fr.keys[n] = "x" /\ s.focus = Field(p)
                        THEN Deliver(g[n - 1], p, n, "x", "popup")
                      ELSE g[n - 1]
    <3>1. CASE n = m + 1
      BY <3>1, <2>2
    <3>2. CASE n \in 0..m
      <4>1. g[n] = f[n] /\ (n # 0 => n - 1 \in 0..m /\ g[n - 1] = f[n - 1])
        BY <3>2, <2>2
      <4>2. f[n] = IF n = 0 THEN s
                   ELSE IF fr.keys[n] = "x" /\ s.focus = Field(p)
                     THEN Deliver(f[n - 1], p, n, "x", "popup")
                   ELSE f[n - 1]
        BY <3>2, <2>1
      <4>3. QED BY <4>1, <4>2
    <3>3. QED BY <3>1, <3>2
  <2>4. Fits(g, m + 1)
    BY <2>3
  <2>5. \E h : Fits(h, m + 1)
    <3> HIDE DEF g, Fits
    <3>1. QED BY <2>4
  <2>6. m + 1 \in Nat
    OBVIOUS
  <2>7. QED BY <2>5, <2>6
<1>3. Len(fr.keys) \in T
  <2>1. T = Nat
    <3> HIDE DEF T
    <3>1. T \in SUBSET Nat
      BY DEF T
    <3>2. QED BY <1>1, <1>2, <3>1, Induction
  <2>2. QED BY <2>1
<1>4. QED BY <1>3

\* FieldTakes takes the keys one by one.
LEMMA FieldStepwise ==
  ASSUME NEW s \in Rendering, NEW p \in Sides, NEW fr \in Frames
  PROVE  \E f : /\ f[0] = s /\ FieldTakes(s, p, fr) = f[Len(fr.keys)]
                /\ \A n \in 1..Len(fr.keys) :
                     f[n] = IF fr.keys[n] = "x" /\ s.focus = Field(p)
                              THEN Deliver(f[n - 1], p, n, "x", "popup") ELSE f[n - 1]
<1> DEFINE N == Len(fr.keys)
           after[n \in 0..N] ==
             IF n = 0 THEN s
             ELSE IF fr.keys[n] = "x" /\ s.focus = Field(p)
               THEN Deliver(after[n - 1], p, n, "x", "popup")
             ELSE after[n - 1]
<1>1. N \in Nat
  BY DEF Frames
<1>2. \E f : f = [n \in 0..N |->
                    IF n = 0 THEN s
                    ELSE IF fr.keys[n] = "x" /\ s.focus = Field(p)
                      THEN Deliver(f[n - 1], p, n, "x", "popup")
                    ELSE f[n - 1]]
  BY <1>1, FieldExists
<1>3. after = [n \in 0..N |->
                 IF n = 0 THEN s
                 ELSE IF fr.keys[n] = "x" /\ s.focus = Field(p)
                   THEN Deliver(after[n - 1], p, n, "x", "popup")
                 ELSE after[n - 1]]
  BY <1>2
<1>4. FieldTakes(s, p, fr) = after[N]
  BY DEF FieldTakes
<1> HIDE DEF after, N
<1>5. \A n \in 0..N : after[n] = IF n = 0 THEN s
                                 ELSE IF fr.keys[n] = "x" /\ s.focus = Field(p)
                                   THEN Deliver(after[n - 1], p, n, "x", "popup")
                                 ELSE after[n - 1]
  BY <1>3
<1>6. after[0] = s /\ \A n \in 1..N : after[n] = IF fr.keys[n] = "x" /\ s.focus = Field(p)
                                        THEN Deliver(after[n - 1], p, n, "x", "popup")
                                        ELSE after[n - 1]
  <2>1. 0 \in 0..N /\ \A n \in 1..N : n \in 0..N /\ n # 0
    BY <1>1
  <2>2. QED BY <2>1, <1>5
<1>7. QED BY <1>4, <1>6 DEF N

\* A character in the field
LEMMA FieldKeeps ==
  ASSUME NEW t, NEW s \in Rendering, NEW p \in Sides, NEW ks \in Seq(KeyNames), NEW q,
         NEW n \in 1..Len(ks), ks[n] = "x", Fielded(t, s, p, ks, q, n - 1)
  PROVE  Fielded(Deliver(t, p, n, "x", "popup"), s, p, ks, q, n)
<1> DEFINE d == Deliver(t, p, n, "x", "popup")
<1>1. n \in DOMAIN ks /\ n \in Nat /\ "x" \in KeyNames \cup {"wheel"}
  BY DEF KeyNames
<1>2. t \in Rendering /\ Neat(t.log, p, ks, q) /\ OnlyLogs(t, s)
  BY DEF Fielded
<1>3. \A e \in Told(t.log) : e.i \in Nat
  BY <1>2, ToldEntries
<1>4. \A e \in Told(t.log) : e.i # n
  <2>1. TAKE e \in Told(t.log)
  <2>2. e.key \in Calm => e.i # n
    BY <1>1, <1>2, Elsewhere DEF Calm
  <2>3. e.i \in Nat /\ (e.key \in Calm \/ e.i <= n - 1)
    BY <1>3 DEF Fielded
  <2>4. QED BY <2>2, <2>3
<1>5. d \in Rendering /\ Neat(d.log, p, ks, q) /\ Adds(d, t, n, "x", "popup")
  BY <1>1, <1>2, <1>4, DeliverNeat
<1> HIDE DEF d
<1>6. PICK e \in Entries : e.i = n /\ e.key = "x" /\ Told(d.log) = Told(t.log) \cup {e}
  BY <1>5 DEF Adds
<1>7. \A x \in Told(d.log) : x.key \in Calm \/ (x.key = "x" /\ x.i <= n)
  <2>1. \A x \in Told(t.log) : x.i \in Nat /\ (x.key \in Calm \/ (x.key = "x" /\ x.i <= n - 1))
    BY <1>3 DEF Fielded
  <2>2. QED BY <2>1, <1>6
<1>8. OnlyLogs(d, s)
  BY <1>2, <1>5 DEF Adds, OnlyLogs
<1>9. QED BY <1>5, <1>7, <1>8 DEF Fielded, d

LEMMA FieldTakesIs ==
  ASSUME NEW s \in Rendering, NEW p \in Sides, NEW fr \in Frames, NEW q,
         Neat(s.log, p, fr.keys, q), \A e \in Told(s.log) : e.key \in Calm
  PROVE  Fielded(FieldTakes(s, p, fr), s, p, fr.keys, q, Len(fr.keys))
<1> DEFINE N == Len(fr.keys)
<1>1. fr.keys \in Seq(KeyNames) /\ N \in Nat
  BY DEF Frames
<1>2. PICK f : /\ f[0] = s /\ FieldTakes(s, p, fr) = f[N]
               /\ \A n \in 1..N : f[n] = IF fr.keys[n] = "x" /\ s.focus = Field(p)
                                           THEN Deliver(f[n - 1], p, n, "x", "popup") ELSE f[n - 1]
  BY FieldStepwise
<1> DEFINE T == {m \in Nat : m <= N => Fielded(f[m], s, p, fr.keys, q, m)}
<1>3. 0 \in T
  BY <1>1, <1>2 DEF Fielded, OnlyLogs
<1>4. ASSUME NEW m \in T PROVE m + 1 \in T
  <2>1. CASE m + 1 <= N
    <3>1. m + 1 \in 1..N /\ (m + 1) - 1 = m /\ Fielded(f[m], s, p, fr.keys, q, m)
      BY <1>1, <2>1
    <3>2. CASE fr.keys[m + 1] = "x" /\ s.focus = Field(p)
      <4>1. f[m + 1] = Deliver(f[m], p, m + 1, "x", "popup")
        BY <1>2, <3>1, <3>2
      <4>2. Fielded(f[m + 1], s, p, fr.keys, q, m + 1)
        BY <1>1, <3>1, <3>2, <4>1, FieldKeeps
      <4>3. QED BY <4>2
    <3>3. CASE ~(fr.keys[m + 1] = "x" /\ s.focus = Field(p))
      <4>1. f[m + 1] = f[m]
        BY <1>2, <3>1, <3>3
      <4>2. \A e \in Told(f[m].log) : e.i \in Nat
        BY <3>1, ToldEntries DEF Fielded
      <4>3. Fielded(f[m + 1], s, p, fr.keys, q, m + 1)
        BY <3>1, <4>1, <4>2 DEF Fielded
      <4>4. QED BY <4>3
    <3>4. QED BY <3>2, <3>3
  <2>2. QED BY <2>1, <1>1
<1>5. T = Nat
  <2> HIDE DEF T
  <2>1. T \in SUBSET Nat
    BY DEF T
  <2>2. QED BY <1>3, <1>4, <2>1, Induction
<1>6. N \in T
  BY <1>1, <1>5
<1>7. QED BY <1>1, <1>2, <1>6

\* What an overlay that is up makes of a frame
Overlaid(r, s, p, ks, q) ==
  /\ r \in Rendering /\ Apart(r, s, p) /\ r.act = s.act
  /\ Neat(r.log, p, ks, q) /\ \A e \in Told(r.log) : e.key # "find"
  /\ r.focus = Field(p)

LEMMA OverlayUpIs ==
  ASSUME NEW s \in Rendering, NEW p \in Sides, NEW fr \in Frames, NEW q, NEW kind \in Overlays,
         Neat(s.log, p, fr.keys, q), \A e \in Told(s.log) : e.key \in Calm,
         s.slots[p].popups = {kind}
  PROVE  LET r == OverlayUp(s, p, fr, kind)
         IN  Overlaid(r, s, p, fr.keys, q) /\ r.slots[p].popups \in {{kind}, {}}
<1> DEFINE ks == fr.keys
           ends == {i \in DOMAIN ks : ks[i] = "esc" \/ (ks[i] = "enter" /\ kind = "history")}
           i == CHOOSE j \in ends : ks[j] = "enter" \/ \A k \in ends : ks[k] # "enter"
           t == FieldTakes(s, p, fr)
           held == [t EXCEPT !.focus = Field(p)]
           d == Deliver(held, p, i, ks[i], "popup")
           done == [d EXCEPT !.slots[p].popups = @ \ {kind}, !.slots[p].needs = TRUE]
           r == OverlayUp(s, p, fr, kind)
<1>1. r = IF ends = {} THEN held
          ELSE IF ks[i] = "enter" /\ Editing(done.slots[p])
            THEN [done EXCEPT !.slots[p].text = 1] ELSE done
  BY DEF OverlayUp
<1>2. ks \in Seq(KeyNames) /\ Len(ks) \in Nat
  BY DEF Frames
<1>3. Fielded(t, s, p, ks, q, Len(ks))
  BY FieldTakesIs
<1> HIDE DEF t, r
<1>4. Field(p) \in Foci
  BY DEF Foci, Sides
<1>5. /\ held \in Rendering /\ held.slots = s.slots /\ held.act = s.act /\ held.log = t.log
      /\ held.focus = Field(p) /\ Neat(held.log, p, ks, q)
      /\ \A e \in Told(held.log) : e.key \in Calm \/ e.key = "x"
  BY <1>3, <1>4 DEF Fielded, OnlyLogs, Rendering
<1> HIDE DEF held
<1>6. CASE ends = {}
  <2>1. r = held
    BY <1>1, <1>6
  <2>2. \A e \in Told(held.log) : e.key # "find"
    BY <1>5 DEF Calm
  <2>3. QED BY <1>5, <2>1, <2>2 DEF Overlaid, Apart, r
<1>7. CASE ends # {}
  <2>1. i \in ends
    <3>1. \E j \in ends : ks[j] = "enter" \/ \A k \in ends : ks[k] # "enter"
      BY <1>7
    <3> HIDE DEF ends
    <3>2. QED BY <3>1
  <2> HIDE DEF i
  <2>2. /\ i \in DOMAIN ks /\ i \in Nat /\ ks[i] \in {"esc", "enter"}
        /\ ks[i] \in KeyNames \cup {"wheel"}
    BY <1>2, <2>1
  <2>3. \A e \in Told(held.log) : e.i # i
    BY <1>2, <1>5, <2>2, Elsewhere DEF Calm
  <2>4. d \in Rendering /\ Neat(d.log, p, ks, q) /\ Adds(d, held, i, ks[i], "popup")
    BY <1>2, <1>5, <2>2, <2>3, DeliverNeat
  <2> HIDE DEF d
  <2> DEFINE w == [d.slots[p] EXCEPT !.popups = @ \ {kind}, !.needs = TRUE]
             v == [w EXCEPT !.text = 1]
  <2>5. /\ d.slots[p] \in Panes /\ d.touched \in BOOLEAN
        /\ d.slots[p].popups \ {kind} = {}
    BY <1>5, <2>4 DEF Rendering, Adds, OnlyLogs
  <2>6. w \in Panes /\ w.mode = d.slots[p].mode /\ w.cont = d.slots[p].cont /\ w.popups = {}
    BY <2>5 DEF Panes, PopupSets
  <2>7. v \in Panes /\ v.mode = d.slots[p].mode /\ v.cont = d.slots[p].cont /\ v.popups = {}
    BY <2>6 DEF Panes, PopupSets
  <2>8. done = Put(d, p, w, d.touched)
    BY <2>4 DEF Rendering, Put, Panes
  <2>9. [done EXCEPT !.slots[p].text = 1] = Put(d, p, v, d.touched)
    <3> HIDE DEF done
    <3>1. QED BY <2>4, <2>8 DEF Rendering, Put
  <2>10. r \in {Put(d, p, w, d.touched), Put(d, p, v, d.touched)}
    <3> HIDE DEF done, ends, w, v
    <3>1. QED BY <1>1, <1>7, <2>8, <2>9
  <2> HIDE DEF done, w, v
  <2>11. /\ Tends(Put(d, p, w, d.touched), d, p) /\ Put(d, p, w, d.touched).slots[p] = w
         /\ Tends(Put(d, p, v, d.touched), d, p) /\ Put(d, p, v, d.touched).slots[p] = v
    <3>1. /\ (w.cont => d.slots[p].cont) /\ (Editing(w) => Editing(d.slots[p]))
          /\ (v.cont => d.slots[p].cont) /\ (Editing(v) => Editing(d.slots[p]))
      BY <2>6, <2>7 DEF Editing
    <3>2. QED BY <2>4, <2>5, <2>6, <2>7, <3>1, TendsOnce
  <2>12. Tends(r, d, p) /\ r.slots[p].popups = {}
    BY <2>6, <2>7, <2>10, <2>11
  <2>13. \A e \in Told(r.log) : e.key # "find"
    BY <1>5, <2>2, <2>4, <2>12 DEF Adds, Calm, Tends
  <2>14. Apart(r, s, p) /\ r.act = s.act /\ r.focus = Field(p) /\ r.log = d.log /\ r \in Rendering
    BY <1>5, <2>4, <2>12 DEF Adds, OnlyLogs, Tends, Apart
  <2>15. QED BY <2>4, <2>12, <2>13, <2>14 DEF Overlaid, r
<1>8. QED BY <1>6, <1>7

\* The three overlays of a pane, of which at most one is up
AllOverlays(s, p, fr) ==
  Overlay(Overlay(Overlay(s, p, fr, "history"), p, fr, "find"), p, fr, "sheet")

LEMMA OverlaysAre ==
  ASSUME NEW s \in Rendering, NEW p \in Sides, NEW fr \in Frames, NEW q,
         Neat(s.log, p, fr.keys, q), \A e \in Told(s.log) : e.key # "find",
         ~Plain(s, p) => \A e \in Told(s.log) : e.key \in Calm
  PROVE  LET r == AllOverlays(s, p, fr)
         IN  IF Plain(s, p) THEN r = s
             ELSE Overlaid(r, s, p, fr.keys, q) /\ "completion" \notin r.slots[p].popups
<1>1. s.slots[p].popups \in PopupSets
  BY DEF Rendering, Panes
<1>2. CASE Plain(s, p)
  <2>1. \A kind \in Overlays : Overlay(s, p, fr, kind) = s
    BY <1>2, OtherOverlay DEF Plain, Overlays
  <2>2. AllOverlays(s, p, fr) = s
    BY <2>1 DEF AllOverlays, Overlays
  <2>3. QED BY <1>2, <2>2
<1>3. ASSUME NEW kind \in Overlays, s.slots[p].popups = {kind}, ~Plain(s, p)
      PROVE  /\ Overlaid(AllOverlays(s, p, fr), s, p, fr.keys, q)
             /\ "completion" \notin AllOverlays(s, p, fr).slots[p].popups
  <2> DEFINE u == Overlay(s, p, fr, kind)
  <2>1. u = OverlayUp(s, p, fr, kind)
    BY <1>3 DEF Overlay
  <2>2. Overlaid(u, s, p, fr.keys, q) /\ u.slots[p].popups \in {{kind}, {}}
    BY <1>3, <2>1, OverlayUpIs
  <2> HIDE DEF u
  <2>3. \A k \in Overlays : k # kind => Overlay(s, p, fr, k) = s /\ Overlay(u, p, fr, k) = u
    BY <1>3, <2>2, OtherOverlay
  <2>4. AllOverlays(s, p, fr) = u
    BY <2>3 DEF AllOverlays, Overlays, u
  <2>5. "completion" \notin u.slots[p].popups
    BY <2>2 DEF Overlays
  <2>6. QED BY <2>2, <2>4, <2>5
<1>4. QED BY <1>1, <1>2, <1>3 DEF PopupSets, Plain, Overlays

-----------------------------------------------------------------------------
(* A pane that reads the keys                                              *)

\* What the keyboard makes of a frame
Keyed(r, s, p, ks, q) ==
  /\ r \in Rendering /\ Apart(r, s, p) /\ r.act = s.act /\ r.focus = s.focus
  /\ Neat(r.log, p, ks, q) /\ \A e \in Told(r.log) : e.key # "find"
  /\ Plain(s, p) <=> Plain(r, p)
  /\ ~Plain(r, p) => \A e \in Told(r.log) : e.key \in Calm
  /\ ~Editing(q) /\ s.slots[p].popups = {} =>
       \A i \in DOMAIN ks : ks[i] \in Typeable => \E e \in Told(r.log) : e.i = i /\ e.to = "pty"

LEMMA KeyboardIs ==
  ASSUME NEW s, NEW p \in Sides, NEW fr \in Frames, CopiedAlone(fr), NEW q,
         Before(s, p, fr.keys, q), ~s.touched,
         \A e \in Told(s.log) : e.key \in {"sheet", "history"} /\ e.to # "pty",
         s.slots[p].cont => q.cont, q.mode = s.slots[p].mode
  PROVE  Keyed(Refiltered(Keyboard(s, p, fr), p, fr), s, p, fr.keys, q)
<1> DEFINE ks == fr.keys
           a == ToClipboard(s, p, fr)
           b == Wheel(a, p, fr)
           c == Loop(b, p, fr)
           r == Refiltered(c, p, fr)
<1>1. /\ ks \in Seq(KeyNames) /\ Len(ks) \in Nat /\ DOMAIN ks = 1..Len(ks) /\ fr.plan \in Plans
      /\ s \in Rendering
  BY DEF Frames, Before
<1>2. /\ OnlyLogs(a, s) /\ Before(a, p, ks, q)
      /\ \A e \in Told(a.log) : e.key # "wheel" /\ e.to # "pty"
  BY <1>1, ToClipboardIs
<1> HIDE DEF a
<1>3. OnlyLogs(b, a) /\ Before(b, p, ks, q)
  <2>1. q.mode = a.slots[p].mode /\ a \in Rendering
    BY <1>2 DEF OnlyLogs, Before
  <2>2. QED BY <1>1, <1>2, <2>1, WheelIs
<1> HIDE DEF b
<1>4. /\ b.slots = s.slots /\ b.focus = s.focus /\ b.act = s.act /\ ~b.touched
      /\ b \in Rendering /\ (Plain(b, p) <=> Plain(s, p)) /\ Apart(b, s, p)
  BY <1>2, <1>3 DEF OnlyLogs, Before, Plain, Apart
<1>5. Looped(c, b, p, ks, q, Len(ks))
  BY <1>3, <1>4, LoopIs
<1> HIDE DEF c
<1>6. c \in Rendering
  BY <1>5 DEF Looped
<1>7. Editing(q) <=> Editing(b.slots[p])
  BY <1>4 DEF Editing
<1>8. CASE ~Plain(b, p)
  <2>1. c = b
    BY <1>5, <1>8 DEF Looped
  <2>2. r = b
    BY <1>4, <2>1 DEF Refiltered
  <2>3. \A e \in Told(b.log) : e.key \in Calm /\ e.key # "find"
    BY <1>3 DEF Before, Calm
  <2>4. s.slots[p].popups # {}
    BY <1>4, <1>8 DEF Plain
  <2> HIDE DEF r
  <2>5. Keyed(r, s, p, ks, q)
    BY <1>3, <1>4, <1>8, <2>2, <2>3, <2>4 DEF Keyed, Before
  <2>6. QED BY <2>5 DEF r, c, b, a, Keyboard
<1>9. CASE Plain(b, p)
  <2>1. /\ Plain(c, p) /\ Neat(c.log, p, ks, q) /\ Apart(c, s, p) /\ c.act = s.act
        /\ c.focus = s.focus /\ \A e \in Told(c.log) : e.key # "find"
    BY <1>4, <1>5, <1>9 DEF Looped, Apart
  <2>2. r \in {c, Planned(c, p, fr.plan)}
    BY DEF Refiltered
  <2>3. Tends(c, c, p)
    BY <1>6 DEF Tends, Apart
  <2>4. Tends(Planned(c, p, fr.plan), c, p) /\ Plain(Planned(c, p, fr.plan), p)
    BY <1>1, <1>6, <2>1, PlannedIs
  <2> HIDE DEF r
  <2>5. Tends(r, c, p) /\ Plain(r, p)
    BY <2>1, <2>2, <2>3, <2>4
  <2>6. /\ r \in Rendering /\ r.log = c.log /\ r.act = s.act /\ r.focus = s.focus /\ Apart(r, s, p)
    BY <2>1, <2>5 DEF Tends, Apart
  <2>7. ~Editing(q) /\ s.slots[p].popups = {} =>
          \A i \in DOMAIN ks : ks[i] \in Typeable => \E e \in Told(r.log) : e.i = i /\ e.to = "pty"
    BY <1>1, <1>4, <1>5, <1>7, <2>6 DEF Looped
  <2>8. Keyed(r, s, p, ks, q)
    BY <1>4, <1>9, <2>1, <2>5, <2>6, <2>7 DEF Keyed
  <2>9. QED BY <2>8 DEF r, c, b, a, Keyboard
<1>10. QED BY <1>8, <1>9

\* What a pane that reads the keys makes of a frame: each key once, the
\* program's in their order, and find left to the window.
Active(r, s, p, fr, q) ==
  /\ r \in Rendering /\ Apart(r, s, p)
  /\ Neat(r.log, p, fr.keys, q) /\ \A e \in Told(r.log) : e.key # "find"
  /\ r.act = s.act \/ (r.act[p] \in DOMAIN fr.keys /\ fr.keys[r.act[p]] = "find")
  /\ r.focus \in {Grid(p), Field(p)}
  /\ "completion" \in r.slots[p].popups => r.focus = Grid(p)
  /\ s.focus = Grid(p) /\ ~modal /\ ~Editing(q) /\ q.popups \cap Overlays = {}
       /\ (\A i \in DOMAIN fr.keys : fr.keys[i] # "sheet") =>
         \A i \in DOMAIN fr.keys : fr.keys[i] \in Typeable =>
           \E e \in Told(r.log) : e.i = i /\ e.to = "pty"

LEMMA ActiveIs ==
  ASSUME NEW s \in Rendering, NEW p \in Sides, NEW fr \in Frames, CopiedAlone(fr), NEW q,
         q = s.slots[p], s.log = <<>>, fr.press # p,
         q.popups # {} \/ (s.focus = Grid(p) /\ ~modal),
         "completion" \in q.popups => s.focus = Grid(p)
  PROVE  Active(Rendered(s, p, fr), s, p, fr, q)
<1> DEFINE ks == fr.keys
           s1 == Begun(s, p, fr)
           had == s1.focus = Grid(p)
           s2 == Claimed(s1, p)
           s3 == IF ~modal /\ (had \/ s2.slots[p].popups # {}) THEN Chords(s2, p, fr) ELSE s2
           s4 == IF ~modal /\ had THEN Refiltered(Keyboard(s3, p, fr), p, fr) ELSE s3
           r == AllOverlays(s4, p, fr)
           program == /\ s.focus = Grid(p) /\ ~modal /\ ~Editing(q) /\ q.popups \cap Overlays = {}
                      /\ \A i \in DOMAIN ks : ks[i] # "sheet"
           got(l) == \A i \in DOMAIN ks : ks[i] \in Typeable =>
                       \E e \in Told(l) : e.i = i /\ e.to = "pty"
<1>1. Rendered(s, p, fr) = r
  BY Zenon DEF Rendered, Begun, AllOverlays
<1>2. ks \in Seq(KeyNames) /\ q \in Panes /\ q.popups \in PopupSets
  BY DEF Frames, Rendering, Panes
<1>3. /\ s1 \in Rendering /\ s1.log = <<>> /\ Apart(s1, s, p) /\ s1.act = s.act /\ ~s1.touched
      /\ SameMode(s1, s, p)
      /\ s1.slots[p].popups = IF Editing(q) THEN q.popups ELSE q.popups \ {"completion"}
      /\ s1.focus = s.focus
  <2>1. Begins(s1, s, p, fr)
    BY BegunIs
  <2> HIDE DEF s1
  <2>2. QED BY <2>1 DEF Begins
<1> HIDE DEF s1
<1>4. /\ s2 \in Rendering /\ s2.log = <<>> /\ Apart(s2, s, p) /\ s2.act = s.act /\ ~s2.touched
      /\ s2.slots[p].mode = q.mode /\ s2.slots[p].cont = q.cont
      /\ s2.slots[p].popups = IF Editing(q) THEN q.popups ELSE q.popups \ {"completion"}
      /\ s2.focus = IF ~modal /\ (s1.slots[p].needs \/ s.focus = Nowhere) THEN Grid(p) ELSE s.focus
  BY <1>3, ClaimedIs DEF Apart, SameMode
<1>5. Neat(s2.log, p, ks, q) /\ Told(s2.log) = {}
  BY <1>4 DEF Neat, Told
<1>6. had <=> s.focus = Grid(p)
  BY <1>3
<1> HIDE DEF s2, had
<1> DEFINE Fit(u) == /\ u \in Rendering /\ Apart(u, s, p)
                     /\ Neat(u.log, p, ks, q) /\ \A e \in Told(u.log) : e.key # "find"
                     /\ ~Plain(u, p) => \A e \in Told(u.log) : e.key \in Calm
                     /\ u.act = s.act \/ (u.act[p] \in DOMAIN ks /\ ks[u.act[p]] = "find")
                     /\ Plain(u, p) => u.focus = Grid(p)
                     /\ program => Plain(u, p) /\ got(u.log)
<1>7. ASSUME Fit(s4) PROVE Active(r, s, p, fr, q)
  <2> HIDE DEF s4
  <2>1. IF Plain(s4, p) THEN r = s4
        ELSE Overlaid(r, s4, p, ks, q) /\ "completion" \notin r.slots[p].popups
    BY <1>7, OverlaysAre
  <2> HIDE DEF r
  <2>2. CASE Plain(s4, p)
    BY <1>7, <2>1, <2>2 DEF Active
  <2>3. CASE ~Plain(s4, p)
    <3>1. ~program
      BY <1>7, <2>3
    <3>2. Overlaid(r, s4, p, ks, q) /\ "completion" \notin r.slots[p].popups
      BY <2>1, <2>3
    <3>3. Apart(r, s, p) /\ r.act = s4.act
      BY <1>7, <3>2 DEF Overlaid, Apart
    <3> HIDE DEF ks
    <3>4. QED BY <1>7, <3>1, <3>2, <3>3 DEF Active, Overlaid, ks
  <2>4. QED BY <2>2, <2>3
<1>8. CASE modal
  <2>1. s4 = s2 /\ ~program
    BY <1>8
  <2>2. Plain(s2, p) => s2.focus = Grid(p)
    BY <1>2, <1>4, <1>8 DEF Plain, PopupSets
  <2>3. Fit(s4)
    <3> HIDE DEF s4, program
    <3>1. QED BY <1>4, <1>5, <2>1, <2>2
  <2>4. QED BY <1>1, <1>7, <2>3
<1>9. CASE ~modal
  <2>1. had \/ s2.slots[p].popups # {}
    BY <1>2, <1>4, <1>6, <1>9 DEF PopupSets
  <2>2. s3 = Chords(s2, p, fr)
    BY <1>9, <2>1
  <2>3. /\ s3 \in Rendering /\ Apart(s3, s2, p) /\ SameMode(s3, s2, p)
        /\ s3.focus = s2.focus /\ s3.touched = s2.touched
        /\ \/ /\ s3.log = <<>> /\ s3.slots = s2.slots
              /\ \/ s3.act = s2.act
                 \/ s3.act[p] \in DOMAIN ks /\ ks[s3.act[p]] = "find"
           \/ /\ s3.act = s2.act /\ Neat(s3.log, p, ks, q)
              /\ \A e \in Told(s3.log) : e.key \in {"sheet", "history"} /\ e.to = "popup"
              /\ s3.slots[p].popups \in {{"sheet"}, {"history"}}
              /\ \E i \in DOMAIN ks : \/ ks[i] = "sheet"
                                      \/ ks[i] = "history" /\ Editing(s2.slots[p])
    <3>1. Chorded(Chords(s2, p, fr), s2, p, ks, q)
      BY <1>2, <1>4, ChordsIs
    <3> HIDE DEF s3
    <3>2. QED BY <2>2, <3>1 DEF Chorded
  <2> HIDE DEF s3
  <2>4. /\ Neat(s3.log, p, ks, q) /\ Apart(s3, s, p) /\ ~s3.touched
        /\ s3.act = s.act \/ (s3.act[p] \in DOMAIN ks /\ ks[s3.act[p]] = "find")
        /\ s3.slots[p].mode = q.mode /\ s3.slots[p].cont = q.cont
    BY <1>4, <1>5, <2>3 DEF Apart, SameMode
  <2>5. /\ \A e \in Told(s3.log) : e.key \in {"sheet", "history"} /\ e.to # "pty" /\ e.key # "find"
        /\ Plain(s3, p) => Told(s3.log) = {} /\ s3.slots = s2.slots
    <3>1. s3.log = <<>> => Told(s3.log) = {}
      BY DEF Told
    <3>2. s3.slots[p].popups \in {{"sheet"}, {"history"}} => ~Plain(s3, p)
      BY DEF Plain
    <3>3. QED BY <2>3, <3>1, <3>2
  <2>6. CASE had
    <3>1. s4 = Refiltered(Keyboard(s3, p, fr), p, fr)
      BY <1>9, <2>6
    <3>2. Before(s3, p, ks, q)
      BY <2>3, <2>4, <2>5, PlainOrNot DEF Before, Calm
    <3>3. Keyed(s4, s3, p, ks, q)
      BY <2>4, <2>5, <3>1, <3>2, KeyboardIs
    <3> HIDE DEF s4
    <3>4. s4.focus = Grid(p)
      BY <1>4, <1>6, <2>3, <2>6, <3>3 DEF Keyed
    <3>5. ASSUME program PROVE Plain(s4, p) /\ got(s4.log)
      <4>1. s2.slots[p].popups = {}
        BY <1>2, <1>4, <3>5 DEF PopupSets, Overlays
      <4>2. ~Editing(s2.slots[p])
        BY <1>4, <3>5 DEF Editing
      <4>3. s3.slots[p].popups = {}
        BY <2>3, <3>5, <4>1, <4>2
      <4>4. QED BY <3>3, <3>5, <4>3 DEF Keyed, Plain
    <3>6. Fit(s4)
      <4>1. Apart(s4, s, p) /\ s4.act = s3.act
        BY <2>4, <3>3 DEF Keyed, Apart
      <4> HIDE DEF program, got
      <4>2. QED BY <2>4, <3>3, <3>4, <3>5, <4>1 DEF Keyed
    <3>7. QED BY <1>1, <1>7, <3>6 DEF s4
  <2>7. CASE ~had
    <3>1. s4 = s3
      BY <2>7
    <3>2. ~program
      BY <1>6, <2>7
    <3>3. ~Plain(s2, p)
      BY <1>2, <1>4, <1>6, <1>9, <2>7 DEF Plain, PopupSets
    <3>4. ~Plain(s3, p)
      BY <2>5, <3>3 DEF Plain
    <3>5. Fit(s4)
      <4> HIDE DEF s4, program
      <4>1. \A e \in Told(s3.log) : e.key \in Calm
        BY <2>5 DEF Calm
      <4>2. QED BY <2>3, <2>4, <2>5, <3>1, <3>2, <3>4, <4>1
    <3>6. QED BY <1>1, <1>7, <3>5
  <2>8. QED BY <2>6, <2>7
<1>10. QED BY <1>8, <1>9

-----------------------------------------------------------------------------
(* A frame that brings no keys                                             *)

LEMMA NoKeys ==
  ASSUME NEW s \in Rendering, NEW p \in Sides, NEW fr \in Frames, fr.keys = <<>>
  PROVE  /\ Chords(s, p, fr) = s /\ ToClipboard(s, p, fr) = s
         /\ Loop(s, p, fr) = s /\ FieldTakes(s, p, fr) = s
         /\ \A kind : OverlayUp(s, p, fr, kind) = [s EXCEPT !.focus = Field(p)]
<1>1. DOMAIN fr.keys = {} /\ Len(fr.keys) = 0
  OBVIOUS
<1>2. Chords(s, p, fr) = s
  BY <1>1 DEF Chords
<1>3. ToClipboard(s, p, fr) = s
  BY <1>1 DEF ToClipboard
<1>4. Loop(s, p, fr) = s
  BY <1>1, LoopStepwise
<1>5. FieldTakes(s, p, fr) = s
  BY <1>1, FieldStepwise
<1>6. \A kind : OverlayUp(s, p, fr, kind) = [s EXCEPT !.focus = Field(p)]
  BY <1>1, <1>5 DEF OverlayUp
<1>7. QED BY <1>2, <1>3, <1>4, <1>5, <1>6

\* Nothing is read but the wheel.
WheelEntry(p, pane) == [i |-> 0, key |-> "wheel", pane |-> p, to |-> "pty", empty |-> Empty(pane)]
Still(r, s, p, fr) ==
  /\ r \in Rendering /\ Apart(r, s, p) /\ r.act = s.act /\ ~r.slots[p].needs
  /\ r.slots[p].popups = IF Editing(s.slots[p]) THEN s.slots[p].popups
                         ELSE s.slots[p].popups \ {"completion"}
  /\ r.focus = IF s.slots[p].popups \cap Overlays # {} THEN Field(p)
               ELSE IF ~modal /\ (s.slots[p].needs \/ s.focus = Nowhere \/ fr.press = p)
               THEN Grid(p) ELSE s.focus
  /\ \/ r.log = s.log
     \/ /\ fr.wheel = p /\ s.slots[p].mode = "alt"
        /\ \E pane : r.log = Append(s.log, WheelEntry(p, pane))

LEMMA StillIs ==
  ASSUME NEW s \in Rendering, NEW p \in Sides, NEW fr \in Frames, fr.keys = <<>>
  PROVE  Still(Rendered(s, p, fr), s, p, fr)
<1> DEFINE s1 == Begun(s, p, fr)
           had == s1.focus = Grid(p)
           s2 == Claimed(s1, p)
           s3 == IF ~modal /\ (had \/ s2.slots[p].popups # {}) THEN Chords(s2, p, fr) ELSE s2
           s4 == IF ~modal /\ had THEN Refiltered(Keyboard(s3, p, fr), p, fr) ELSE s3
           r == AllOverlays(s4, p, fr)
<1>1. Rendered(s, p, fr) = r
  BY Zenon DEF Rendered, Begun, AllOverlays
<1>2. Begins(s1, s, p, fr)
  BY BegunIs
<1> HIDE DEF s1
<1>3. s1 \in Rendering
  BY <1>2 DEF Begins
<1>4. /\ s2 \in Rendering /\ s2.log = s1.log /\ Apart(s2, s1, p) /\ s2.act = s1.act
      /\ s2.touched = s1.touched /\ SameMode(s2, s1, p) /\ ~s2.slots[p].needs
      /\ s2.slots[p].popups = s1.slots[p].popups
      /\ s2.focus = IF ~modal /\ (s1.slots[p].needs \/ s1.focus = Nowhere) THEN Grid(p)
                    ELSE s1.focus
  BY <1>3, ClaimedIs
<1> HIDE DEF s2
<1>5. s3 = s2
  BY <1>4, NoKeys
<1> HIDE DEF s3
<1> DEFINE w == Wheel(s2, p, fr)
<1>6. /\ w \in Rendering /\ OnlyLogs(w, s2)
      /\ \/ w = s2
         \/ /\ fr.wheel = p /\ s2.slots[p].mode = "alt"
            /\ w.log = Append(s2.log, WheelEntry(p, s2.slots[p]))
  <2>1. CASE w = s2
    BY <1>4, <2>1 DEF OnlyLogs
  <2>2. CASE w # s2
    <3>1. fr.wheel = p /\ s2.slots[p].mode = "alt" /\ w = Deliver(s2, p, 0, "wheel", "pty")
      BY <2>2 DEF Wheel
    <3> HIDE DEF w
    <3>2. w \in Rendering /\ OnlyLogs(w, s2) /\ w.log = Append(s2.log, WheelEntry(p, s2.slots[p]))
      BY <1>4, <3>1, DeliverIs DEF WheelEntry
    <3>3. QED BY <3>1, <3>2
  <2>3. QED BY <2>1, <2>2
<1>7. Keyboard(s2, p, fr) = w
  <2>1. ToClipboard(s2, p, fr) = s2
    BY <1>4, NoKeys
  <2>2. Loop(w, p, fr) = w
    <3> HIDE DEF w
    <3>1. QED BY <1>6, NoKeys
  <2>3. QED BY <2>1, <2>2 DEF Keyboard
<1> HIDE DEF w
<1>8. /\ s4 \in Rendering /\ OnlyLogs(s4, s2)
      /\ \/ s4.log = s2.log
         \/ /\ fr.wheel = p /\ s2.slots[p].mode = "alt"
            /\ s4.log = Append(s2.log, WheelEntry(p, s2.slots[p]))
  <2>1. Refiltered(w, p, fr) = w
    BY <1>2, <1>4, <1>6 DEF Refiltered, OnlyLogs, Begins
  <2>2. s4 = s2 \/ s4 = w
    BY <1>5, <1>7, <2>1
  <2> HIDE DEF s4
  <2>3. QED BY <1>4, <1>6, <2>2 DEF OnlyLogs
<1> HIDE DEF s4
<1>9. /\ s4.slots = s2.slots /\ s4.act = s2.act /\ s4.slots[p].popups \in PopupSets
  BY <1>8 DEF OnlyLogs, Rendering, Panes
<1>10. IF s4.slots[p].popups \cap Overlays = {} THEN r = s4 ELSE r = [s4 EXCEPT !.focus = Field(p)]
  <2>1. CASE s4.slots[p].popups \cap Overlays = {}
    <3>1. \A kind \in Overlays : Overlay(s4, p, fr, kind) = s4
      BY <2>1, OtherOverlay
    <3>2. QED BY <2>1, <3>1 DEF AllOverlays, Overlays
  <2>2. ASSUME NEW kind \in Overlays, s4.slots[p].popups = {kind}
        PROVE  r = [s4 EXCEPT !.focus = Field(p)]
    <3> DEFINE u == [s4 EXCEPT !.focus = Field(p)]
    <3>1. Overlay(s4, p, fr, kind) = u
      BY <1>8, <2>2, NoKeys DEF Overlay
    <3>2. u.slots = s4.slots
      BY <1>8 DEF Rendering
    <3> HIDE DEF u
    <3>3. \A k \in Overlays : k # kind => Overlay(s4, p, fr, k) = s4 /\ Overlay(u, p, fr, k) = u
      BY <2>2, <3>2, OtherOverlay
    <3>4. r = u
      BY <3>1, <3>3 DEF AllOverlays, Overlays
    <3>5. QED BY <3>4 DEF u
  <2>3. QED BY <1>9, <2>1, <2>2 DEF PopupSets, Overlays
<1> HIDE DEF r
<1>11. /\ r \in Rendering /\ r.slots = s2.slots /\ r.act = s2.act /\ r.log = s4.log
       /\ r.focus = IF s2.slots[p].popups \cap Overlays # {} THEN Field(p) ELSE s2.focus
  <2>1. Field(p) \in Foci
    BY DEF Foci, Sides
  <2>2. s4.focus = s2.focus
    BY <1>8 DEF OnlyLogs
  <2>3. QED BY <1>8, <1>9, <1>10, <2>1, <2>2 DEF Rendering
<1>12. s2.slots[p].mode = s.slots[p].mode /\ Apart(s2, s, p) /\ s2.log = s.log /\ s2.act = s.act
  BY <1>2, <1>4 DEF Begins, SameMode, Apart
<1>13. s2.slots[p].popups \cap Overlays = s.slots[p].popups \cap Overlays
  BY <1>2, <1>4 DEF Begins, Overlays
<1>14. s2.focus = IF ~modal /\ (s.slots[p].needs \/ s.focus = Nowhere \/ fr.press = p)
                    THEN Grid(p) ELSE s.focus
  BY <1>2, <1>4 DEF Begins
<1>15. r.log = s.log \/ (/\ fr.wheel = p /\ s.slots[p].mode = "alt"
                         /\ \E pane : r.log = Append(s.log, WheelEntry(p, pane)))
  BY <1>8, <1>11, <1>12
<1>16. /\ s2.slots[p].popups = IF Editing(s.slots[p]) THEN s.slots[p].popups
                               ELSE s.slots[p].popups \ {"completion"}
  BY <1>2, <1>4 DEF Begins
<1>17. Still(r, s, p, fr)
  BY <1>4, <1>11, <1>12, <1>13, <1>14, <1>15, <1>16 DEF Still, Apart
<1>18. QED BY <1>1, <1>17

-----------------------------------------------------------------------------
(* The frame as a whole                                                    *)

\* At most one pane has something up, and no other pane asks for the focus
\* then; a completion is open where the focus is, and an overlay of pane 2,
\* which is rendered last, keeps the focus there.
Poised(sl, fo) ==
  /\ sl \in [Sides -> Panes] /\ fo \in Foci
  /\ \A p \in Sides : sl[p].popups # {} => sl[3 - p].popups = {} /\ ~sl[3 - p].needs
  /\ \A p \in Sides : "completion" \in sl[p].popups => fo = Grid(p)
  /\ sl[2].popups \cap Overlays # {} => fo.pane = 2

\* A frame of the state
FrameOf(fr) ==
  fr \in Frames /\ fr.owner = focus.pane /\ fr.on = focus.on /\ fr.modal = modal /\ fr.found = slots

\* A frame in which keys are typed: nobody presses, no other pane asks for the
\* focus.
Typing(fr) == /\ FrameOf(fr) /\ CopiedAlone(fr) /\ fr.press = 0
              /\ \A p \in Sides : slots[p].needs => p = focus.pane

\* Its program gets what is typed if pane p has the keyboard and nothing is up.
Complete(l, p, ks) ==
  focus = Grid(p) /\ ~modal /\ ~Editing(slots[p]) /\ slots[p].popups \cap Overlays = {}
    /\ (\A i \in DOMAIN ks : ks[i] # "sheet") =>
      \A i \in DOMAIN ks : ks[i] \in Typeable => \E e \in Told(l) : e.i = i /\ e.to = "pty"

\* Pane p has read the frame, and the other pane has not.
Read(s, p, fr) ==
  /\ s \in Rendering /\ Neat(s.log, p, fr.keys, slots[p])
  /\ p = focus.pane \/ slots[p].popups # {}
  /\ s.slots[3 - p].popups = {} /\ ~s.slots[3 - p].needs
  /\ s.focus \in {Grid(p), Field(p)} /\ ("completion" \in s.slots[p].popups => s.focus = Grid(p))
  /\ Complete(s.log, p, fr.keys)

\* and wants find, or does not.
Wants(s, p, fr) ==
  /\ \A e \in Told(s.log) : e.key # "find"
  /\ s.act[3 - p] = 0
  /\ s.act[p] = 0 \/ (s.act[p] \in DOMAIN fr.keys /\ fr.keys[s.act[p]] = "find")

\* Nobody has read it.
Unread(s) ==
  /\ s \in Rendering /\ s.log = <<>> /\ \A p \in Sides : s.act[p] = 0 /\ s.slots[p].popups = {}
  /\ focus.on = "grid" => modal

LEMMA StartIs ==
  ASSUME NEW fr, slots \in [Sides -> Panes], focus \in Foci
  PROVE  LET s == Start(fr)
         IN  /\ s \in Rendering /\ s.slots = slots /\ s.log = <<>> /\ s.act = [p \in Sides |-> 0]
             /\ s.focus \in {focus, Nowhere} /\ (focus.on # "field" => s.focus = focus)
<1>1. Unfocused(fr) \in {focus, Nowhere} /\ (focus.on # "field" => Unfocused(fr) = focus)
  BY DEF Unfocused
<1>2. Nowhere \in Foci
  BY DEF Foci
<1>3. <<>> \in Seq(Entries) /\ [p \in Sides |-> 0] \in [Sides -> Nat]
  OBVIOUS
<1>4. QED BY <1>1, <1>2, <1>3 DEF Start, Rendering

LEMMA FociAre ==
  /\ \A p \in Sides : /\ Grid(p) # Nowhere /\ Grid(p).on = "grid" /\ Grid(p).pane = p
                      /\ Grid(p) \in Foci /\ Field(p) \in Foci
                      /\ Field(p) # Nowhere /\ Field(p).on = "field" /\ Field(p).pane = p
                      /\ \A q : Field(p) # Grid(q)
  /\ Nowhere.on = "none" /\ Nowhere \in Foci /\ Grid(1) # Grid(2) /\ Field(1) # Field(2)
  /\ \A f \in Foci : f.pane \in 0..2 /\ f.on \in {"none", "grid", "field"}
                     /\ (f.on = "grid" => f.pane \in Sides /\ f = Grid(f.pane))
BY DEF Foci, Grid, Field, Nowhere, Sides

\* The first pane reads: it has something up, or the keyboard.
LEMMA FirstReads ==
  ASSUME NEW fr, Typing(fr), Poised(slots, focus), modal \in BOOLEAN,
         slots[1].popups # {} \/ (focus = Grid(1) /\ ~modal)
  PROVE  LET s == Rendered(Rendered(Start(fr), 1, fr), 2, fr)
         IN  Read(s, 1, fr) /\ Wants(s, 1, fr)
<1> DEFINE s == Start(fr)
           t == Rendered(s, 1, fr)
           r == Rendered(t, 2, fr)
<1>0. fr \in Frames /\ CopiedAlone(fr) /\ fr.press = 0
  BY DEF Typing, FrameOf
<1>1. /\ slots \in [Sides -> Panes] /\ focus \in Foci
      /\ slots[1].popups # {} => slots[2].popups = {} /\ ~slots[2].needs
      /\ \A p \in Sides : "completion" \in slots[p].popups => focus = Grid(p)
      /\ slots[2].popups \cap Overlays # {} => focus.pane = 2
  BY DEF Poised, Sides
<1>2. /\ s \in Rendering /\ s.slots = slots /\ s.log = <<>> /\ s.act = [p \in Sides |-> 0]
      /\ s.focus \in {focus, Nowhere} /\ (focus.on # "field" => s.focus = focus)
  BY <1>1, StartIs
<1> HIDE DEF s
<1>3. slots[2].popups = {} /\ ~slots[2].needs /\ slots[2] \in Panes
  <2>1. slots[2] \in Panes /\ slots[2].popups \in PopupSets
    BY <1>1 DEF Sides, Panes
  <2>2. CASE slots[1].popups # {}
    BY <1>1, <2>1, <2>2
  <2>3. CASE focus = Grid(1) /\ ~modal
    <3>1. focus.pane = 1 /\ focus # Grid(2)
      BY <2>3, FociAre DEF Sides
    <3>2. slots[2].popups = {}
      BY <1>1, <2>1, <3>1 DEF Sides, PopupSets, Overlays
    <3>3. QED BY <2>1, <3>1, <3>2 DEF Typing, Sides
  <2>4. QED BY <2>2, <2>3
<1>4. Active(t, s, 1, fr, slots[1])
  <2>1. 1 \in Sides /\ slots[1] = s.slots[1] /\ fr.press # 1
    BY <1>0, <1>2 DEF Sides
  <2>2. focus = Grid(1) => s.focus = Grid(1)
    BY <1>2, <2>1, FociAre
  <2>3. slots[1].popups # {} \/ (s.focus = Grid(1) /\ ~modal)
    BY <2>2
  <2>4. "completion" \in slots[1].popups => s.focus = Grid(1)
    BY <1>1, <2>1, <2>2
  <2>5. QED BY <1>0, <1>2, <2>1, <2>3, <2>4, ActiveIs
<1> HIDE DEF t
<1>5. /\ t \in Rendering /\ t.slots[2] = slots[2] /\ t.act[2] = 0 /\ t.focus \in {Grid(1), Field(1)}
      /\ t.focus # Grid(2) /\ t.focus # Nowhere
  <2>1. t \in Rendering /\ t.slots[2] = s.slots[2] /\ t.act[2] = s.act[2]
        /\ t.focus \in {Grid(1), Field(1)}
    BY <1>4 DEF Active, Apart, Sides
  <2>2. QED BY <1>2, <2>1, FociAre DEF Sides
<1>6. /\ r \in Rendering /\ r.log = t.log /\ Apart(r, t, 2) /\ r.act = t.act
      /\ ~r.slots[2].needs /\ r.slots[2].popups = {} /\ r.focus = t.focus
  <2>1. 2 \in Sides /\ t.slots[2].popups = {} /\ fr.press # 2 /\ t.focus # Grid(2)
    BY <1>0, <1>3, <1>5 DEF Sides
  <2>2. ~(~modal /\ (t.slots[2].needs \/ t.focus = Nowhere))
    BY <1>3, <1>5
  <2>3. QED BY <1>5, <2>1, <2>2, QuietIs
<1> HIDE DEF r
<1>7. r.slots[1] = t.slots[1]
  BY <1>6 DEF Apart, Sides
<1>8. Complete(r.log, 1, fr.keys)
  <2>1. focus = Grid(1) => s.focus = Grid(1)
    BY <1>2, FociAre DEF Sides
  <2>2. QED BY <1>4, <1>6, <2>1 DEF Active, Complete
<1>9. 1 = focus.pane \/ slots[1].popups # {}
  BY FociAre DEF Sides
<1>10. /\ Neat(t.log, 1, fr.keys, slots[1]) /\ \A e \in Told(t.log) : e.key # "find"
       /\ t.act[1] = 0 \/ (t.act[1] \in DOMAIN fr.keys /\ fr.keys[t.act[1]] = "find")
       /\ "completion" \in t.slots[1].popups => t.focus = Grid(1)
  BY <1>2, <1>4 DEF Active, Sides
<1>11. Read(r, 1, fr)
  BY <1>5, <1>6, <1>7, <1>8, <1>9, <1>10 DEF Read
<1>12. Wants(r, 1, fr)
  BY <1>5, <1>6, <1>10 DEF Wants
<1>13. QED BY <1>11, <1>12 DEF r, t, s

\* A pane with nothing up and no keyboard: what it leaves as the second starts
LEMMA FirstRests ==
  ASSUME NEW fr, Typing(fr), Poised(slots, focus), modal \in BOOLEAN,
         slots[1].popups = {}, focus # Grid(1) \/ modal
  PROVE  LET t == Rendered(Start(fr), 1, fr)
         IN  /\ t \in Rendering /\ t.log = <<>> /\ t.slots[2] = slots[2]
             /\ t.act[1] = 0 /\ t.act[2] = 0 /\ ~t.slots[1].needs /\ t.slots[1].popups = {}
             /\ t.focus = Grid(2) => focus = Grid(2)
             /\ focus = Grid(2) => t.focus = Grid(2)
<1> DEFINE s == Start(fr)
           t == Rendered(s, 1, fr)
<1>0. fr \in Frames /\ fr.press = 0 /\ 1 \in Sides /\ 2 \in Sides
  BY DEF Typing, FrameOf, Sides
<1>1. slots \in [Sides -> Panes] /\ focus \in Foci
  BY DEF Poised
<1>2. /\ s \in Rendering /\ s.slots = slots /\ s.log = <<>> /\ s.act = [p \in Sides |-> 0]
      /\ s.focus \in {focus, Nowhere} /\ (focus.on # "field" => s.focus = focus)
  BY <1>1, StartIs
<1> HIDE DEF s
<1>3. s.slots[1].popups = {} /\ fr.press # 1 /\ (modal \/ s.focus # Grid(1))
  BY <1>0, <1>2, FociAre
<1>4. /\ t \in Rendering /\ t.log = s.log /\ Apart(t, s, 1) /\ t.act = s.act
      /\ ~t.slots[1].needs /\ t.slots[1].popups = {}
      /\ t.focus = IF ~modal /\ (s.slots[1].needs \/ s.focus = Nowhere) THEN Grid(1) ELSE s.focus
  BY <1>0, <1>2, <1>3, QuietIs
<1> HIDE DEF t
<1>5. t.focus = Grid(2) => focus = Grid(2)
  BY <1>0, <1>2, <1>4, FociAre
<1>6. ASSUME focus = Grid(2) PROVE t.focus = Grid(2)
  <2>1. s.focus = Grid(2) /\ s.focus # Nowhere /\ focus.pane = 2
    BY <1>0, <1>2, <1>6, FociAre
  <2>2. ~s.slots[1].needs
    BY <1>0, <1>2, <2>1 DEF Typing, Sides
  <2>3. QED BY <1>4, <2>1, <2>2
<1>7. /\ t.slots[2] = slots[2] /\ t.act[1] = 0 /\ t.act[2] = 0 /\ t.log = <<>>
  BY <1>0, <1>2, <1>4 DEF Apart, Sides
<1>8. QED BY <1>4, <1>5, <1>6, <1>7 DEF t, s

\* The second pane reads: the first one has nothing to read the keys with.
LEMMA SecondReads ==
  ASSUME NEW fr, Typing(fr), Poised(slots, focus), modal \in BOOLEAN,
         slots[1].popups = {}, focus # Grid(1) \/ modal,
         slots[2].popups # {} \/ (focus = Grid(2) /\ ~modal)
  PROVE  LET s == Rendered(Rendered(Start(fr), 1, fr), 2, fr)
         IN  Read(s, 2, fr) /\ Wants(s, 2, fr)
<1> DEFINE t == Rendered(Start(fr), 1, fr)
           r == Rendered(t, 2, fr)
<1>0. fr \in Frames /\ CopiedAlone(fr) /\ fr.press # 2 /\ 2 \in Sides
  BY DEF Typing, FrameOf, Sides
<1>1. /\ t \in Rendering /\ t.log = <<>> /\ t.slots[2] = slots[2]
      /\ t.act[1] = 0 /\ t.act[2] = 0 /\ ~t.slots[1].needs /\ t.slots[1].popups = {}
      /\ t.focus = Grid(2) <=> focus = Grid(2)
  BY FirstRests
<1> HIDE DEF t
<1>2. Active(r, t, 2, fr, slots[2])
  <2>1. "completion" \in slots[2].popups => t.focus = Grid(2)
    BY <1>0, <1>1 DEF Poised
  <2>2. slots[2].popups # {} \/ (t.focus = Grid(2) /\ ~modal)
    BY <1>1
  <2>3. QED BY <1>0, <1>1, <2>1, <2>2, ActiveIs
<1> HIDE DEF r
<1>3. /\ r \in Rendering /\ Neat(r.log, 2, fr.keys, slots[2])
      /\ \A e \in Told(r.log) : e.key # "find"
      /\ r.act[2] = 0 \/ (r.act[2] \in DOMAIN fr.keys /\ fr.keys[r.act[2]] = "find")
      /\ r.focus \in {Grid(2), Field(2)} /\ ("completion" \in r.slots[2].popups => r.focus = Grid(2))
  BY <1>1, <1>2 DEF Active
<1>4. r.slots[1] = t.slots[1] /\ r.act[1] = t.act[1]
  BY <1>2 DEF Active, Apart, Sides
<1>5. Complete(r.log, 2, fr.keys)
  BY <1>1, <1>2 DEF Active, Complete
<1>6. 2 = focus.pane \/ slots[2].popups # {}
  BY <1>0, FociAre
<1>7. Read(r, 2, fr)
  BY <1>1, <1>3, <1>4, <1>5, <1>6 DEF Read
<1>8. Wants(r, 2, fr)
  BY <1>1, <1>3, <1>4 DEF Wants
<1>9. QED BY <1>7, <1>8 DEF r, t

\* Nobody reads.
LEMMA NobodyReads ==
  ASSUME NEW fr, Typing(fr), Poised(slots, focus), modal \in BOOLEAN,
         slots[1].popups = {}, focus # Grid(1) \/ modal,
         slots[2].popups = {}, focus # Grid(2) \/ modal
  PROVE  Unread(Rendered(Rendered(Start(fr), 1, fr), 2, fr))
<1> DEFINE t == Rendered(Start(fr), 1, fr)
           r == Rendered(t, 2, fr)
<1>0. fr \in Frames /\ fr.press # 2 /\ 2 \in Sides /\ 1 \in Sides
  BY DEF Typing, FrameOf, Sides
<1>1. /\ t \in Rendering /\ t.log = <<>> /\ t.slots[2] = slots[2]
      /\ t.act[1] = 0 /\ t.act[2] = 0 /\ ~t.slots[1].needs /\ t.slots[1].popups = {}
      /\ t.focus = Grid(2) => focus = Grid(2)
  BY FirstRests
<1> HIDE DEF t
<1>2. t.slots[2].popups = {} /\ (modal \/ t.focus # Grid(2))
  BY <1>1
<1>3. /\ r \in Rendering /\ r.log = t.log /\ Apart(r, t, 2) /\ r.act = t.act
      /\ r.slots[2].popups = {}
  BY <1>0, <1>1, <1>2, QuietIs
<1> HIDE DEF r
<1>4. r.slots[1] = t.slots[1]
  BY <1>3 DEF Apart, Sides
<1>5. focus.on = "grid" => modal
  BY FociAre DEF Poised, Sides
<1>6. Unread(r)
  BY <1>1, <1>3, <1>4, <1>5 DEF Unread, Sides
<1>7. QED BY <1>6 DEF r, t

\* One pane reads a frame's keys at most.
LEMMA OneReads ==
  ASSUME NEW fr, Typing(fr), Poised(slots, focus), modal \in BOOLEAN
  PROVE  LET s == Rendered(Rendered(Start(fr), 1, fr), 2, fr)
         IN  Unread(s) \/ \E p \in Sides : Read(s, p, fr) /\ Wants(s, p, fr)
<1> DEFINE s == Rendered(Rendered(Start(fr), 1, fr), 2, fr)
<1> HIDE DEF s
<1>1. CASE slots[1].popups # {} \/ (focus = Grid(1) /\ ~modal)
  BY <1>1, FirstReads DEF Sides, s
<1>2. CASE ~(slots[1].popups # {} \/ (focus = Grid(1) /\ ~modal))
  <2>1. CASE slots[2].popups # {} \/ (focus = Grid(2) /\ ~modal)
    BY <1>2, <2>1, SecondReads DEF Sides, s
  <2>2. CASE ~(slots[2].popups # {} \/ (focus = Grid(2) /\ ~modal))
    BY <1>2, <2>2, NobodyReads DEF s
  <2>3. QED BY <2>1, <2>2
<1>3. QED BY <1>1, <1>2 DEF s

\* Find opens in the pane that read its chord.
LEMMA FindKeeps ==
  ASSUME NEW s, NEW p \in Sides, NEW fr \in Frames, Read(s, p, fr), Wants(s, p, fr)
  PROVE  Read(FindOpened(FindOpened(s, 1), 2), p, fr)
<1> DEFINE r == FindOpened(s, p)
           i == s.act[p]
           d == Deliver(s, p, i, "find", "popup")
           w == [s.slots[p] EXCEPT !.popups = {"find"}, !.needs = TRUE]
           ks == fr.keys
<1>1. /\ s \in Rendering /\ ks \in Seq(KeyNames) /\ s.act[3 - p] = 0 /\ 3 - p \in Sides /\ 3 - p # p
      /\ Neat(s.log, p, ks, slots[p])
  BY DEF Read, Wants, Frames, Sides
<1>2. Read(r, p, fr) /\ r.act = s.act
  <2>1. CASE i = 0 \/ s.slots[p].mode = "alt"
    BY <2>1 DEF FindOpened
  <2>2. CASE ~(i = 0 \/ s.slots[p].mode = "alt")
    <3>1. i \in DOMAIN ks /\ ks[i] = "find" /\ i \in Nat /\ "find" \in KeyNames \cup {"wheel"}
      BY <1>1, <2>2 DEF Wants, KeyNames
    <3>2. \A e \in Told(s.log) : e.i # i
      BY <1>1, <3>1, Elsewhere DEF Wants
    <3>3. d \in Rendering /\ Neat(d.log, p, ks, slots[p]) /\ Adds(d, s, i, "find", "popup")
      BY <1>1, <3>1, <3>2, DeliverNeat
    <3>4. s.slots[p] \in Panes /\ {"find"} \in PopupSets
      BY <1>1 DEF Rendering, PopupSets
    <3>5. w \in Panes /\ w.popups = {"find"}
      BY <3>4 DEF Panes
    <3>6. r = [d EXCEPT !.slots[p] = w]
      <4>1. r = [d EXCEPT !.slots[p].popups = {"find"}, !.slots[p].needs = TRUE]
        BY <2>2 DEF FindOpened
      <4>2. d.slots = s.slots /\ d.slots \in [Sides -> Panes] /\ d \in Rendering
        BY <3>3 DEF Rendering, Adds, OnlyLogs
      <4> HIDE DEF d
      <4>3. QED BY <4>1, <4>2 DEF Rendering, Panes
    <3> HIDE DEF d, w, r
    <3>7. /\ r \in Rendering /\ r.slots[p] = w /\ Apart(r, d, p)
          /\ r.log = d.log /\ r.act = d.act /\ r.focus = d.focus
      BY <3>3, <3>5, <3>6, PaneIs
    <3>8. /\ r.slots[3 - p] = s.slots[3 - p] /\ r.act = s.act /\ r.focus = s.focus
          /\ Told(s.log) \subseteq Told(r.log) /\ Neat(r.log, p, ks, slots[p])
      BY <1>1, <3>3, <3>7 DEF Apart, Adds, OnlyLogs
    <3>9. Complete(r.log, p, ks)
      <4>1. Complete(s.log, p, ks)
        BY DEF Read
      <4>2. QED BY <3>8, <4>1 DEF Complete
    <3>10. Read(r, p, fr)
      BY <3>5, <3>7, <3>8, <3>9 DEF Read
    <3>11. QED BY <3>8, <3>10 DEF r
  <2>3. QED BY <2>1, <2>2
<1>3. FindOpened(s, 3 - p) = s
  BY <1>1 DEF FindOpened
<1> HIDE DEF r
<1>4. FindOpened(r, 3 - p) = r
  BY <1>1, <1>2 DEF FindOpened
<1>5. FindOpened(FindOpened(s, 1), 2) = r
  <2>1. CASE p = 1
    BY <1>4, <2>1 DEF r
  <2>2. CASE p = 2
    BY <1>3, <2>2 DEF r
  <2>3. QED BY <2>1, <2>2 DEF Sides
<1>6. QED BY <1>2, <1>5

LEMMA FindRests ==
  ASSUME NEW s, Unread(s)
  PROVE  FindOpened(FindOpened(s, 1), 2) = s
BY DEF FindOpened, Unread, Sides

\* A focus that is given up is a field's, with nothing up.
LEMMA FocusAfterIs ==
  ASSUME NEW s \in Rendering
  PROVE  /\ FocusAfter(s) \in Foci /\ FocusAfter(s) \in {s.focus, Nowhere}
         /\ s.focus.on # "field" => FocusAfter(s) = s.focus
         /\ s.slots[s.focus.pane].popups \cap Overlays # {} => FocusAfter(s) = s.focus
BY FociAre DEF FocusAfter, Rendering

LEMMA PopupsAre ==
  ASSUME NEW sl \in [Sides -> Panes], NEW p \in Sides
  PROVE  sl[p].popups \in PopupSets /\ Cardinality(sl[p].popups) <= 1
<1>1. sl[p].popups \in PopupSets
  BY DEF Panes
<1>2. \A x : Cardinality({x}) = 1
  BY FS_Singleton
<1>3. Cardinality({}) = 0
  BY FS_EmptySet
<1>4. sl[p].popups = {} \/ \E x : sl[p].popups = {x}
  BY <1>1 DEF PopupSets
<1>5. Cardinality(sl[p].popups) \in {0, 1}
  BY <1>2, <1>3, <1>4
<1>6. QED BY <1>1, <1>5

\* What a frame leaves when pane p has read it
LEMMA ReadPoised ==
  ASSUME NEW s, NEW p \in Sides, NEW fr \in Frames, Read(s, p, fr)
  PROVE  Poised(s.slots, FocusAfter(s))
<1>1. /\ s \in Rendering /\ s.slots \in [Sides -> Panes]
      /\ s.slots[3 - p].popups = {} /\ ~s.slots[3 - p].needs
      /\ s.focus \in {Grid(p), Field(p)} /\ ("completion" \in s.slots[p].popups => s.focus = Grid(p))
  BY DEF Read, Rendering
<1>2. \A k \in Sides : k # p => k = 3 - p /\ p = 3 - k
  BY DEF Sides
<1>3. \A k \in Sides : s.slots[k].popups # {} => s.slots[3 - k].popups = {} /\ ~s.slots[3 - k].needs
  BY <1>1, <1>2
<1>4. \A k \in Sides : "completion" \in s.slots[k].popups => FocusAfter(s) = Grid(k)
  <2>1. ASSUME NEW k \in Sides, "completion" \in s.slots[k].popups PROVE FocusAfter(s) = Grid(k)
    <3>1. k = p /\ s.focus = Grid(p)
      BY <1>1, <1>2, <2>1
    <3>2. s.focus.on # "field"
      BY <3>1, FociAre
    <3>3. FocusAfter(s) = s.focus
      BY <1>1, <3>2, FocusAfterIs
    <3>4. QED BY <3>1, <3>3
  <2>2. QED BY <2>1
<1>5. ASSUME s.slots[2].popups \cap Overlays # {} PROVE FocusAfter(s).pane = 2
  <2>1. p = 2
    BY <1>1, <1>2, <1>5 DEF Sides
  <2>2. s.focus.pane = 2
    BY <1>1, <2>1, FociAre DEF Sides
  <2>3. QED BY <1>1, <1>5, <2>2, FocusAfterIs
<1>6. QED BY <1>1, <1>3, <1>4, <1>5, FocusAfterIs DEF Poised

\* Nobody had anything up.
LEMMA RestPoised ==
  ASSUME NEW s \in Rendering, \A p \in Sides : s.slots[p].popups = {}
  PROVE  Poised(s.slots, FocusAfter(s))
<1>1. s.slots \in [Sides -> Panes] /\ FocusAfter(s) \in Foci
  BY FocusAfterIs DEF Rendering
<1>2. s.slots[2].popups = {}
  BY DEF Sides
<1>3. QED BY <1>1, <1>2 DEF Poised

-----------------------------------------------------------------------------

\* What pane p has read went where it belongs.
LEMMA ReadReaches ==
  ASSUME NEW s, NEW p \in Sides, NEW fr, FrameOf(fr), Read(s, p, fr), Poised(slots, focus),
         log' = s.log, frame' = fr, slots' = s.slots
  PROVE  KeysReachTheirReader'
<1>1. /\ s \in Rendering /\ s.slots \in [Sides -> Panes] /\ fr \in Frames
      /\ fr.owner = focus.pane /\ fr.on = focus.on /\ fr.modal = modal /\ fr.found = slots
  BY DEF Read, Rendering, FrameOf
<1>2. Neat(s.log, p, fr.keys, slots[p])
  BY DEF Read
<1>3. \A j \in DOMAIN s.log : s.log[j].pane = p /\ Permitted(s.log[j], slots[p])
  BY <1>2 DEF Neat, Telling
<1>4. /\ \A j, k \in DOMAIN s.log : s.log[j].i = s.log[k].i => j = k
      /\ \A j, k \in DOMAIN s.log :
           s.log[j].to = "pty" /\ s.log[k].to = "pty" /\ j < k => s.log[j].i < s.log[k].i
  BY <1>2 DEF Neat
<1>5. KeysStayHome'
  <2>1. \A j \in DOMAIN log' : log'[j].i # 0 =>
          log'[j].pane = frame'.owner \/ frame'.found[log'[j].pane].popups # {}
    BY <1>1, <1>3 DEF Read
  <2>2. OnePopup'
    BY <1>1, PopupsAre DEF OnePopup
  <2>3. \A j \in DOMAIN log' :
          log'[j].to = "pty" /\ Editing(frame'.found[log'[j].pane])
            => \/ log'[j].key = "ctrl_d" /\ log'[j].empty
               \/ log'[j].key = "ctrl_c" /\ frame'.found[log'[j].pane].cont
    BY <1>1, <1>3 DEF Permitted
  <2>4. QED BY <1>4, <2>1, <2>2, <2>3 DEF KeysStayHome
<1>6. KeysArriveInOrder'
  <2>1. \A j \in DOMAIN log' : log'[j].to = "pty" => log'[j].key # "copy"
    BY <1>3 DEF Permitted
  <2>2. ASSUME focus.on = "grid", ~modal, ~Editing(slots[focus.pane]),
               \A k \in Sides : ~slots[k].needs /\ slots[k].popups \cap Overlays = {},
               NEW i \in DOMAIN fr.keys, fr.keys[i] \in Typeable, "sheet" \notin ToSet(fr.keys)
        PROVE  \E j \in DOMAIN s.log : s.log[j].i = i /\ s.log[j].to = "pty"
    <3>1. focus.pane \in Sides /\ focus = Grid(focus.pane)
      BY <2>2, FociAre DEF Poised
    <3>2. focus = Grid(p)
      <4>1. CASE p = focus.pane
        BY <3>1, <4>1
      <4>2. CASE slots[p].popups # {}
        <5>1. slots[p].popups \in PopupSets /\ slots[p].popups \cap Overlays = {}
          BY <2>2, PopupsAre DEF Poised
        <5>2. "completion" \in slots[p].popups
          BY <4>2, <5>1 DEF PopupSets, Overlays
        <5>3. QED BY <5>2 DEF Poised
      <4>3. QED BY <4>1, <4>2 DEF Read
    <3>3. focus.pane = p
      BY <3>2, FociAre
    <3>4. \A k \in DOMAIN fr.keys : fr.keys[k] # "sheet"
      BY <2>2 DEF ToSet
    <3>5. Complete(s.log, p, fr.keys)
      BY DEF Read
    <3>6. slots[p].popups \cap Overlays = {} /\ ~Editing(slots[p])
      BY <2>2, <3>3
    <3>7. \E e \in Told(s.log) : e.i = i /\ e.to = "pty"
      BY <2>2, <3>2, <3>4, <3>5, <3>6 DEF Complete
    <3>8. QED BY <3>7 DEF Told
  <2>3. QED BY <1>1, <1>4, <2>1, <2>2 DEF KeysArriveInOrder, Typeable
<1>7. QED BY <1>5, <1>6 DEF KeysReachTheirReader

\* A log of no key, of the wheel at most
Wheeled(l) ==
  \/ l = <<>>
  \/ \E p \in Sides : \E pane : slots[p].mode = "alt" /\ l = Append(<<>>, WheelEntry(p, pane))

LEMMA WheelReaches ==
  ASSUME NEW s \in Rendering, NEW fr, FrameOf(fr), Wheeled(s.log), Poised(slots, focus),
         fr.keys = <<>> \/ (s.log = <<>> /\ (focus.on = "grid" => modal)),
         log' = s.log, frame' = fr, slots' = s.slots
  PROVE  KeysReachTheirReader'
<1>1. /\ s.slots \in [Sides -> Panes] /\ fr \in Frames
      /\ fr.owner = focus.pane /\ fr.on = focus.on /\ fr.modal = modal /\ fr.found = slots
  BY DEF Rendering, FrameOf
<1> DEFINE Alone(j) == /\ j = 1 /\ s.log[j].i = 0 /\ s.log[j].key = "wheel"
                       /\ s.log[j].pane \in Sides /\ slots[s.log[j].pane].mode = "alt"
<1>2. \A j \in DOMAIN s.log : Alone(j)
  <2>1. CASE s.log = <<>>
    BY <2>1
  <2>2. ASSUME NEW p \in Sides, NEW pane, slots[p].mode = "alt",
               s.log = Append(<<>>, WheelEntry(p, pane))
        PROVE  \A j \in DOMAIN s.log : Alone(j)
    <3>1. s.log = <<WheelEntry(p, pane)>>
      BY <2>2
    <3>2. DOMAIN s.log = {1} /\ s.log[1] = WheelEntry(p, pane)
      BY <3>1
    <3>3. QED BY <2>2, <3>2 DEF WheelEntry
  <2>3. QED BY <2>1, <2>2 DEF Wheeled
<1>3. KeysStayHome'
  <2>1. OnePopup'
    BY <1>1, PopupsAre DEF OnePopup
  <2>2. \A j \in DOMAIN log' : ~Editing(frame'.found[log'[j].pane])
    BY <1>1, <1>2 DEF Editing
  <2>3. QED BY <1>2, <2>1, <2>2 DEF KeysStayHome
<1>4. KeysArriveInOrder'
  <2>1. fr.on = "grid" /\ ~fr.modal => DOMAIN fr.keys = {}
    BY <1>1
  <2>2. \A j, k \in DOMAIN s.log : ~(j < k)
    BY <1>2
  <2>3. QED BY <1>2, <2>1, <2>2 DEF KeysArriveInOrder
<1>5. QED BY <1>3, <1>4 DEF KeysReachTheirReader

\* A frame without keys moves the focus, and leaves open what was.
LEMMA SilentFrame ==
  ASSUME NEW fr, FrameOf(fr), fr.keys = <<>>, Poised(slots, focus), modal \in BOOLEAN,
         fr.press # 0 => \A p \in Sides : p # fr.press => slots[p].popups # {"completion"}
  PROVE  LET s == Rendered(Rendered(Start(fr), 1, fr), 2, fr)
         IN  /\ s \in Rendering /\ \A p \in Sides : s.act[p] = 0
             /\ Wheeled(s.log) /\ Poised(s.slots, FocusAfter(s))
<1> DEFINE s == Start(fr)
           t == Rendered(s, 1, fr)
           r == Rendered(t, 2, fr)
<1>0. fr \in Frames /\ 1 \in Sides /\ 2 \in Sides /\ fr.press \in 0..2
  BY DEF FrameOf, Frames, Sides
<1>1. slots \in [Sides -> Panes] /\ focus \in Foci
  BY DEF Poised
<1>2. /\ s \in Rendering /\ s.slots = slots /\ s.log = <<>> /\ s.act = [p \in Sides |-> 0]
      /\ s.focus \in {focus, Nowhere} /\ (focus.on # "field" => s.focus = focus)
  BY <1>1, StartIs
<1> HIDE DEF s
<1>3. Still(t, s, 1, fr)
  BY <1>0, <1>2, StillIs
<1> HIDE DEF t
<1>4. /\ t \in Rendering /\ t.slots[2] = slots[2] /\ t.act = s.act /\ ~t.slots[1].needs
  BY <1>0, <1>2, <1>3 DEF Still, Apart
<1>5. Still(r, t, 2, fr)
  BY <1>0, <1>4, StillIs
<1> HIDE DEF r
<1>6. /\ r \in Rendering /\ r.slots[1] = t.slots[1] /\ r.act = s.act
      /\ ~r.slots[1].needs /\ ~r.slots[2].needs
  BY <1>0, <1>4, <1>5 DEF Still, Apart
<1>7. \A p \in Sides : /\ r.slots[p].popups \subseteq slots[p].popups
                       /\ r.slots[p].popups \cap Overlays = slots[p].popups \cap Overlays
                       /\ ~r.slots[p].needs
  <2>1. r.slots[1].popups = t.slots[1].popups /\ t.slots[2].popups = slots[2].popups
    BY <1>4, <1>6
  <2>2. t.slots[1].popups \in {slots[1].popups, slots[1].popups \ {"completion"}}
    BY <1>2, <1>3 DEF Still
  <2>3. r.slots[2].popups \in {slots[2].popups, slots[2].popups \ {"completion"}}
    BY <1>4, <1>5 DEF Still
  <2>4. QED BY <1>6, <2>1, <2>2, <2>3 DEF Sides, Overlays
<1>8. /\ t.focus = IF slots[1].popups \cap Overlays # {} THEN Field(1)
                   ELSE IF ~modal /\ (slots[1].needs \/ s.focus = Nowhere \/ fr.press = 1)
                   THEN Grid(1) ELSE s.focus
      /\ r.focus = IF slots[2].popups \cap Overlays # {} THEN Field(2)
                   ELSE IF ~modal /\ (slots[2].needs \/ t.focus = Nowhere \/ fr.press = 2)
                   THEN Grid(2) ELSE t.focus
  BY <1>2, <1>3, <1>4, <1>5 DEF Still
<1>9. Wheeled(r.log)
  <2>1. t.log = <<>> \/ (/\ fr.wheel = 1 /\ slots[1].mode = "alt"
                         /\ \E pane : t.log = Append(<<>>, WheelEntry(1, pane)))
    BY <1>2, <1>3 DEF Still
  <2>2. r.log = t.log \/ (/\ fr.wheel = 2 /\ slots[2].mode = "alt"
                          /\ \E pane : r.log = Append(t.log, WheelEntry(2, pane)))
    BY <1>4, <1>5 DEF Still
  <2>3. QED BY <1>0, <2>1, <2>2 DEF Wheeled
<1>10. \A p \in Sides : r.slots[p].popups # {} =>
         r.slots[3 - p].popups = {} /\ ~r.slots[3 - p].needs
  <2>1. ASSUME NEW p \in Sides, r.slots[p].popups # {}
        PROVE  r.slots[3 - p].popups = {} /\ ~r.slots[3 - p].needs
    <3>1. slots[p].popups # {} /\ 3 - p \in Sides
      BY <1>7, <2>1 DEF Sides
    <3>2. slots[3 - p].popups = {}
      BY <3>1 DEF Poised
    <3>3. QED BY <1>7, <3>1, <3>2
  <2>2. QED BY <2>1
<1>11. \A p \in Sides : "completion" \in r.slots[p].popups => FocusAfter(r) = Grid(p)
  <2>1. ASSUME NEW p \in Sides, "completion" \in r.slots[p].popups PROVE FocusAfter(r) = Grid(p)
    <3>1. "completion" \in slots[p].popups /\ slots[p].popups \in PopupSets /\ 3 - p \in Sides
      BY <1>1, <1>7, <2>1, PopupsAre DEF Sides
    <3>2. slots[p].popups = {"completion"} /\ slots[p].popups \cap Overlays = {}
      BY <3>1 DEF PopupSets, Overlays
    <3>3. /\ focus = Grid(p) /\ slots[3 - p].popups = {} /\ ~slots[3 - p].needs
      BY <3>1, <3>2 DEF Poised
    <3>4. fr.press # 3 - p
      BY <1>0, <3>1, <3>2 DEF Sides
    <3>5. s.focus = Grid(p) /\ Grid(p) # Nowhere /\ Grid(p).on # "field"
      BY <1>2, <3>3, FociAre
    <3>6. r.focus = Grid(p)
      <4>1. CASE p = 1
        BY <1>8, <3>2, <3>3, <3>4, <3>5, <4>1
      <4>2. CASE p = 2
        BY <1>8, <3>2, <3>3, <3>4, <3>5, <4>2
      <4>3. QED BY <4>1, <4>2 DEF Sides
    <3>7. QED BY <1>6, <3>5, <3>6, FocusAfterIs
  <2>2. QED BY <2>1
<1>12. ASSUME r.slots[2].popups \cap Overlays # {} PROVE FocusAfter(r).pane = 2
  <2>1. r.focus = Field(2) /\ r.focus.pane = 2
    BY <1>0, <1>7, <1>8, <1>12, FociAre
  <2>2. QED BY <1>6, <1>12, <2>1, FocusAfterIs
<1>13. Poised(r.slots, FocusAfter(r))
  BY <1>6, <1>10, <1>11, <1>12, FocusAfterIs DEF Poised, Rendering
<1>14. QED BY <1>2, <1>6, <1>9, <1>13 DEF r, t, s

\* What holds of the keyboard from frame to frame
KeyInv == Poised(slots, focus) /\ modal \in BOOLEAN /\ KeysReachTheirReader

\* Nothing typed, nothing to reach
LEMMA NothingReaches ==
  ASSUME slots' \in [Sides -> Panes], log' = <<>>, frame' = NoFrame
  PROVE  KeysReachTheirReader'
<1>1. OnePopup'
  BY PopupsAre DEF OnePopup
<1>2. DOMAIN log' = {} /\ frame'.on # "grid"
  BY DEF NoFrame
<1>3. QED BY <1>1, <1>2 DEF KeysReachTheirReader, KeysStayHome, KeysArriveInOrder

\* A pane's record replaced, with the same things up and asking the same
LEMMA PoisedSame ==
  ASSUME NEW sl, Poised(sl, focus), NEW p \in Sides, NEW w \in Panes,
         w.popups = sl[p].popups, w.needs = sl[p].needs
  PROVE  Poised([sl EXCEPT ![p] = w], focus)
<1> DEFINE r == [sl EXCEPT ![p] = w]
<1>1. sl \in [Sides -> Panes] /\ \A q \in Sides : 3 - q \in Sides
  BY DEF Poised, Sides
<1>2. /\ r \in [Sides -> Panes]
      /\ \A q \in Sides : r[q].popups = sl[q].popups /\ r[q].needs = sl[q].needs
  BY <1>1
<1> HIDE DEF r
<1>3. 2 \in Sides
  BY DEF Sides
<1>4. Poised(r, focus)
  BY <1>1, <1>2, <1>3 DEF Poised
<1>5. QED BY <1>4 DEF r

\* and where nothing is up in the other pane
LEMMA PoisedAlone ==
  ASSUME NEW sl, Poised(sl, focus), NEW p \in Sides, NEW w \in Panes,
         sl[3 - p].popups = {}, w.popups # {} => ~sl[3 - p].needs,
         "completion" \in w.popups => focus = Grid(p),
         w.popups \cap Overlays # {} => w.popups = sl[p].popups
  PROVE  Poised([sl EXCEPT ![p] = w], focus)
<1> DEFINE r == [sl EXCEPT ![p] = w]
<1>1. /\ sl \in [Sides -> Panes] /\ 2 \in Sides
      /\ \A q \in Sides : 3 - q \in Sides /\ 3 - q # q /\ (q # p => q = 3 - p /\ 3 - q = p)
  BY DEF Poised, Sides
<1>2. r \in [Sides -> Panes] /\ r[p] = w /\ \A q \in Sides : q # p => r[q] = sl[q]
  BY <1>1
<1> HIDE DEF r
<1>3. r[3 - p] = sl[3 - p]
  BY <1>1, <1>2
<1>4. \A q \in Sides : r[q].popups # {} => r[3 - q].popups = {} /\ ~r[3 - q].needs
  <2>1. ASSUME NEW q \in Sides, r[q].popups # {} PROVE r[3 - q].popups = {} /\ ~r[3 - q].needs
    <3>1. q = p
      BY <1>1, <1>2, <2>1
    <3>2. QED BY <1>2, <1>3, <2>1, <3>1
  <2>2. QED BY <2>1
<1>5. \A q \in Sides : "completion" \in r[q].popups => focus = Grid(q)
  BY <1>1, <1>2 DEF Poised
<1>6. r[2].popups \cap Overlays # {} => focus.pane = 2
  BY <1>1, <1>2 DEF Poised
<1>7. Poised(r, focus)
  BY <1>2, <1>4, <1>5, <1>6 DEF Poised
<1>8. QED BY <1>7 DEF r

\* Things that happen between two frames
LEMMA HappensKeeps ==
  ASSUME KeyInv, "slow" \notin KeyMoves, "leave" \notin KeyMoves,
         ShellPrompts \/ AltScreen \/ Answer \/ TabChosen \/ Confirm
  PROVE  KeyInv'
<1>1. /\ Poised(slots, focus) /\ slots \in [Sides -> Panes] /\ modal \in BOOLEAN
      /\ \A p \in Sides : slots[p] \in Panes /\ slots[p].popups \in PopupSets /\ 3 - p \in Sides
  BY DEF KeyInv, Poised, Sides, Panes
<1>2. ASSUME Happens, Poised(slots', focus'), modal' \in BOOLEAN PROVE KeyInv'
  BY <1>2, NothingReaches DEF KeyInv, Poised, Happens
<1>3. CASE ShellPrompts
  <2>1. PICK p \in Sides, more \in BOOLEAN :
          slots' = [slots EXCEPT ![p].mode = "editor", ![p].cont = more, ![p].text = IF more THEN 1 ELSE 0]
    BY <1>3 DEF ShellPrompts
  <2> DEFINE w == [slots[p] EXCEPT !.mode = "editor", !.cont = more, !.text = IF more THEN 1 ELSE 0]
  <2>2. slots' = [slots EXCEPT ![p] = w]
    BY <1>1, <2>1 DEF Panes
  <2>3. w \in Panes /\ w.popups = slots[p].popups /\ w.needs = slots[p].needs
    BY <1>1 DEF Panes
  <2> HIDE DEF w
  <2>4. Poised(slots', focus)
    BY <1>1, <2>2, <2>3, PoisedSame
  <2>5. QED BY <1>1, <1>2, <1>3, <2>4 DEF ShellPrompts
<1>4. CASE AltScreen
  <2>1. PICK p \in Sides : slots' = [slots EXCEPT ![p].mode = IF @ = "raw" THEN "alt" ELSE "raw"]
    BY <1>4 DEF AltScreen
  <2> DEFINE w == [slots[p] EXCEPT !.mode = IF @ = "raw" THEN "alt" ELSE "raw"]
  <2>2. slots' = [slots EXCEPT ![p] = w]
    BY <1>1, <2>1 DEF Panes
  <2>3. w \in Panes /\ w.popups = slots[p].popups /\ w.needs = slots[p].needs
    BY <1>1 DEF Panes
  <2> HIDE DEF w
  <2>4. Poised(slots', focus)
    BY <1>1, <2>2, <2>3, PoisedSame
  <2>5. QED BY <1>1, <1>2, <1>4, <2>4 DEF AltScreen
<1>5. CASE Answer
  <2>1. PICK p \in Sides, lone \in BOOLEAN :
          /\ AtHome(p)
          /\ slots' = [slots EXCEPT ![p].pending = FALSE, ![p].text = IF lone THEN 1 ELSE @,
                         ![p].popups = IF lone THEN @ \ {"completion"} ELSE @ \cup {"completion"}]
    BY <1>5 DEF Answer
  <2> DEFINE u == IF lone THEN slots[p].popups \ {"completion"}
                  ELSE slots[p].popups \cup {"completion"}
             w == [slots[p] EXCEPT !.pending = FALSE, !.text = IF lone THEN 1 ELSE @, !.popups = u]
  <2>2. slots' = [slots EXCEPT ![p] = w]
    BY <1>1, <2>1 DEF Panes
  <2>3. u \in {{}, {"completion"}}
    BY <1>1, <2>1 DEF AtHome, PopupSets
  <2>4. w \in Panes /\ w.popups = u
    <3> HIDE DEF u
    <3>1. u \in PopupSets
      BY <2>3 DEF PopupSets
    <3>2. QED BY <1>1, <3>1 DEF Panes
  <2> HIDE DEF w, u
  <2>5. w.popups \cap Overlays = {}
    BY <2>3, <2>4 DEF Overlays
  <2>6. /\ slots[3 - p].popups = {} /\ (w.popups # {} => ~slots[3 - p].needs)
        /\ "completion" \in w.popups => focus = Grid(p)
        /\ w.popups \cap Overlays # {} => w.popups = slots[p].popups
    BY <2>1, <2>5 DEF AtHome
  <2>7. Poised([slots EXCEPT ![p] = w], focus)
    BY <1>1, <2>4, <2>6, PoisedAlone
  <2>8. QED BY <1>1, <1>2, <1>5, <2>2, <2>7 DEF Answer
<1>6. CASE TabChosen
  <2>1. PICK p \in Sides : slots' = [slots EXCEPT ![p].needs = TRUE] /\ slots[3 - p].popups = {}
    BY <1>6 DEF TabChosen
  <2> DEFINE w == [slots[p] EXCEPT !.needs = TRUE]
  <2>2. slots' = [slots EXCEPT ![p] = w]
    BY <1>1, <2>1 DEF Panes
  <2>3. w \in Panes /\ w.popups = slots[p].popups
    BY <1>1 DEF Panes
  <2> HIDE DEF w
  <2>4. /\ w.popups # {} => ~slots[3 - p].needs
        /\ "completion" \in w.popups => focus = Grid(p)
        /\ w.popups \cap Overlays # {} => w.popups = slots[p].popups
    BY <1>1, <2>3 DEF Poised
  <2>5. Poised([slots EXCEPT ![p] = w], focus)
    BY <1>1, <2>1, <2>3, <2>4, PoisedAlone
  <2>6. QED BY <1>1, <1>2, <1>6, <2>2, <2>5 DEF TabChosen
<1>7. CASE Confirm
  BY <1>1, <1>2, <1>7 DEF Confirm
<1>8. QED BY <1>3, <1>4, <1>5, <1>6, <1>7

\* What is copied comes alone in its frame.
CopiesAlone == \A ks \in KeyFrames : \A i \in DOMAIN ks : ks[i] = "copy" => Len(ks) = 1

\* Shift is down in a frame that copies, and only there.
LEMMA ShiftIsCopy ==
  ASSUME NEW fr, fr.keys \in Seq(KeyNames),
         \A i \in DOMAIN fr.keys : fr.keys[i] = "copy" => Len(fr.keys) = 1,
         fr.shift <=> fr.keys # <<>> /\ Last(fr.keys) = "copy"
  PROVE  CopiedAlone(fr)
<1>1. ASSUME NEW i \in DOMAIN fr.keys
      PROVE  /\ CopyClaims(fr, fr.keys[i]) <=> fr.keys[i] = "copy"
             /\ fr.keys[i] = "copy" => Len(fr.keys) = 1
  <2>1. DOMAIN fr.keys = 1..Len(fr.keys) /\ Len(fr.keys) \in Nat
    OBVIOUS
  <2>2. ASSUME fr.shift PROVE fr.keys[i] = "copy"
    <3>1. fr.keys[Len(fr.keys)] = "copy" /\ Len(fr.keys) \in DOMAIN fr.keys
      BY <1>1, <2>1, <2>2 DEF Last
    <3>2. Len(fr.keys) = 1
      BY <3>1
    <3>3. i = Len(fr.keys)
      BY <1>1, <2>1, <3>2
    <3>4. QED BY <3>1, <3>3
  <2>3. ASSUME fr.keys[i] = "copy" PROVE fr.shift
    <3>1. Len(fr.keys) = 1
      BY <2>3
    <3>2. i = Len(fr.keys)
      BY <1>1, <2>1, <3>1
    <3>3. fr.keys # <<>>
      <4>1. Len(<<>>) = 0
        OBVIOUS
      <4>2. QED BY <3>1, <4>1
    <3>4. Last(fr.keys) = fr.keys[i]
      BY <3>2 DEF Last
    <3>5. QED BY <2>3, <3>3, <3>4
  <2>4. QED BY <2>2, <2>3 DEF CopyClaims
<1>2. QED BY <1>1 DEF CopiedAlone

LEMMA FrameKeeps ==
  ASSUME KeyInv, KeyFrame, CopiesAlone,
         KeyMoves \cap {"together", "leave", "let_go", "slow"} = {}
  PROVE  KeyInv'
<1>0. /\ Poised(slots, focus) /\ slots \in [Sides -> Panes] /\ focus \in Foci /\ modal \in BOOLEAN
      /\ modal' = modal
  BY DEF KeyInv, Poised, KeyFrame
<1> DEFINE Left(press) == \E p \in Sides \ {press} : press # 0 /\ slots[p].popups = {"completion"}
           Comes(keys, press, fr) ==
             /\ \/ keys = <<>> \/ "together" \in KeyMoves
                \/ press = 0 /\ \A p \in Sides : slots[p].needs => p = focus.pane
             /\ Left(press) => "leave" \in KeyMoves
             /\ slots' = Framed(fr).slots /\ focus' = FocusAfter(Framed(fr))
             /\ log' = Framed(fr).log /\ frame' = fr
<1>1. PICK keys \in KeyFrames, press \in 0..2, wheel \in 0..2, plan \in {"open", "await", "close"} :
        \E shift \in Shifts(keys) : Comes(keys, press, Input(keys, press, wheel, plan, shift))
  BY DEF KeyFrame
<1>1a. PICK shift \in Shifts(keys) : Comes(keys, press, Input(keys, press, wheel, plan, shift))
  BY <1>1
<1> DEFINE fr == Input(keys, press, wheel, plan, shift)
           s == Rendered(Rendered(Start(fr), 1, fr), 2, fr)
           r == FindOpened(FindOpened(s, 1), 2)
<1>2. /\ keys = <<>> \/ (press = 0 /\ \A p \in Sides : slots[p].needs => p = focus.pane)
      /\ press # 0 => \A p \in Sides : p # press => slots[p].popups # {"completion"}
      /\ slots' = r.slots /\ focus' = FocusAfter(r) /\ log' = r.log /\ frame' = fr
  <2>1. Framed(fr) = r
    BY DEF Framed
  <2> HIDE DEF r, fr
  <2>2. Comes(keys, press, fr)
    BY <1>1a DEF fr
  <2>3. QED BY <2>1, <2>2
<1>3. keys \in Seq(KeyNames) /\ \A i \in DOMAIN keys : keys[i] = "copy" => Len(keys) = 1
  BY KeyAssumption DEF CopiesAlone
<1>4. /\ FrameOf(fr) /\ fr.keys = keys /\ fr.press = press
      /\ fr.shift <=> keys # <<>> /\ Last(keys) = "copy"
  <2>1. focus.pane \in 0..2 /\ focus.on \in {"none", "grid", "field"}
    BY <1>0, FociAre
  <2>2. shift = (keys # <<>> /\ Last(keys) = "copy")
    BY DEF Shifts
  <2>3. fr \in Frames
    BY <1>0, <1>3, <2>1, <2>2 DEF Frames, Plans, Input
  <2>4. QED BY <2>2, <2>3 DEF FrameOf, Input
<1> HIDE DEF fr
<1>5. fr \in Frames
  BY <1>4 DEF FrameOf
<1>6. CASE keys = <<>>
  <2>1. /\ s \in Rendering /\ \A p \in Sides : s.act[p] = 0
        /\ Wheeled(s.log) /\ Poised(s.slots, FocusAfter(s))
    BY <1>0, <1>2, <1>4, <1>6, SilentFrame
  <2>2. r = s
    <3> HIDE DEF s
    <3>1. QED BY <2>1 DEF FindOpened, Sides
  <2> HIDE DEF s, r
  <2>3. KeysReachTheirReader'
    BY <1>0, <1>2, <1>4, <1>6, <2>1, <2>2, WheelReaches
  <2>4. Poised(slots', focus')
    BY <1>2, <2>1, <2>2
  <2>5. QED BY <1>0, <2>3, <2>4 DEF KeyInv
<1>7. CASE keys # <<>>
  <2>1. CopiedAlone(fr)
    BY <1>3, <1>4, ShiftIsCopy
  <2>2. Typing(fr)
    BY <1>2, <1>4, <1>7, <2>1 DEF Typing
  <2>3. Unread(s) \/ \E p \in Sides : Read(s, p, fr) /\ Wants(s, p, fr)
    BY <1>0, <2>2, OneReads
  <2> HIDE DEF s
  <2>4. CASE Unread(s)
    <3>1. r = s
      BY <2>4, FindRests
    <3> HIDE DEF r
    <3>2. /\ s \in Rendering /\ Wheeled(s.log) /\ (focus.on = "grid" => modal) /\ s.log = <<>>
          /\ \A p \in Sides : s.slots[p].popups = {}
      BY <2>4 DEF Unread, Wheeled
    <3>3. KeysReachTheirReader'
      BY <1>0, <1>2, <1>4, <3>1, <3>2, WheelReaches
    <3>4. Poised(slots', focus')
      BY <1>2, <3>1, <3>2, RestPoised
    <3>5. QED BY <1>0, <3>3, <3>4 DEF KeyInv
  <2>5. ASSUME NEW p \in Sides, Read(s, p, fr), Wants(s, p, fr) PROVE KeyInv'
    <3>1. Read(r, p, fr)
      BY <1>5, <2>5, FindKeeps
    <3> HIDE DEF r
    <3>2. KeysReachTheirReader'
      BY <1>0, <1>2, <1>4, <3>1, ReadReaches
    <3>3. Poised(slots', focus')
      BY <1>2, <1>5, <3>1, ReadPoised
    <3>4. QED BY <1>0, <3>2, <3>3 DEF KeyInv
  <2>6. QED BY <2>3, <2>4, <2>5
<1>8. QED BY <1>6, <1>7

LEMMA KeyInvInit == KeyInit => KeyInv
<1> SUFFICES ASSUME KeyInit PROVE KeyInv
  OBVIOUS
<1> DEFINE w == [mode |-> "raw", text |-> 0, cont |-> FALSE, popups |-> {},
                 pending |-> FALSE, needs |-> FALSE]
<1>1. slots = [p \in Sides |-> w] /\ focus = Nowhere /\ modal = FALSE /\ frame = NoFrame /\ log = <<>>
  BY DEF KeyInit
<1>2. w \in Panes /\ w.popups = {}
  BY DEF Panes, PopupSets
<1> HIDE DEF w
<1>3. slots \in [Sides -> Panes] /\ \A p \in Sides : slots[p].popups = {} /\ 3 - p \in Sides
  BY <1>1, <1>2 DEF Sides
<1>4. Poised(slots, focus)
  BY <1>1, <1>3, FociAre DEF Poised, Sides
<1>5. OnePopup
  BY <1>3, PopupsAre DEF OnePopup
<1>6. DOMAIN log = {} /\ frame.on # "grid"
  BY <1>1 DEF NoFrame
<1>7. KeysReachTheirReader
  BY <1>5, <1>6 DEF KeysReachTheirReader, KeysStayHome, KeysArriveInOrder
<1>8. QED BY <1>1, <1>4, <1>7 DEF KeyInv

\* A key reaches one reader, the right one, in the order typed, however many
\* keys a frame brings, while keys come in frames of their own (no press with
\* them, what is copied alone), a press elsewhere finds no completion open, and
\* a completion answers in the pane that has the keyboard
\* (render_pane.rs's focus claims, keyboard loop and overlays).
THEOREM KeysFindTheirReader ==
  ASSUME KeyMoves \cap {"together", "leave", "let_go", "slow"} = {}, CopiesAlone
  PROVE  KeySpec => []KeysReachTheirReader
<1>1. KeyInit => KeyInv
  BY KeyInvInit
<1>2. KeyInv /\ [KeyNext]_keyVars => KeyInv'
  <2> SUFFICES ASSUME KeyInv, [KeyNext]_keyVars PROVE KeyInv'
    OBVIOUS
  <2>1. CASE KeyFrame
    BY <2>1, FrameKeeps
  <2>2. CASE ShellPrompts \/ AltScreen \/ Answer \/ TabChosen \/ Confirm
    BY <2>2, HappensKeeps
  <2>3. CASE UNCHANGED keyVars
    BY <2>3 DEF KeyInv, keyVars, Poised, KeysReachTheirReader, KeysStayHome, KeysArriveInOrder,
                OnePopup
  <2>4. QED BY <2>1, <2>2, <2>3 DEF KeyNext
<1>3. KeyInv => KeysReachTheirReader
  BY DEF KeyInv
<1>4. QED BY <1>1, <1>2, <1>3, PTL DEF KeySpec
-----------------------------------------------------------------------------
(***************************************************************************)
(* The view                                                                *)
(***************************************************************************)

\* A column of heights: where each begins, and that there is one.
Column(f, c, d, n) ==
  /\ f[0] = c
  /\ \A j \in 1..n : f[j] = f[j - 1] + d[j]
  /\ \A j \in 0..n : f[j] \in Int

LEMMA ColumnExists ==
  ASSUME NEW n \in Nat, NEW c \in Int, NEW d \in [1..n -> Int]
  PROVE  \E f : f = [j \in 0..n |-> IF j = 0 THEN c ELSE f[j - 1] + d[j]]
<1> DEFINE Fits(f, m) == f = [j \in 0..m |-> IF j = 0 THEN c ELSE f[j - 1] + d[j]]
           T == {m \in Nat : \E f : Fits(f, m)}
<1>1. 0 \in T
  <2>1. Fits([j \in 0..0 |-> c], 0)
    OBVIOUS
  <2>2. QED BY <2>1
<1>2. ASSUME NEW m \in T PROVE m + 1 \in T
  <2>1. PICK f : Fits(f, m)
    OBVIOUS
  <2> DEFINE g == [j \in 0..(m + 1) |-> IF j = m + 1 THEN f[m] + d[m + 1] ELSE f[j]]
  <2>2. \A j \in 0..m : g[j] = f[j]
    OBVIOUS
  <2>3. ASSUME NEW j \in 0..(m + 1)
        PROVE  g[j] = IF j = 0 THEN c ELSE g[j - 1] + d[j]
    <3>1. CASE j = m + 1
      BY <3>1, <2>2
    <3>2. CASE j \in 0..m
      <4>1. g[j] = f[j] /\ (j # 0 => j - 1 \in 0..m /\ g[j - 1] = f[j - 1])
        BY <3>2, <2>2
      <4>2. f[j] = IF j = 0 THEN c ELSE f[j - 1] + d[j]
        BY <3>2, <2>1
      <4>3. QED BY <4>1, <4>2
    <3>3. QED BY <3>1, <3>2
  <2>4. Fits(g, m + 1)
    BY <2>3
  <2>5. \E h : Fits(h, m + 1)
    <3> HIDE DEF g, Fits
    <3>1. QED BY <2>4
  <2>6. m + 1 \in Nat
    OBVIOUS
  <2>7. QED BY <2>5, <2>6
<1>3. n \in T
  <2>1. T = Nat
    <3> HIDE DEF T
    <3>1. T \in SUBSET Nat
      BY DEF T
    <3>2. QED BY <1>1, <1>2, <3>1, Induction
  <2>2. QED BY <2>1
<1>4. QED BY <1>3

\* What the function says is a column.
LEMMA ColumnStepwise ==
  ASSUME NEW n \in Nat, NEW c \in Int, NEW d \in [1..n -> Int],
         NEW f, f = [j \in 0..n |-> IF j = 0 THEN c ELSE f[j - 1] + d[j]]
  PROVE  Column(f, c, d, n)
<1> DEFINE T == {m \in Nat : m <= n => f[m] \in Int}
<1>1. \A j \in 0..n : f[j] = IF j = 0 THEN c ELSE f[j - 1] + d[j]
  OBVIOUS
<1>2. f[0] = c /\ \A j \in 1..n : f[j] = f[j - 1] + d[j]
  <2>1. 0 \in 0..n /\ \A j \in 1..n : j \in 0..n /\ j # 0
    OBVIOUS
  <2>2. QED BY <1>1, <2>1
<1>3. 0 \in T
  BY <1>2
<1>4. ASSUME NEW m \in T PROVE m + 1 \in T
  <2>1. CASE m + 1 <= n
    <3>1. m + 1 \in 1..n /\ (m + 1) - 1 = m /\ f[m] \in Int
      BY <2>1
    <3>2. f[m + 1] = f[m] + d[m + 1]
      BY <1>2, <3>1
    <3>3. QED BY <3>1, <3>2
  <2>2. CASE m + 1 > n
    BY <2>2
  <2>3. QED BY <2>1, <2>2
<1>5. T = Nat
  <2> HIDE DEF T
  <2>1. T \in SUBSET Nat
    BY DEF T
  <2>2. QED BY <1>3, <1>4, <2>1, Induction
<1> HIDE DEF T
<1>6. ASSUME NEW j \in 0..n PROVE f[j] \in Int
  <2>1. j \in Nat /\ j <= n /\ j \in T
    BY <1>5
  <2>2. QED BY <2>1 DEF T
<1>7. QED BY <1>2, <1>6 DEF Column

\* There is one such column.
LEMMA ColumnUnique ==
  ASSUME NEW n \in Nat, NEW c, NEW d, NEW f, NEW g, Column(f, c, d, n), Column(g, c, d, n)
  PROVE  \A j \in 0..n : f[j] = g[j]
<1> DEFINE T == {m \in Nat : m <= n => f[m] = g[m]}
<1>1. 0 \in T
  BY DEF Column
<1>2. ASSUME NEW m \in T PROVE m + 1 \in T
  <2>1. CASE m + 1 <= n
    <3>1. m + 1 \in 1..n /\ (m + 1) - 1 = m /\ f[m] = g[m]
      BY <2>1
    <3>2. f[m + 1] = f[m] + d[m + 1] /\ g[m + 1] = g[m] + d[m + 1]
      BY <3>1 DEF Column
    <3>3. QED BY <3>1, <3>2
  <2>2. CASE m + 1 > n
    BY <2>2
  <2>3. QED BY <2>1, <2>2
<1>3. T = Nat
  <2> HIDE DEF T
  <2>1. T \in SUBSET Nat
    BY DEF T
  <2>2. QED BY <1>1, <1>2, <2>1, Induction
<1>4. QED BY <1>3

\* A column of heights that are not below 1 goes down.
LEMMA ColumnDescends ==
  ASSUME NEW n \in Nat, NEW c, NEW d \in [1..n -> Int], NEW f, Column(f, c, d, n),
         \A j \in 1..n : d[j] >= 1
  PROVE  \A i, j \in 0..n : i < j => f[j] >= f[i] + d[i + 1]
<1> DEFINE T == {m \in Nat : m <= n => \A i \in 0..n : i < m => f[m] >= f[i] + d[i + 1]}
<1>1. 0 \in T
  OBVIOUS
<1>2. ASSUME NEW m \in T PROVE m + 1 \in T
  <2>1. CASE m + 1 <= n
    <3>1. m + 1 \in 1..n /\ (m + 1) - 1 = m /\ m \in 0..n
      BY <2>1
    <3>2. f[m + 1] = f[m] + d[m + 1] /\ f[m] \in Int /\ f[m + 1] \in Int /\ d[m + 1] \in Int
          /\ d[m + 1] >= 1
      BY <3>1 DEF Column
    <3>3. ASSUME NEW i \in 0..n, i < m + 1 PROVE f[m + 1] >= f[i] + d[i + 1]
      <4>1. CASE i = m
        BY <4>1, <3>2
      <4>2. CASE i < m
        <5>1. f[m] >= f[i] + d[i + 1]
          BY <4>2, <2>1
        <5>2. f[i] \in Int /\ d[i + 1] \in Int
          BY <4>2, <3>1 DEF Column
        <5>3. QED BY <5>1, <5>2, <3>2
      <4>3. QED BY <4>1, <4>2, <3>3
    <3>4. QED BY <3>3
  <2>2. CASE m + 1 > n
    BY <2>2
  <2>3. QED BY <2>1, <2>2
<1>3. T = Nat
  <2> HIDE DEF T
  <2>1. T \in SUBSET Nat
    BY DEF T
  <2>2. QED BY <1>1, <1>2, <2>1, Induction
<1>4. QED BY <1>3

\* What the view's proofs assume of a pane: of every command, the header fits the
\* margin of a page and half the view.
RoomForHeaders ==
  \A lines \in CommandRows :
    lines <= StickyCap /\ lines + 1 <= 4 /\ 2 * (lines + 1) <= PaneRows - 1 - MaxEditRows

\* The blocks of a pane have a header and a command, or neither.
Piled == {b \in [chip : {0, 1}, cmd : Nat, out : Nat] :
            \/ b.chip = 1 /\ b.cmd \in CommandRows
            \/ b.chip = 0 /\ b.cmd = 0}
PileOK == /\ pile \in Seq(Piled) /\ live \in BOOLEAN /\ edit \in 1..MaxEditRows
          /\ live => Len(pile) > 0

Heights == [j \in 1..Len(pile) |-> Rows(pile[j]) + Gap]
Estimates == [j \in 1..Len(pile) |-> Estimated(j)]

\* Heights are numbers.
LEMMA HeightsAreNumbers ==
  PileOK => /\ Len(pile) \in Nat /\ Heights \in [1..Len(pile) -> Int]
            /\ Estimates \in [1..Len(pile) -> Int]
            /\ \A j \in 1..Len(pile) : Heights[j] >= 1
            /\ ViewRows \in Nat
<1> SUFFICES ASSUME PileOK
             PROVE  /\ Len(pile) \in Nat /\ Heights \in [1..Len(pile) -> Int]
                    /\ Estimates \in [1..Len(pile) -> Int]
                    /\ \A j \in 1..Len(pile) : Heights[j] >= 1
                    /\ ViewRows \in Nat
  OBVIOUS
<1>1. Len(pile) \in Nat /\ \A j \in 1..Len(pile) : pile[j] \in Piled
  BY DEF PileOK
<1>2. ASSUME NEW j \in 1..Len(pile)
      PROVE  Rows(pile[j]) + Gap \in Int /\ Rows(pile[j]) + Gap >= 1 /\ Estimated(j) \in Int
  <2>1. pile[j].chip \in Nat /\ pile[j].cmd \in Nat /\ pile[j].out \in Nat
    BY <1>1 DEF Piled
  <2>2. QED BY <2>1 DEF Rows, Gap, Estimated, NotBelow
<1>3. ViewRows \in Nat
  BY ViewAssumption DEF PileOK, ViewRows, Footer, NotBelow
<1>4. QED BY <1>1, <1>2, <1>3 DEF Heights, Estimates

\* The estimate is a column's last height.
LEMMA EstimateIs ==
  PileOK => \E f : Column(f, 0, Estimates, Len(pile)) /\ Estimate = f[Len(pile)]
<1> SUFFICES ASSUME PileOK
             PROVE  \E f : Column(f, 0, Estimates, Len(pile)) /\ Estimate = f[Len(pile)]
  OBVIOUS
<1> DEFINE sum[i \in 0..Len(pile)] == IF i = 0 THEN 0 ELSE sum[i - 1] + Estimated(i)
<1>1. Len(pile) \in Nat /\ Estimates \in [1..Len(pile) -> Int]
  BY HeightsAreNumbers
<1>2. \E f : f = [i \in 0..Len(pile) |-> IF i = 0 THEN 0 ELSE f[i - 1] + Estimated(i)]
  <2> DEFINE Sums(c) == \E f : f = [i \in 0..Len(pile) |->
                                     IF i = 0 THEN c ELSE f[i - 1] + Estimates[i]]
  <2>0. Sums(0)
    <3>1. ASSUME NEW c \in Int PROVE Sums(c)
      BY <1>1, ColumnExists
    <3> HIDE DEF Sums
    <3>2. QED BY <3>1
  <2>1. PICK f : f = [i \in 0..Len(pile) |-> IF i = 0 THEN 0 ELSE f[i - 1] + Estimates[i]]
    BY <2>0
  <2>2. \A i \in 0..Len(pile) : i # 0 => i \in 1..Len(pile) /\ Estimates[i] = Estimated(i)
    BY <1>1 DEF Estimates
  <2>3. f = [i \in 0..Len(pile) |-> IF i = 0 THEN 0 ELSE f[i - 1] + Estimated(i)]
    BY <2>1, <2>2
  <2>4. QED BY <2>3
<1>3. sum = [i \in 0..Len(pile) |-> IF i = 0 THEN 0 ELSE sum[i - 1] + Estimated(i)]
  BY <1>2
<1>4. Estimate = sum[Len(pile)]
  BY DEF Estimate
<1>5. PICK f : /\ f = [i \in 0..Len(pile) |-> IF i = 0 THEN 0 ELSE f[i - 1] + Estimated(i)]
               /\ Estimate = f[Len(pile)]
  <2> HIDE DEF sum
  <2>1. QED BY <1>3, <1>4
<1> HIDE DEF sum
<1>6. f = [i \in 0..Len(pile) |-> IF i = 0 THEN 0 ELSE f[i - 1] + Estimates[i]]
  <2>1. \A i \in 0..Len(pile) : i # 0 => i \in 1..Len(pile) /\ Estimates[i] = Estimated(i)
    BY <1>1 DEF Estimates
  <2>2. QED BY <1>5, <2>1
<1>7. Column(f, 0, Estimates, Len(pile))
  <2> DEFINE Sums(c) == f = [i \in 0..Len(pile) |-> IF i = 0 THEN c ELSE f[i - 1] + Estimates[i]]
  <2>1. ASSUME NEW c \in Int, Sums(c) PROVE Column(f, c, Estimates, Len(pile))
    BY <1>1, <2>1, ColumnStepwise
  <2>2. Sums(0)
    BY <1>6
  <2> HIDE DEF Sums
  <2>3. QED BY <2>1, <2>2
<1>8. QED BY <1>5, <1>7

\* The spacer is a number.
LEMMA SpacerIsANumber == PileOK => Spacer \in Nat
<1> SUFFICES ASSUME PileOK PROVE Spacer \in Nat
  OBVIOUS
<1>1. PICK f : Column(f, 0, Estimates, Len(pile)) /\ Estimate = f[Len(pile)]
  BY EstimateIs
<1>2. Estimate \in Int
  BY <1>1, HeightsAreNumbers DEF Column
<1>3. QED BY <1>2, HeightsAreNumbers DEF Spacer, NotBelow

\* The first rows of the blocks are a column.
LEMMA TopIs ==
  PileOK => \E f : /\ Column(f, Spacer, Heights, Len(pile))
                   /\ \A i \in DOMAIN pile : Top(i) = f[i - 1]
<1> SUFFICES ASSUME PileOK
             PROVE  \E f : /\ Column(f, Spacer, Heights, Len(pile))
                           /\ \A i \in DOMAIN pile : Top(i) = f[i - 1]
  OBVIOUS
<1> DEFINE below[j \in 0..Len(pile)] ==
             IF j = 0 THEN Spacer ELSE below[j - 1] + (Rows(pile[j]) + Gap)
<1>1. Len(pile) \in Nat /\ Heights \in [1..Len(pile) -> Int] /\ Spacer \in Int
  BY HeightsAreNumbers, SpacerIsANumber
<1>2. \E f : f = [j \in 0..Len(pile) |->
                    IF j = 0 THEN Spacer ELSE f[j - 1] + (Rows(pile[j]) + Gap)]
  <2>1. PICK f : f = [j \in 0..Len(pile) |-> IF j = 0 THEN Spacer ELSE f[j - 1] + Heights[j]]
    BY <1>1, ColumnExists
  <2>2. \A j \in 0..Len(pile) : j # 0 => j \in 1..Len(pile) /\ Heights[j] = Rows(pile[j]) + Gap
    BY <1>1 DEF Heights
  <2>3. f = [j \in 0..Len(pile) |-> IF j = 0 THEN Spacer ELSE f[j - 1] + (Rows(pile[j]) + Gap)]
    BY <2>1, <2>2
  <2>4. QED BY <2>3
<1>3. below = [j \in 0..Len(pile) |->
                 IF j = 0 THEN Spacer ELSE below[j - 1] + (Rows(pile[j]) + Gap)]
  BY <1>2
<1>4. \A i \in DOMAIN pile : Top(i) = below[i - 1]
  BY DEF Top
<1>5. PICK f : /\ f = [j \in 0..Len(pile) |->
                         IF j = 0 THEN Spacer ELSE f[j - 1] + (Rows(pile[j]) + Gap)]
               /\ \A i \in DOMAIN pile : Top(i) = f[i - 1]
  <2> HIDE DEF below
  <2>1. QED BY <1>3, <1>4
<1> HIDE DEF below
<1>6. f = [j \in 0..Len(pile) |-> IF j = 0 THEN Spacer ELSE f[j - 1] + Heights[j]]
  <2>1. \A j \in 0..Len(pile) : j # 0 => j \in 1..Len(pile) /\ Heights[j] = Rows(pile[j]) + Gap
    BY <1>1 DEF Heights
  <2>2. QED BY <1>5, <2>1
<1>7. Column(f, Spacer, Heights, Len(pile))
  BY <1>1, <1>6, ColumnStepwise
<1>8. QED BY <1>5, <1>7

\* The blocks are one below the other, and the transcript ends behind the last.
Layout ==
  /\ \A i \in DOMAIN pile : Top(i) \in Nat
  /\ \A i, j \in DOMAIN pile : i < j => Top(j) >= Bottom(i) + 1
  /\ Height \in Nat /\ \A i \in DOMAIN pile : Bottom(i) <= Height
  /\ End \in Nat /\ Height <= End + ViewRows

LEMMA PileIsLaidOut == PileOK => Layout
<1> SUFFICES ASSUME PileOK PROVE Layout
  OBVIOUS
<1>1. /\ Len(pile) \in Nat /\ DOMAIN pile = 1..Len(pile) /\ Spacer \in Nat /\ ViewRows \in Nat
      /\ Heights \in [1..Len(pile) -> Int] /\ \A j \in 1..Len(pile) : Heights[j] >= 1
  BY HeightsAreNumbers, SpacerIsANumber DEF PileOK
<1>2. PICK f : /\ Column(f, Spacer, Heights, Len(pile))
               /\ \A i \in DOMAIN pile : Top(i) = f[i - 1]
  BY TopIs
<1>3. \A i, j \in 0..Len(pile) : i < j => f[j] >= f[i] + Heights[i + 1]
  <2>1. Spacer \in Int
    BY <1>1
  <2>2. QED BY <1>1, <1>2, ColumnDescends
<1>4. ASSUME NEW i \in DOMAIN pile
      PROVE  /\ i - 1 \in 0..Len(pile) /\ i \in 1..Len(pile) /\ i \in 0..Len(pile)
             /\ f[i - 1] \in Int /\ f[i - 1] >= Spacer
             /\ Rows(pile[i]) \in Nat /\ Heights[i] = Rows(pile[i]) + 1
  <2>1. i - 1 \in 0..Len(pile) /\ i \in 1..Len(pile) /\ 0 \in 0..Len(pile) /\ i \in 0..Len(pile)
    BY <1>1
  <2>2. f[i - 1] \in Int /\ f[0] = Spacer
    BY <2>1, <1>2 DEF Column
  <2>3. i - 1 > 0 => f[i - 1] >= f[0] + Heights[0 + 1]
    BY <2>1, <1>3
  <2>4. i - 1 > 0 => f[i - 1] >= Spacer
    <3> SUFFICES ASSUME i - 1 > 0 PROVE f[i - 1] >= Spacer
      OBVIOUS
    <3>1. 1 \in 1..Len(pile) /\ 0 + 1 = 1
      BY <2>1
    <3>2. Heights[1] \in Int /\ Heights[1] >= 1
      BY <3>1, <1>1
    <3>3. QED BY <2>2, <2>3, <3>1, <3>2, <1>1
  <2>5. f[i - 1] >= Spacer
    BY <2>1, <2>2, <2>4, <1>1
  <2>6. pile[i] \in Piled
    BY <2>1 DEF PileOK
  <2>7. Rows(pile[i]) \in Nat /\ Heights[i] = Rows(pile[i]) + 1
    BY <2>1, <2>6 DEF Piled, Rows, Heights, Gap
  <2>8. QED BY <2>1, <2>2, <2>5, <2>7
<1>5. \A i \in DOMAIN pile : Top(i) \in Nat /\ Bottom(i) \in Nat /\ Bottom(i) >= Top(i)
  BY <1>1, <1>2, <1>4 DEF Bottom
<1>6. ASSUME NEW i \in DOMAIN pile, NEW j \in DOMAIN pile, i < j
      PROVE  Top(j) >= Bottom(i) + 1
  <2>1. f[j - 1] >= f[i - 1] + Heights[(i - 1) + 1]
    <3>1. i - 1 \in 0..Len(pile) /\ j - 1 \in 0..Len(pile) /\ i - 1 < j - 1
      BY <1>4, <1>6, <1>1
    <3>2. QED BY <3>1, <1>3
  <2>2. (i - 1) + 1 = i
    BY <1>1
  <2>3. QED BY <2>1, <2>2, <1>2, <1>4 DEF Bottom
<1>7. Height \in Nat /\ \A i \in DOMAIN pile : Bottom(i) <= Height
  <2>1. CASE pile = <<>>
    BY <2>1, <1>1 DEF Height
  <2>2. CASE pile # <<>>
    <3>1. Len(pile) \in DOMAIN pile
      BY <2>2, <1>1 DEF PileOK
    <3>2. Bottom(Len(pile)) \in Nat /\ Top(Len(pile)) \in Nat
          /\ Bottom(Len(pile)) >= Top(Len(pile))
      BY <3>1, <1>5
    <3>3. Height \in Nat /\ Height >= Bottom(Len(pile))
      BY <2>2, <3>2 DEF Height, Gap, PileOK
    <3>4. ASSUME NEW i \in DOMAIN pile PROVE Bottom(i) <= Height
      <4>1. CASE i = Len(pile)
        BY <4>1, <3>2, <3>3
      <4>2. CASE i < Len(pile)
        <5>1. Top(Len(pile)) >= Bottom(i) + 1
          BY <4>2, <3>1, <1>6
        <5>2. QED BY <5>1, <3>2, <3>3, <1>5
      <4>3. QED BY <4>1, <4>2, <1>1
    <3>5. QED BY <3>3, <3>4
  <2>3. QED BY <2>1, <2>2
<1>8. End \in Nat /\ Height <= End + ViewRows
  BY <1>1, <1>7 DEF End, NotBelow
<1>9. QED BY <1>5, <1>6, <1>7, <1>8 DEF Layout

\* A header fits the margin of a page and half the view.
LEMMA HeaderFits ==
  ASSUME PileOK, RoomForHeaders, NEW i \in DOMAIN pile
  PROVE  LET b == pile[i]
         IN  /\ b.chip \in Nat /\ b.cmd \in Nat /\ b.out \in Nat
             /\ StickyRows(b) = b.chip + b.cmd /\ StickyRows(b) \in Nat
             /\ StickyRows(b) <= 4 /\ 2 * StickyRows(b) <= ViewRows
             /\ Bottom(i) = Top(i) + StickyRows(b) + b.out
<1> DEFINE b == pile[i]
<1>1. b \in Piled /\ ViewRows \in Nat
  BY HeightsAreNumbers DEF PileOK
<1>2. b.chip \in {0, 1} /\ b.cmd \in Nat /\ b.out \in Nat
  BY <1>1 DEF Piled
<1>3. PaneRows \in Nat /\ MaxEditRows \in Nat /\ StickyCap \in Nat /\ edit \in Nat
      /\ edit <= MaxEditRows
  BY ViewAssumption DEF PileOK
<1>4. ViewRows >= PaneRows - 1 - MaxEditRows
  BY <1>3 DEF ViewRows, Footer, NotBelow
<1>5. Bottom(i) = Top(i) + (b.chip + b.cmd + b.out) /\ Top(i) \in Nat
  BY PileIsLaidOut DEF Bottom, Rows, Layout
<1>6. CASE b.chip = 1 /\ b.cmd \in CommandRows
  <2>1. b.cmd <= StickyCap /\ b.cmd + 1 <= 4 /\ 2 * (b.cmd + 1) <= PaneRows - 1 - MaxEditRows
    BY <1>6 DEF RoomForHeaders
  <2>2. StickyRows(b) = b.chip + b.cmd
    BY <2>1, <1>2, <1>3 DEF StickyRows, AtMost
  <2> HIDE DEF b
  <2>3. QED BY <2>1, <2>2, <1>1, <1>2, <1>3, <1>4, <1>5, <1>6 DEF b
<1>7. CASE b.chip = 0 /\ b.cmd = 0
  <2>1. StickyRows(b) = b.chip + b.cmd
    BY <1>7, <1>3 DEF StickyRows, AtMost
  <2> HIDE DEF b
  <2>2. QED BY <2>1, <1>1, <1>2, <1>5, <1>7 DEF b
<1>8. QED BY <1>1, <1>6, <1>7 DEF Piled

\* The header that is pinned is that of the block at the top, it begins there or
\* above, and it ends before the next block.
LEMMA PinnedIs ==
  ASSUME PileOK, RoomForHeaders, NEW at \in Nat, NEW p \in Pinned(at)
  PROVE  /\ p.block \in DOMAIN pile /\ Top(p.block) < at /\ at < Bottom(p.block)
         /\ p.top \in Int /\ p.top <= at /\ p.end = p.top + StickyRows(pile[p.block])
         /\ p.block < Len(pile) =>
              /\ p.end <= Top(p.block + 1)
              /\ p.top = at \/ p.top = Top(p.block + 1) - StickyRows(pile[p.block])
         /\ p.block = Len(pile) => p.top = at
<1>1. PICK i \in DOMAIN pile :
        /\ Top(i) < at /\ at < Bottom(i)
        /\ p = LET top == IF i < Len(pile) THEN AtMost(at, Top(i + 1) - StickyRows(pile[i])) ELSE at
               IN  [block |-> i, top |-> top, end |-> top + StickyRows(pile[i])]
  BY DEF Pinned
<1>2. StickyRows(pile[i]) \in Nat
  BY HeaderFits
<1>3. i \in 1..Len(pile) /\ Len(pile) \in Nat
  BY DEF PileOK
<1>4. i < Len(pile) => Top(i + 1) \in Nat
  <2> SUFFICES ASSUME i < Len(pile) PROVE Top(i + 1) \in Nat
    OBVIOUS
  <2>1. i + 1 \in DOMAIN pile
    BY <1>3 DEF PileOK
  <2>2. QED BY <2>1, PileIsLaidOut DEF Layout
<1> DEFINE t == IF i < Len(pile) THEN AtMost(at, Top(i + 1) - StickyRows(pile[i])) ELSE at
<1>5. p.block = i /\ p.top = t /\ p.end = t + StickyRows(pile[i])
  BY <1>1
<1>6. t \in Int /\ t <= at
      /\ (i < Len(pile) => /\ t + StickyRows(pile[i]) <= Top(i + 1)
                           /\ t = at \/ t = Top(i + 1) - StickyRows(pile[i]))
      /\ (i = Len(pile) => t = at)
  BY <1>2, <1>3, <1>4 DEF AtMost
<1> HIDE DEF t
<1>7. QED BY <1>1, <1>5, <1>6

\* A row below one that is not covered is not covered.
LEMMA BelowUncovered ==
  ASSUME PileOK, RoomForHeaders, NEW x \in Nat, NEW a \in Uncovered(x), NEW r \in Int,
         a <= r, r <= x + ViewRows - 1, r < Height
  PROVE  r \in Uncovered(x)
<1>1. ViewRows \in Nat
  BY HeightsAreNumbers
<1>2. a \in x..(x + ViewRows - 1) /\ \A p \in Pinned(x) : a >= p.end
  BY DEF Uncovered
<1>3. ASSUME NEW p \in Pinned(x) PROVE r >= p.end
  <2>1. p.block \in DOMAIN pile /\ p.top \in Int /\ p.end = p.top + StickyRows(pile[p.block])
    BY PinnedIs
  <2>2. StickyRows(pile[p.block]) \in Nat
    BY <2>1, HeaderFits
  <2>3. a >= p.end /\ p.end \in Int /\ a \in Int
    BY <1>1, <1>2, <2>1, <2>2
  <2>4. QED BY <2>3
<1>4. r \in x..(x + ViewRows - 1)
  BY <1>1, <1>2
<1>5. QED BY <1>3, <1>4 DEF Uncovered

\* A row as far below the top as a header is high is not covered.
LEMMA BelowHeaders ==
  ASSUME PileOK, RoomForHeaders, NEW x \in Nat, NEW r \in Int,
         \A i \in DOMAIN pile : r >= x + StickyRows(pile[i]),
         x <= r, r <= x + ViewRows - 1, r < Height
  PROVE  r \in Uncovered(x)
<1>1. ViewRows \in Nat
  BY HeightsAreNumbers
<1>2. ASSUME NEW p \in Pinned(x) PROVE r >= p.end
  <2>1. /\ p.block \in DOMAIN pile /\ p.top \in Int /\ p.top <= x
        /\ p.end = p.top + StickyRows(pile[p.block])
    BY PinnedIs
  <2>2. StickyRows(pile[p.block]) \in Nat
    BY <2>1, HeaderFits
  <2>3. QED BY <2>1, <2>2
<1>3. QED BY <1>1, <1>2 DEF Uncovered

\* Between two views that are no more than a page apart no row is skipped.
LEMMA PagesOverlap ==
  ASSUME PileOK, RoomForHeaders, NEW x \in Nat, NEW y \in Nat, x <= y, y <= x + Page,
         NEW a \in Uncovered(x), NEW b \in Uncovered(y), NEW r \in Int, r < Height,
         (a < r /\ r < b) \/ (b < r /\ r < a)
  PROVE  r \in Uncovered(x) \cup Uncovered(y)
<1>1. ViewRows \in Nat
  BY HeightsAreNumbers
<1>2. a \in x..(x + ViewRows - 1) /\ b \in y..(y + ViewRows - 1)
  BY DEF Uncovered
<1>3. CASE b < r /\ r < a
  <2>1. b <= r /\ r <= y + ViewRows - 1
    BY <1>1, <1>2, <1>3
  <2>2. QED BY <2>1, BelowUncovered
<1>4. CASE a < r /\ r < b /\ r <= x + ViewRows - 1
  <2>1. a <= r
    BY <1>1, <1>2, <1>4
  <2>2. QED BY <2>1, <1>4, BelowUncovered
<1>5. CASE a < r /\ r < b /\ r >= x + ViewRows
  <2>1. ASSUME NEW i \in DOMAIN pile PROVE r >= y + StickyRows(pile[i])
    <3>1. /\ StickyRows(pile[i]) \in Nat /\ StickyRows(pile[i]) <= 4
          /\ 2 * StickyRows(pile[i]) <= ViewRows
      BY HeaderFits
    <3>2. Page \in Int /\ Page + StickyRows(pile[i]) <= ViewRows
      BY <3>1, <1>1 DEF Page, NotBelow
    <3>3. QED BY <3>1, <3>2, <1>1, <1>5
  <2>2. y <= r /\ r <= y + ViewRows - 1
    <3>1. Page \in Int /\ Page <= ViewRows
      BY <1>1 DEF Page, NotBelow
    <3>2. QED BY <3>1, <1>1, <1>2, <1>5
  <2>3. QED BY <2>1, <2>2, BelowHeaders
<1>6. QED BY <1>1, <1>2, <1>3, <1>4, <1>5

\* A match that is scrolled to is in view, and the header leaves it free or shows
\* it itself.
LEMMA MatchIsInView ==
  ASSUME PileOK, RoomForHeaders, ViewRows > 0, NEW s \in 0..End,
         NEW i \in DOMAIN pile, NEW kind \in {"command", "output"},
         NEW row \in 0..((IF kind = "command" THEN pile[i].cmd ELSE pile[i].out) - 1),
         NEW y,
         LET to == Revealed(i, kind, row)
         IN  y = AtMost(End, IF to.top < s THEN to.top
                             ELSE IF to.row >= s + ViewRows THEN to.row - ViewRows + 1 ELSE s)
  PROVE  /\ y \in 0..End
         /\ Revealed(i, kind, row).row \in Uncovered(y) \cup Copied(y)
<1> DEFINE b == pile[i]
           h == StickyRows(b)
           at == Top(i) + b.chip + (IF kind = "output" THEN b.cmd ELSE 0) + row
           top == NotBelow(at - (IF kind = "output" THEN h ELSE 0), 0)
<1>1. Revealed(i, kind, row).row = at /\ Revealed(i, kind, row).top = top
  BY DEF Revealed
<1>2. y = AtMost(End, IF top < s THEN top ELSE IF at >= s + ViewRows THEN at - ViewRows + 1 ELSE s)
  BY <1>1
<1>3. /\ b.chip \in Nat /\ b.cmd \in Nat /\ b.out \in Nat /\ h = b.chip + b.cmd /\ h \in Nat
      /\ h <= 4 /\ 2 * h <= ViewRows /\ Bottom(i) = Top(i) + h + b.out
  BY HeaderFits
<1>4. /\ Top(i) \in Nat /\ Height \in Nat /\ End \in Nat /\ ViewRows \in Nat
      /\ Bottom(i) <= Height /\ Height <= End + ViewRows /\ s \in Nat /\ s <= End
  BY PileIsLaidOut, HeightsAreNumbers DEF Layout
<1>5. /\ row \in Nat /\ at \in Nat /\ at < Bottom(i) /\ top \in Nat
      /\ kind = "output" => top = at - h
      /\ kind = "command" => top = at /\ at = Top(i) + b.chip + row /\ row < b.cmd
  BY <1>3, <1>4 DEF NotBelow
<1> HIDE DEF b, h, at, top
<1>6. y \in Nat /\ y <= End /\ y <= at /\ at <= y + ViewRows - 1
      /\ (kind = "output" => y + h <= at)
  BY <1>2, <1>3, <1>4, <1>5 DEF AtMost
<1>7. at < Height
  BY <1>3, <1>4, <1>5 DEF b
<1>8. CASE \A p \in Pinned(y) : at >= p.end
  <2>1. at \in Uncovered(y)
    BY <1>4, <1>5, <1>6, <1>7, <1>8 DEF Uncovered
  <2>2. QED BY <2>1, <1>1, <1>4, <1>6
<1>9. CASE \E p \in Pinned(y) : ~(at >= p.end)
  <2>1. PICK p \in Pinned(y) : ~(at >= p.end)
    BY <1>9
  <2> DEFINE j == p.block
  <2>2. /\ j \in DOMAIN pile /\ Top(j) < y /\ y < Bottom(j)
        /\ p.top \in Int /\ p.top <= y /\ p.end = p.top + StickyRows(pile[j])
        /\ j < Len(pile) =>
             /\ p.end <= Top(j + 1)
             /\ p.top = y \/ p.top = Top(j + 1) - StickyRows(pile[j])
        /\ j = Len(pile) => p.top = y
    BY <1>6, PinnedIs
  <2> HIDE DEF j
  <2>3. Len(pile) \in Nat /\ i \in 1..Len(pile) /\ j \in 1..Len(pile)
    BY <2>2 DEF PileOK
  <2>4. Top(j) \in Nat /\ StickyRows(pile[j]) \in Nat /\ Bottom(j) \in Int
    <3>1. Top(j) \in Nat
      BY <2>2, PileIsLaidOut DEF Layout
    <3>2. /\ StickyRows(pile[j]) \in Nat /\ pile[j].out \in Nat
          /\ Bottom(j) = Top(j) + StickyRows(pile[j]) + pile[j].out
      BY <2>2, HeaderFits
    <3>3. QED BY <3>1, <3>2
  <2>5. ~(j > i)
    <3>1. j > i => Top(j) >= Bottom(i) + 1
      BY <2>2, PileIsLaidOut DEF Layout
    <3>2. Bottom(i) \in Int
      BY <1>3, <1>4 DEF b
    <3>3. QED BY <3>1, <3>2, <2>2, <2>4, <1>5, <1>6
  <2>6. ~(j < i)
    <3> SUFFICES ASSUME j < i PROVE FALSE
      OBVIOUS
    <3>1. j + 1 \in DOMAIN pile /\ j < Len(pile)
      BY <2>3 DEF PileOK
    <3>2. Top(j + 1) \in Nat
      BY <3>1, PileIsLaidOut DEF Layout
    <3>3. Top(j + 1) <= Top(i)
      <4>1. CASE j + 1 = i
        BY <4>1, <1>4
      <4>2. CASE j + 1 < i
        <5>1. Top(i) >= Bottom(j + 1) + 1
          BY <4>2, <3>1, PileIsLaidOut DEF Layout
        <5>2. Bottom(j + 1) \in Int /\ Bottom(j + 1) >= Top(j + 1)
          BY <3>1, <3>2, HeaderFits
        <5>3. QED BY <5>1, <5>2, <3>2, <1>4
      <4>3. QED BY <4>1, <4>2, <2>3
    <3>4. Top(i) <= at
      <4>1. kind = "output" => at = Top(i) + b.chip + b.cmd + row
        BY DEF at
      <4>2. QED BY <4>1, <1>3, <1>4, <1>5
    <3>5. QED BY <3>1, <3>2, <3>3, <3>4, <2>1, <2>2, <2>4, <1>4, <1>5
  <2>7. j = i /\ StickyRows(pile[j]) = h
    BY <2>3, <2>5, <2>6 DEF h, b
  <2>8. /\ p.top \in Int /\ p.top <= y /\ p.end = p.top + h /\ at < p.end
        /\ h \in Nat /\ at \in Nat /\ y \in Nat /\ y <= at
    <3>1. p.top \in Int /\ p.end = p.top + h /\ p.top <= y
      BY <2>2, <2>7
    <3>2. h \in Nat /\ at \in Nat /\ y \in Nat /\ y <= at
      BY <1>3, <1>5, <1>6
    <3>3. QED BY <3>1, <3>2, <2>1
  <2>9. kind = "command"
    <3>1. kind = "output" => y + h <= at
      BY <1>6
    <3>2. QED BY <2>8, <3>1
  <2> DEFINE n == b.chip + row
  <2>10. at = Top(i) + n /\ n \in Nat /\ n < h
    BY <2>9, <1>3, <1>4, <1>5
  <2>11. p.top + n \in y..(y + ViewRows - 1)
    <3>1. CASE p.top = y
      BY <3>1, <2>10, <1>3, <1>4, <1>6
    <3>2. CASE p.top = Top(i + 1) - h /\ i < Len(pile)
      <4>1. i + 1 \in DOMAIN pile
        BY <3>2, <2>3 DEF PileOK
      <4>2. Top(i + 1) >= Bottom(i) + 1 /\ Top(i + 1) \in Nat
        BY <4>1, <2>3, PileIsLaidOut DEF Layout
      <4>3. Bottom(i) = Top(i) + h + b.out
        BY <1>3
      <4>4. p.top + n >= at
        <5>1. b.out \in Nat /\ h \in Nat /\ n \in Nat /\ Top(i) \in Nat /\ at = Top(i) + n
          BY <1>3, <1>4, <2>10
        <5> HIDE DEF n
        <5>2. QED BY <5>1, <4>2, <4>3, <3>2
      <4>5. n \in Nat /\ n < h /\ 2 * h <= ViewRows /\ ViewRows \in Nat
        BY <2>10, <1>3, <1>4
      <4> HIDE DEF n
      <4>6. QED BY <4>4, <4>5, <2>8
    <3>3. i < Len(pile) \/ i = Len(pile)
      BY <2>3
    <3>4. QED BY <3>1, <3>2, <3>3, <2>2, <2>7
  <2>12. n \in 0..(p.end - p.top - 1)
    <3> HIDE DEF n
    <3>1. p.end - p.top = h
      BY <2>8
    <3>2. QED BY <3>1, <2>8, <2>10
  <2>13. Top(p.block) + n \in Copied(y)
    BY <2>11, <2>12 DEF Copied
  <2>14. QED BY <2>7, <2>10, <2>13, <1>1, <1>4, <1>6 DEF j
<1>10. QED BY <1>8, <1>9

\* What is painted depends on the blocks, the command that runs and the editor.
LEMMA LayoutStays ==
  ASSUME PileOK, UNCHANGED <<pile, live, edit>>
  PROVE  /\ PileOK' /\ ViewRows' = ViewRows /\ Spacer' = Spacer
         /\ \A i \in DOMAIN pile : Top(i)' = Top(i) /\ Bottom(i)' = Bottom(i)
         /\ Height' = Height /\ End' = End
<1>1. PileOK'
  BY DEF PileOK
<1>2. ViewRows' = ViewRows /\ Heights' = Heights /\ Estimates' = Estimates
  BY DEF ViewRows, Heights, Estimates, Estimated
<1>3. Len(pile) \in Nat /\ DOMAIN pile = 1..Len(pile)
  BY DEF PileOK
<1>4. Estimate' = Estimate
  <2>1. PICK h : Column(h, 0, Estimates, Len(pile)) /\ Estimate = h[Len(pile)]
    BY EstimateIs
  <2>2. (\E f : Column(f, 0, Estimates, Len(pile)) /\ Estimate = f[Len(pile)])'
    BY <1>1, EstimateIs, PTL
  <2>3. PICK g : Column(g, 0, Estimates, Len(pile)) /\ Estimate' = g[Len(pile)]
    BY <2>2, <1>2 DEF Column
  <2>4. \A j \in 0..Len(pile) : h[j] = g[j]
    BY <2>1, <2>3, <1>3, ColumnUnique
  <2>5. QED BY <2>1, <2>3, <2>4, <1>3
<1>5. Spacer' = Spacer
  BY <1>2, <1>4 DEF Spacer
<1>6. \A i \in DOMAIN pile : Top(i)' = Top(i)
  <2>1. PICK h : /\ Column(h, Spacer, Heights, Len(pile))
                 /\ \A i \in DOMAIN pile : Top(i) = h[i - 1]
    BY TopIs
  <2>2. (\E f : /\ Column(f, Spacer, Heights, Len(pile))
                /\ \A i \in DOMAIN pile : Top(i) = f[i - 1])'
    BY <1>1, TopIs, PTL
  <2>3. PICK g : /\ Column(g, Spacer, Heights, Len(pile))
                 /\ \A i \in DOMAIN pile : Top(i)' = g[i - 1]
    BY <2>2, <1>2, <1>5 DEF Column
  <2>4. \A j \in 0..Len(pile) : h[j] = g[j]
    BY <2>1, <2>3, <1>3, ColumnUnique
  <2>5. \A i \in DOMAIN pile : i - 1 \in 0..Len(pile)
    BY <1>3
  <2>6. QED BY <2>1, <2>3, <2>4, <2>5
<1>7. \A i \in DOMAIN pile : Bottom(i)' = Bottom(i)
  BY <1>6 DEF Bottom
<1>8. Height' = Height
  <2>1. pile # <<>> => Len(pile) \in DOMAIN pile
    BY <1>3 DEF PileOK
  <2>2. pile # <<>> => Bottom(Len(pile))' = Bottom(Len(pile))
    BY <2>1, <1>7
  <2>3. QED BY <2>2, <1>5 DEF Height
<1>9. End' = End
  BY <1>2, <1>8 DEF End
<1>10. QED BY <1>1, <1>2, <1>5, <1>6, <1>7, <1>8, <1>9

LEMMA PaintStays ==
  ASSUME PileOK, UNCHANGED <<pile, live, edit>>, NEW x
  PROVE  /\ Pinned(x)' = Pinned(x) /\ Uncovered(x)' = Uncovered(x) /\ Copied(x)' = Copied(x)
<1>1. /\ ViewRows' = ViewRows /\ Height' = Height
      /\ \A i \in DOMAIN pile : Top(i)' = Top(i) /\ Bottom(i)' = Bottom(i)
  BY LayoutStays
<1>2. \A i \in DOMAIN pile : i < Len(pile) => i + 1 \in DOMAIN pile
  BY DEF PileOK
<1>3. ASSUME NEW i \in DOMAIN pile
      PROVE  (IF i < Len(pile) THEN AtMost(x, Top(i + 1) - StickyRows(pile[i])) ELSE x)'
             = IF i < Len(pile) THEN AtMost(x, Top(i + 1) - StickyRows(pile[i])) ELSE x
  <2>1. i < Len(pile) => Top(i + 1)' = Top(i + 1)
    BY <1>1, <1>2
  <2>2. QED BY <2>1
<1>4. Pinned(x)' = Pinned(x)
  BY <1>1, <1>3 DEF Pinned
<1>5. Uncovered(x)' = Uncovered(x)
  BY <1>1, <1>4 DEF Uncovered
<1>6. Copied(x)' = Copied(x)
  <2>1. \A p \in Pinned(x) : p.block \in DOMAIN pile
    BY DEF Pinned
  <2>2. QED BY <2>1, <1>1, <1>4 DEF Copied
<1>7. QED BY <1>4, <1>5, <1>6

-----------------------------------------------------------------------------

ViewInv == PileOK /\ scroll \in 0..End /\ FoundRowIsVisible /\ NoRowSkipped

\* A step after which nothing is to be seen of it
LEMMA ViewMoves ==
  ASSUME PileOK', scroll' \in 0..End', Shows
  PROVE  ViewInv'
BY DEF ViewInv, Shows, Unseen, FoundRowIsVisible, NoRowSkipped

\* The scroll area stays in its bounds.
LEMMA StickingStays ==
  ASSUME ViewInv, PileOK', Sticks
  PROVE  scroll' \in 0..End'
<1>1. End' \in Nat
  <2>1. Layout'
    BY PileIsLaidOut, PTL
  <2>2. QED BY <2>1 DEF Layout
<1>2. scroll \in Nat
  BY DEF ViewInv
<1>3. QED BY <1>1, <1>2 DEF Sticks, AtMost

LEMMA BlockStartsKeeps == ASSUME ViewInv, BlockStarts PROVE ViewInv'
<1>1. PICK lines \in CommandRows : pile' = Append(pile, [chip |-> 1, cmd |-> lines, out |-> 0])
  BY DEF BlockStarts
<1>2. [chip |-> 1, cmd |-> lines, out |-> 0] \in Piled
  BY ViewAssumption DEF Piled
<1>3. PileOK'
  BY <1>1, <1>2, ViewAssumption DEF ViewInv, PileOK, BlockStarts
<1>4. End' \in Nat
  <2>1. Layout'
    BY <1>3, PileIsLaidOut, PTL
  <2>2. QED BY <2>1 DEF Layout
<1>5. scroll' \in 0..End' /\ Shows
  BY <1>4 DEF BlockStarts
<1>6. QED BY <1>3, <1>5, ViewMoves

LEMMA OutputKeeps == ASSUME ViewInv, Output PROVE ViewInv'
<1>1. PileOK'
  <2>1. pile \in Seq(Piled) /\ Len(pile) \in Nat
    BY DEF ViewInv, PileOK
  <2>2. CASE live /\ pile' = [pile EXCEPT ![Len(pile)].out = @ + 1]
    <3>1. Len(pile) \in 1..Len(pile) /\ pile[Len(pile)] \in Piled
      BY <2>1, <2>2 DEF ViewInv, PileOK
    <3>2. [pile[Len(pile)] EXCEPT !.out = @ + 1] \in Piled
      BY <3>1 DEF Piled
    <3>3. pile' \in Seq(Piled) /\ Len(pile') = Len(pile)
      BY <2>1, <2>2, <3>1, <3>2
    <3>4. QED BY <3>3 DEF ViewInv, PileOK, Output
  <2>3. CASE ~live /\ pile' = Append(pile, [chip |-> 0, cmd |-> 0, out |-> OutputRows])
    <3>1. [chip |-> 0, cmd |-> 0, out |-> OutputRows] \in Piled
      BY ViewAssumption DEF Piled
    <3>2. pile' \in Seq(Piled)
      BY <2>1, <2>3, <3>1
    <3>3. QED BY <2>3, <3>2 DEF ViewInv, PileOK, Output
  <2>4. QED BY <2>2, <2>3 DEF Output
<1>2. Sticks /\ Shows
  BY DEF Output
<1>3. QED BY <1>1, <1>2, StickingStays, ViewMoves

LEMMA SealedKeeps == ASSUME ViewInv, Sealed \/ EditLine PROVE ViewInv'
<1>1. PileOK /\ pile' = pile
  BY DEF ViewInv, Sealed, EditLine
<1>2. PileOK'
  <2>1. CASE Sealed
    BY <2>1, <1>1 DEF PileOK, Sealed
  <2>2. CASE EditLine
    <3>1. live' = live /\ edit' \in 1..MaxEditRows
      BY <2>2 DEF EditLine
    <3>2. QED BY <3>1, <1>1 DEF PileOK
  <2>3. QED BY <2>1, <2>2
<1>3. Sticks /\ Shows
  BY DEF Sealed, EditLine
<1>4. QED BY <1>2, <1>3, StickingStays, ViewMoves

LEMMA ScrolledKeeps == ASSUME ViewInv, Scrolled \/ FindOpens \/ FindCloses PROVE ViewInv'
<1>1. UNCHANGED <<pile, live, edit>> /\ Shows /\ scroll' \in 0..End
  BY DEF ViewInv, Scrolled, FindOpens, FindCloses
<1>2. PileOK' /\ End' = End
  BY <1>1, LayoutStays DEF ViewInv
<1>3. QED BY <1>1, <1>2, ViewMoves

\* A page ends in bounds and skips no row.
LEMMA PageKeyKeeps == ASSUME RoomForHeaders, ViewInv, PageKey PROVE ViewInv'
<1>1. UNCHANGED <<pile, live, edit>> /\ PileOK /\ scroll \in 0..End
  BY DEF ViewInv, PageKey
<1>2. PileOK' /\ End' = End /\ \A i \in DOMAIN pile : Top(i)' = Top(i) /\ Bottom(i)' = Bottom(i)
  BY <1>1, LayoutStays
<1>3. End \in Nat /\ Height \in Nat /\ \A i \in DOMAIN pile : Bottom(i) <= Height /\ Top(i) \in Nat
  BY <1>1, PileIsLaidOut DEF Layout
<1>4. Page \in Nat
  BY <1>1, HeightsAreNumbers DEF Page, NotBelow
<1>5. PICK to \in {scroll - Page, scroll + Page} : scroll' = AtMost(NotBelow(to, 0), End)
  BY DEF PageKey
<1>6. PICK y \in 0..End : y = scroll'
  BY <1>1, <1>3, <1>4, <1>5 DEF AtMost, NotBelow
<1>7. (scroll <= y /\ y <= scroll + Page) \/ (y <= scroll /\ scroll <= y + Page)
  BY <1>1, <1>3, <1>4, <1>5, <1>6 DEF AtMost, NotBelow
<1>8. seen' = [how |-> "page", rows |-> Uncovered(scroll), row |-> 0]
  BY DEF PageKey
<1>9. Uncovered(scroll)' = Uncovered(y)
  <2>1. Uncovered(y)' = Uncovered(y)
    BY <1>1, PaintStays
  <2>2. Uncovered(scroll)' = Uncovered(y)'
    BY <1>6 DEF Uncovered, Pinned
  <2>3. QED BY <2>1, <2>2
<1>10. NoRowSkipped'
  <2>1. ASSUME NEW a \in Uncovered(scroll), NEW b \in Uncovered(y),
               NEW r \in (a + 1)..(b - 1) \cup (b + 1)..(a - 1),
               NEW i \in DOMAIN pile, Top(i) <= r, r < Bottom(i)
        PROVE  r \in Uncovered(scroll) \cup Uncovered(y)
    <3>1. a \in Int /\ b \in Int /\ scroll \in Nat /\ y \in Nat
      BY <1>1, <1>3, <1>6, HeightsAreNumbers DEF Uncovered
    <3>2. r \in Int /\ ((a < r /\ r < b) \/ (b < r /\ r < a))
      BY <3>1
    <3>3. Bottom(i) \in Int
      BY <1>1, <1>3, HeaderFits
    <3>4. r < Height
      BY <3>2, <3>3, <2>1, <1>3
    <3>5. CASE scroll <= y /\ y <= scroll + Page
      BY <3>1, <3>2, <3>4, <3>5, <1>1, PagesOverlap
    <3>6. CASE y <= scroll /\ scroll <= y + Page
      <4>1. r \in Uncovered(y) \cup Uncovered(scroll)
        BY <3>1, <3>2, <3>4, <3>6, <1>1, PagesOverlap
      <4>2. QED BY <4>1
    <3>7. QED BY <3>5, <3>6, <1>7
  <2>2. seen'.rows = Uncovered(scroll) /\ DOMAIN pile' = DOMAIN pile
    BY <1>1, <1>8
  <2>3. QED BY <2>1, <2>2, <1>2, <1>9 DEF NoRowSkipped
<1>11. FoundRowIsVisible'
  BY <1>8 DEF FoundRowIsVisible
<1>12. scroll' \in 0..End'
  BY <1>2, <1>6
<1>13. QED BY <1>2, <1>10, <1>11, <1>12 DEF ViewInv

\* A match that find goes to can be read.
LEMMA GoToMatchKeeps == ASSUME RoomForHeaders, ViewInv, GoToMatch PROVE ViewInv'
<1>1. UNCHANGED <<pile, live, edit>> /\ PileOK /\ scroll \in 0..End /\ ViewRows > 0
  BY DEF ViewInv, GoToMatch
<1>2. PileOK' /\ End' = End
  BY <1>1, LayoutStays
<1>3. PICK i \in DOMAIN pile, kind \in {"command", "output"} :
        \E row \in 0..((IF kind = "command" THEN pile[i].cmd ELSE pile[i].out) - 1) :
          LET to == Revealed(i, kind, row)
          IN  /\ scroll' = AtMost(End, IF to.top < scroll THEN to.top
                                       ELSE IF to.row >= scroll + ViewRows
                                         THEN to.row - ViewRows + 1
                                       ELSE scroll)
              /\ seen' = [how |-> "find", rows |-> {}, row |-> to.row]
  BY DEF GoToMatch
<1>4. PICK row \in 0..((IF kind = "command" THEN pile[i].cmd ELSE pile[i].out) - 1) :
        LET to == Revealed(i, kind, row)
        IN  /\ scroll' = AtMost(End, IF to.top < scroll THEN to.top
                                     ELSE IF to.row >= scroll + ViewRows
                                       THEN to.row - ViewRows + 1
                                     ELSE scroll)
            /\ seen' = [how |-> "find", rows |-> {}, row |-> to.row]
  BY <1>3
<1>5. /\ scroll' \in 0..End
      /\ Revealed(i, kind, row).row \in Uncovered(scroll') \cup Copied(scroll')
  BY <1>1, <1>4, MatchIsInView
<1>6. PICK y \in 0..End : y = scroll'
  BY <1>5
<1>7. Uncovered(scroll)' = Uncovered(y) /\ Copied(scroll)' = Copied(y)
  <2>1. Uncovered(y)' = Uncovered(y) /\ Copied(y)' = Copied(y)
    BY <1>1, PaintStays
  <2>2. Uncovered(scroll)' = Uncovered(y)' /\ Copied(scroll)' = Copied(y)'
    BY <1>6 DEF Uncovered, Pinned, Copied
  <2>3. QED BY <2>1, <2>2
<1>8. seen'.how = "find" /\ seen'.row = Revealed(i, kind, row).row
  BY <1>4
<1>9. FoundRowIsVisible'
  BY <1>5, <1>6, <1>7, <1>8 DEF FoundRowIsVisible
<1>10. NoRowSkipped'
  BY <1>8 DEF NoRowSkipped
<1>11. QED BY <1>2, <1>5, <1>9, <1>10 DEF ViewInv

\* Where nothing moves, nothing is covered.
LEMMA ViewRests == ASSUME ViewInv, UNCHANGED viewVars PROVE ViewInv'
<1>1. UNCHANGED <<pile, live, edit>> /\ PileOK /\ scroll' = scroll /\ seen' = seen
  BY DEF ViewInv, viewVars
<1>2. PileOK' /\ End' = End /\ \A i \in DOMAIN pile : Top(i)' = Top(i) /\ Bottom(i)' = Bottom(i)
  BY <1>1, LayoutStays
<1>3. PICK y : y = scroll
  OBVIOUS
<1>4. Uncovered(scroll)' = Uncovered(scroll) /\ Copied(scroll)' = Copied(scroll)
  <2>1. Uncovered(y)' = Uncovered(y) /\ Copied(y)' = Copied(y)
    BY <1>1, PaintStays
  <2>2. Uncovered(scroll)' = Uncovered(y)' /\ Copied(scroll)' = Copied(y)'
    BY <1>1, <1>3 DEF Uncovered, Pinned, Copied
  <2>3. QED BY <2>1, <2>2, <1>3
<1>5. FoundRowIsVisible'
  BY <1>1, <1>4 DEF ViewInv, FoundRowIsVisible
<1>6. NoRowSkipped'
  <2>1. DOMAIN pile' = DOMAIN pile
    BY <1>1
  <2>2. QED BY <1>1, <1>2, <1>4, <2>1 DEF ViewInv, NoRowSkipped
<1>7. QED BY <1>1, <1>2, <1>5, <1>6 DEF ViewInv

\* For every pane, stack of commands and editor, if each command's header fits
\* the margin of a page and half the view: a pinned header never covers the next
\* block, a match that find goes to can be read, and paging skips no row
\* (compute_sticky_header, render_pane).
THEOREM RowsComeIntoView ==
  ASSUME RoomForHeaders
  PROVE  ViewSpec => []NoRowStaysCovered
<1>1. ViewInit => ViewInv
  <2> SUFFICES ASSUME ViewInit PROVE ViewInv
    OBVIOUS
  <2>1. PileOK
    <3>1. MaxEditRows \in Nat \ {0}
      BY ViewAssumption
    <3>2. 1 \in 1..MaxEditRows /\ <<>> \in Seq(Piled)
      BY <3>1
    <3>3. QED BY <3>2 DEF ViewInit, PileOK
  <2>2. End \in Nat
    BY <2>1, PileIsLaidOut DEF Layout
  <2>3. QED BY <2>1, <2>2 DEF ViewInit, ViewInv, Unseen, FoundRowIsVisible, NoRowSkipped
<1>2. ViewInv /\ [ViewNext]_viewVars => ViewInv'
  <2> SUFFICES ASSUME ViewInv, [ViewNext]_viewVars PROVE ViewInv'
    OBVIOUS
  <2>1. CASE BlockStarts
    BY <2>1, BlockStartsKeeps
  <2>2. CASE Output
    BY <2>2, OutputKeeps
  <2>3. CASE Sealed \/ EditLine
    BY <2>3, SealedKeeps
  <2>4. CASE Scrolled \/ FindOpens \/ FindCloses
    BY <2>4, ScrolledKeeps
  <2>5. CASE PageKey
    BY <2>5, PageKeyKeeps
  <2>6. CASE GoToMatch
    BY <2>6, GoToMatchKeeps
  <2>7. CASE UNCHANGED viewVars
    BY <2>7, ViewRests
  <2>8. QED BY <2>1, <2>2, <2>3, <2>4, <2>5, <2>6, <2>7 DEF ViewNext
<1>3. ViewInv => NoRowStaysCovered
  <2> SUFFICES ASSUME ViewInv PROVE PinnedClearsTheNext
    BY DEF ViewInv, NoRowStaysCovered
  <2>1. scroll \in Nat /\ PileOK
    BY DEF ViewInv
  <2>2. QED BY <2>1, PinnedIs DEF PinnedClearsTheNext
<1>4. QED BY <1>1, <1>2, <1>3, PTL DEF ViewSpec
-----------------------------------------------------------------------------
(***************************************************************************)
(* Find                                                                    *)
(***************************************************************************)

\* FlattenSeq joins the sequences one by one.
JoinsUp(g, ss, S) ==
  /\ g[0] = <<>> /\ FlattenSeq(ss) = g[Len(ss)]
  /\ \A i \in 0..Len(ss) : g[i] \in Seq(S)
  /\ \A i \in 1..Len(ss) : g[i] = g[i - 1] \o ss[i]

LEMMA JoinsUpExists ==
  ASSUME NEW S, NEW ss \in Seq(Seq(S)), Len(ss) # 0
  PROVE  \E f : f = [i \in 1..Len(ss) |-> IF i = 1 THEN ss[i] ELSE f[i - 1] \o ss[i]]
<1> DEFINE Fits(f, m) == f = [i \in 1..m |-> IF i = 1 THEN ss[i] ELSE f[i - 1] \o ss[i]]
           T == {m \in Nat : \E f : Fits(f, m)}
<1>1. 0 \in T
  <2>1. Fits([i \in 1..0 |-> <<>>], 0)
    OBVIOUS
  <2>2. QED BY <2>1
<1>2. ASSUME NEW m \in T PROVE m + 1 \in T
  <2>1. PICK f : Fits(f, m)
    OBVIOUS
  <2> DEFINE g == [i \in 1..(m + 1) |->
                     IF i = m + 1 THEN IF i = 1 THEN ss[i] ELSE f[m] \o ss[m + 1] ELSE f[i]]
  <2>2. \A i \in 1..m : g[i] = f[i]
    OBVIOUS
  <2>3. ASSUME NEW i \in 1..(m + 1)
        PROVE  g[i] = IF i = 1 THEN ss[i] ELSE g[i - 1] \o ss[i]
    <3>1. CASE i = m + 1 /\ i = 1
      BY <3>1
    <3>2. CASE i = m + 1 /\ i # 1
      <4>1. i - 1 = m /\ m \in 1..m
        BY <3>2
      <4>2. g[i - 1] = f[m] /\ g[i] = f[m] \o ss[i]
        BY <3>2, <4>1, <2>2
      <4>3. QED BY <3>2, <4>2
    <3>3. CASE i \in 1..m
      <4>1. g[i] = f[i] /\ (i # 1 => i - 1 \in 1..m /\ g[i - 1] = f[i - 1])
        BY <3>3, <2>2
      <4>2. f[i] = IF i = 1 THEN ss[i] ELSE f[i - 1] \o ss[i]
        BY <3>3, <2>1
      <4>3. QED BY <4>1, <4>2
    <3>4. QED BY <3>1, <3>2, <3>3
  <2>4. Fits(g, m + 1)
    BY <2>3
  <2>5. \E h : Fits(h, m + 1)
    <3> HIDE DEF g, Fits
    <3>1. QED BY <2>4
  <2>6. m + 1 \in Nat
    OBVIOUS
  <2>7. QED BY <2>5, <2>6
<1>3. Len(ss) \in T
  <2>1. T = Nat
    <3> HIDE DEF T
    <3>1. T \in SUBSET Nat
      BY DEF T
    <3>2. QED BY <1>1, <1>2, <3>1, Induction
  <2>2. Len(ss) \in Nat
    OBVIOUS
  <2> HIDE DEF T
  <2>3. QED BY <2>1, <2>2
<1>4. QED BY <1>3

LEMMA FlattenJoins ==
  ASSUME NEW S, NEW ss \in Seq(Seq(S))
  PROVE  \E g : JoinsUp(g, ss, S)
<1>1. CASE Len(ss) = 0
  <2> DEFINE g == [i \in 0..0 |-> <<>>]
  <2>1. ss = <<>> /\ FlattenSeq(ss) = ss
    BY <1>1 DEF FlattenSeq
  <2>2. g[0] = <<>> /\ <<>> \in Seq(S)
    OBVIOUS
  <2> HIDE DEF g
  <2>3. FlattenSeq(ss) = g[Len(ss)]
    BY <1>1, <2>1, <2>2
  <2>4. \A i \in 0..Len(ss) : g[i] \in Seq(S)
    <3>1. \A i \in 0..Len(ss) : i = 0
      BY <1>1
    <3>2. QED BY <2>2, <3>1
  <2>5. \A i \in 1..Len(ss) : g[i] = g[i - 1] \o ss[i]
    BY <1>1
  <2>6. JoinsUp(g, ss, S)
    BY <2>2, <2>3, <2>4, <2>5 DEF JoinsUp
  <2>7. QED BY <2>6
<1>2. CASE Len(ss) # 0
  <2> DEFINE flatten[i \in 1..Len(ss)] == IF i = 1 THEN ss[i] ELSE flatten[i - 1] \o ss[i]
  <2>1. \E f : f = [i \in 1..Len(ss) |-> IF i = 1 THEN ss[i] ELSE f[i - 1] \o ss[i]]
    BY <1>2, JoinsUpExists
  <2>2. flatten = [i \in 1..Len(ss) |-> IF i = 1 THEN ss[i] ELSE flatten[i - 1] \o ss[i]]
    BY <2>1
  <2>3. FlattenSeq(ss) = flatten[Len(ss)]
    BY <1>2 DEF FlattenSeq
  <2>4. PICK f : /\ f = [i \in 1..Len(ss) |-> IF i = 1 THEN ss[i] ELSE f[i - 1] \o ss[i]]
                 /\ FlattenSeq(ss) = f[Len(ss)]
    <3> HIDE DEF flatten
    <3>1. QED BY <2>2, <2>3
  <2> HIDE DEF flatten
  <2>5. \A i \in 1..Len(ss) : ss[i] \in Seq(S)
    OBVIOUS
  <2>6. \A i \in 1..Len(ss) : f[i] = IF i = 1 THEN ss[i] ELSE f[i - 1] \o ss[i]
    BY <2>4
  <2> DEFINE g == [i \in 0..Len(ss) |-> IF i = 0 THEN <<>> ELSE f[i]]
  <2>7. g[0] = <<>> /\ \A i \in 1..Len(ss) : g[i] = f[i]
    OBVIOUS
  <2>8. FlattenSeq(ss) = g[Len(ss)]
    BY <1>2, <2>4
  <2> HIDE DEF g
  <2>9. \A i \in 1..Len(ss) : g[i] = g[i - 1] \o ss[i]
    <3> TAKE i \in 1..Len(ss)
    <3>1. CASE i = 1
      <4>1. g[i - 1] = <<>> /\ g[i] = ss[i] /\ ss[i] \in Seq(S)
        BY <3>1, <2>5, <2>6, <2>7
      <4>2. QED BY <4>1
    <3>2. CASE i # 1
      <4>1. i - 1 \in 1..Len(ss)
        BY <3>2
      <4>2. QED BY <3>2, <4>1, <2>6, <2>7
    <3>3. QED BY <3>1, <3>2
  <2> DEFINE T == {m \in Nat : m <= Len(ss) => g[m] \in Seq(S)}
  <2>10. 0 \in T
    <3>1. <<>> \in Seq(S)
      OBVIOUS
    <3>2. QED BY <3>1, <2>7
  <2>11. ASSUME NEW m \in T PROVE m + 1 \in T
    <3>1. CASE m + 1 <= Len(ss)
      <4>1. m + 1 \in 1..Len(ss) /\ (m + 1) - 1 = m /\ g[m] \in Seq(S)
        BY <3>1
      <4>2. g[m + 1] = g[m] \o ss[m + 1] /\ ss[m + 1] \in Seq(S)
        BY <4>1, <2>5, <2>9
      <4>3. g[m + 1] \in Seq(S)
        BY <4>1, <4>2
      <4>4. QED BY <4>3
    <3>2. CASE m + 1 > Len(ss)
      BY <3>2
    <3>3. QED BY <3>1, <3>2
  <2>12. T = Nat
    <3> HIDE DEF T
    <3>1. T \in SUBSET Nat
      BY DEF T
    <3>2. QED BY <2>10, <2>11, <3>1, Induction
  <2>13. ASSUME NEW i \in 0..Len(ss) PROVE g[i] \in Seq(S)
    <3> HIDE DEF T
    <3>1. i \in Nat /\ i <= Len(ss) /\ i \in T
      BY <2>12
    <3>2. QED BY <3>1 DEF T
  <2>14. JoinsUp(g, ss, S)
    BY <2>7, <2>8, <2>9, <2>13 DEF JoinsUp
  <2>15. QED BY <2>14
<1>3. QED BY <1>1, <1>2

LEMMA JoinsNext ==
  ASSUME NEW S, NEW ss \in Seq(Seq(S)), NEW g, JoinsUp(g, ss, S),
         NEW m \in Nat, m + 1 <= Len(ss)
  PROVE  /\ m + 1 \in 1..Len(ss) /\ g[m + 1] = g[m] \o ss[m + 1]
         /\ g[m] \in Seq(S) /\ ss[m + 1] \in Seq(S)
<1>1. m + 1 \in 1..Len(ss) /\ m \in 0..Len(ss) /\ (m + 1) - 1 = m
  OBVIOUS
<1>2. g[m + 1] = g[(m + 1) - 1] \o ss[m + 1]
  BY <1>1 DEF JoinsUp
<1>3. g[m] \in Seq(S)
  BY <1>1 DEF JoinsUp
<1>4. QED BY <1>1, <1>2, <1>3

\* What is flattened is a sequence of the items.
LEMMA FlattenType ==
  ASSUME NEW S, NEW ss \in Seq(Seq(S))
  PROVE  FlattenSeq(ss) \in Seq(S)
<1>1. PICK g : JoinsUp(g, ss, S)
  BY FlattenJoins
<1>2. QED BY <1>1 DEF JoinsUp

LEMMA ElementsOfBoth ==
  ASSUME NEW S, NEW s \in Seq(S), NEW t \in Seq(S), NEW x
  PROVE  /\ s \o t \in Seq(S) /\ Len(s \o t) = Len(s) + Len(t)
         /\ \A i \in 1..Len(s) : (s \o t)[i] = s[i]
         /\ \A i \in 1..Len(t) : (s \o t)[Len(s) + i] = t[i]
         /\ x \in ToSet(s \o t) <=> x \in ToSet(s) \/ x \in ToSet(t)
<1>1. /\ s \o t \in Seq(S) /\ Len(s \o t) = Len(s) + Len(t)
      /\ \A i \in 1..Len(s) : (s \o t)[i] = s[i]
      /\ \A i \in 1..Len(t) : (s \o t)[Len(s) + i] = t[i]
  OBVIOUS
<1>2. ASSUME x \in ToSet(s \o t) PROVE x \in ToSet(s) \/ x \in ToSet(t)
  <2>1. PICK i \in 1..Len(s \o t) : x = (s \o t)[i]
    BY <1>1, <1>2 DEF ToSet
  <2>2. CASE i <= Len(s)
    BY <2>1, <2>2, <1>1 DEF ToSet
  <2>3. CASE i > Len(s)
    <3>1. i - Len(s) \in 1..Len(t) /\ Len(s) + (i - Len(s)) = i
      BY <2>3, <1>1
    <3>2. QED BY <2>1, <3>1, <1>1 DEF ToSet
  <2>4. QED BY <2>2, <2>3
<1>3. ASSUME x \in ToSet(s) PROVE x \in ToSet(s \o t)
  <2>1. PICK i \in 1..Len(s) : x = s[i]
    BY <1>3 DEF ToSet
  <2>2. i \in 1..Len(s \o t) /\ x = (s \o t)[i]
    BY <2>1, <1>1
  <2>3. QED BY <2>2, <1>1 DEF ToSet
<1>4. ASSUME x \in ToSet(t) PROVE x \in ToSet(s \o t)
  <2>1. PICK i \in 1..Len(t) : x = t[i]
    BY <1>4 DEF ToSet
  <2>2. Len(s) + i \in 1..Len(s \o t) /\ x = (s \o t)[Len(s) + i]
    BY <2>1, <1>1
  <2>3. DOMAIN (s \o t) = 1..Len(s \o t)
    BY <1>1
  <2>4. x \in {(s \o t)[k] : k \in DOMAIN (s \o t)}
    BY <2>2, <2>3
  <2>5. QED BY <2>4 DEF ToSet
<1>5. QED BY <1>1, <1>2, <1>3, <1>4

\* It has their items and no others.
LEMMA FlattenElements ==
  ASSUME NEW S, NEW ss \in Seq(Seq(S)), NEW x
  PROVE  x \in ToSet(FlattenSeq(ss)) <=> \E n \in 1..Len(ss) : x \in ToSet(ss[n])
<1>1. PICK g : JoinsUp(g, ss, S)
  BY FlattenJoins
<1> DEFINE T == {m \in Nat : m <= Len(ss) =>
                   (x \in ToSet(g[m]) <=> \E n \in 1..m : x \in ToSet(ss[n]))}
<1>2. 0 \in T
  BY <1>1 DEF JoinsUp, ToSet
<1>3. ASSUME NEW m \in T PROVE m + 1 \in T
  <2>1. CASE m + 1 <= Len(ss)
    <3>1. m + 1 \in 1..Len(ss) /\ (m + 1) - 1 = m /\ m \in 0..Len(ss)
      BY <2>1
    <3>2. g[m + 1] = g[m] \o ss[m + 1] /\ g[m] \in Seq(S) /\ ss[m + 1] \in Seq(S)
      BY <1>1, <2>1, JoinsNext
    <3>3. x \in ToSet(g[m + 1]) <=> x \in ToSet(g[m]) \/ x \in ToSet(ss[m + 1])
      BY <3>2, ElementsOfBoth
    <3>4. x \in ToSet(g[m]) <=> \E n \in 1..m : x \in ToSet(ss[n])
      BY <3>1
    <3>5. \A n : n \in 1..(m + 1) <=> n \in 1..m \/ n = m + 1
      OBVIOUS
    <3>6. QED BY <3>3, <3>4, <3>5
  <2>2. CASE m + 1 > Len(ss)
    BY <2>2
  <2>3. QED BY <2>1, <2>2
<1>4. T = Nat
  <2> HIDE DEF T
  <2>1. T \in SUBSET Nat
    BY DEF T
  <2>2. QED BY <1>2, <1>3, <2>1, Induction
<1>5. Len(ss) \in T
  BY <1>4
<1>6. QED BY <1>5, <1>1 DEF JoinsUp

\* Items that follow each other in every sequence, and from one to the next, do so
\* in the whole.
LEMMA FlattenOrdered ==
  ASSUME NEW S, NEW ss \in Seq(Seq(S)), NEW R,
         \A n \in 1..Len(ss) : \A i, j \in 1..Len(ss[n]) : i < j => <<ss[n][i], ss[n][j]>> \in R,
         \A n, m \in 1..Len(ss) : n < m =>
           \A x \in ToSet(ss[n]), y \in ToSet(ss[m]) : <<x, y>> \in R
  PROVE  LET whole == FlattenSeq(ss)
         IN  \A i, j \in 1..Len(whole) : i < j => <<whole[i], whole[j]>> \in R
<1>1. PICK g : JoinsUp(g, ss, S)
  BY FlattenJoins
<1> DEFINE From(m) == \A x \in ToSet(g[m]) : \E n \in 1..m : x \in ToSet(ss[n])
           InOrder(m) == \A i, j \in 1..Len(g[m]) : i < j => <<g[m][i], g[m][j]>> \in R
           T == {m \in Nat : m <= Len(ss) => From(m) /\ InOrder(m)}
<1>2. 0 \in T
  BY <1>1 DEF JoinsUp, ToSet
<1>3. ASSUME NEW m \in T PROVE m + 1 \in T
  <2>1. CASE m + 1 <= Len(ss)
    <3>1. m + 1 \in 1..Len(ss) /\ (m + 1) - 1 = m /\ m \in 0..Len(ss) /\ 1..m \subseteq 1..Len(ss)
      BY <2>1
    <3> DEFINE s == g[m]
               t == ss[m + 1]
    <3>2. g[m + 1] = s \o t /\ s \in Seq(S) /\ t \in Seq(S)
      BY <1>1, <2>1, JoinsNext
    <3>3. From(m) /\ InOrder(m)
      BY <3>1
    <3>4. From(m + 1)
      <4> SUFFICES ASSUME NEW x \in ToSet(g[m + 1]) PROVE \E n \in 1..(m + 1) : x \in ToSet(ss[n])
        OBVIOUS
      <4>1. x \in ToSet(s) \/ x \in ToSet(t)
        BY <3>2, ElementsOfBoth
      <4>2. m + 1 \in 1..(m + 1) /\ 1..m \subseteq 1..(m + 1)
        OBVIOUS
      <4>3. QED BY <4>1, <4>2, <3>3
    <3>5. ASSUME NEW i \in 1..Len(g[m + 1]), NEW j \in 1..Len(g[m + 1]), i < j
          PROVE  <<g[m + 1][i], g[m + 1][j]>> \in R
      <4> HIDE DEF s, t
      <4>1. /\ Len(s) \in Nat /\ Len(t) \in Nat /\ Len(s \o t) = Len(s) + Len(t)
            /\ \A k \in 1..Len(s) : (s \o t)[k] = s[k]
            /\ \A k \in 1..Len(t) : (s \o t)[Len(s) + k] = t[k]
        BY <3>2, ElementsOfBoth
      <4>2. CASE j <= Len(s)
        <5>1. i \in 1..Len(s) /\ j \in 1..Len(s)
          BY <4>1, <4>2, <3>2, <3>5
        <5>2. <<s[i], s[j]>> \in R
          BY <5>1, <3>3, <3>5 DEF s
        <5>3. QED BY <5>1, <5>2, <4>1, <3>2
      <4>3. CASE i > Len(s)
        <5>1. /\ i - Len(s) \in 1..Len(t) /\ j - Len(s) \in 1..Len(t)
              /\ Len(s) + (i - Len(s)) = i /\ Len(s) + (j - Len(s)) = j
              /\ i - Len(s) < j - Len(s)
          BY <4>1, <4>3, <3>2, <3>5
        <5>2. <<t[i - Len(s)], t[j - Len(s)]>> \in R
          BY <5>1, <3>1 DEF t
        <5>3. (s \o t)[i] = t[i - Len(s)] /\ (s \o t)[j] = t[j - Len(s)]
          BY <5>1, <4>1
        <5>4. QED BY <5>2, <5>3, <3>2
      <4>4. CASE i <= Len(s) /\ j > Len(s)
        <5>1. i \in 1..Len(s) /\ j - Len(s) \in 1..Len(t) /\ Len(s) + (j - Len(s)) = j
          BY <4>1, <4>4, <3>2, <3>5
        <5>2. (s \o t)[i] = s[i] /\ (s \o t)[j] = t[j - Len(s)]
          BY <5>1, <4>1
        <5>3. s[i] \in ToSet(s) /\ t[j - Len(s)] \in ToSet(t)
          BY <5>1, <3>2 DEF ToSet
        <5>4. PICK n \in 1..m : s[i] \in ToSet(ss[n])
          BY <5>3, <3>3 DEF s
        <5>5. n \in 1..Len(ss) /\ n < m + 1
          BY <3>1
        <5>6. <<s[i], t[j - Len(s)]>> \in R
          BY <5>3, <5>4, <5>5, <3>1 DEF t
        <5>7. QED BY <5>2, <5>6, <3>2
      <4>5. j <= Len(s) \/ i > Len(s) \/ (i <= Len(s) /\ j > Len(s))
        <5>1. i \in Nat /\ j \in Nat
          BY <4>1, <3>2
        <5>2. QED BY <4>1, <5>1
      <4>6. QED BY <4>2, <4>3, <4>4, <4>5
    <3>6. InOrder(m + 1)
      BY <3>5
    <3> HIDE DEF From, InOrder
    <3>7. QED BY <3>4, <3>6
  <2>2. CASE m + 1 > Len(ss)
    BY <2>2
  <2>3. QED BY <2>1, <2>2
<1>4. T = Nat
  <2> HIDE DEF T
  <2>1. T \in SUBSET Nat
    BY DEF T
  <2>2. QED BY <1>2, <1>3, <2>1, Induction
<1>5. Len(ss) \in T
  <2> HIDE DEF T
  <2>1. QED BY <1>4
<1>6. InOrder(Len(ss))
  <2> HIDE DEF From, InOrder
  <2>1. QED BY <1>5
<1>7. QED BY <1>6, <1>1 DEF JoinsUp

LEMMA StillStarts ==
  ASSUME NEW S, NEW s \in Seq(S), NEW a \in Seq(S), NEW b \in Seq(S),
         Len(s) <= Len(a) /\ \A i \in 1..Len(s) : s[i] = a[i]
  PROVE  Len(s) <= Len(a \o b) /\ \A i \in 1..Len(s) : s[i] = (a \o b)[i]
<1>1. Len(s) \in Nat /\ Len(a) \in Nat /\ Len(b) \in Nat /\ Len(a \o b) = Len(a) + Len(b)
  BY ElementsOfBoth
<1>2. \A i \in 1..Len(a) : (a \o b)[i] = a[i]
  BY ElementsOfBoth
<1>3. QED BY <1>1, <1>2

\* More sequences only add at the end.
LEMMA FlattenPrefix ==
  ASSUME NEW S, NEW ss \in Seq(Seq(S)), NEW tt \in Seq(Seq(S)), Len(ss) <= Len(tt),
         \A i \in 1..Len(ss) : ss[i] = tt[i]
  PROVE  LET s == FlattenSeq(ss)
             t == FlattenSeq(tt)
         IN  Len(s) <= Len(t) /\ \A i \in 1..Len(s) : s[i] = t[i]
<1>1. PICK g : JoinsUp(g, ss, S)
  BY FlattenJoins
<1>2. PICK h : JoinsUp(h, tt, S)
  BY FlattenJoins
<1> DEFINE s == g[Len(ss)]
           Starts(m) == Len(s) <= Len(h[m]) /\ \A i \in 1..Len(s) : s[i] = h[m][i]
           T == {m \in Nat : /\ m <= Len(ss) => h[m] = g[m]
                             /\ m >= Len(ss) /\ m <= Len(tt) => Starts(m)}
<1>3. 0 \in T
  <2>1. h[0] = <<>> /\ g[0] = <<>>
    BY <1>1, <1>2 DEF JoinsUp
  <2>2. 0 >= Len(ss) => s = <<>>
    BY <2>1
  <2>3. QED BY <2>1, <2>2
<1>4. ASSUME NEW m \in T PROVE m + 1 \in T
  <2>1. CASE m + 1 <= Len(ss)
    <3>1. /\ m + 1 \in 1..Len(ss) /\ m + 1 \in 1..Len(tt) /\ (m + 1) - 1 = m
          /\ h[m] = g[m] /\ ss[m + 1] = tt[m + 1]
      BY <2>1
    <3>2. h[m + 1] = g[m + 1]
      BY <3>1, <1>1, <1>2 DEF JoinsUp
    <3>3. m + 1 >= Len(ss) => Starts(m + 1)
      <4>1. m + 1 >= Len(ss) => m + 1 = Len(ss)
        BY <2>1
      <4>2. Len(ss) \in 0..Len(ss)
        OBVIOUS
      <4>3. s \in Seq(S)
        BY <1>1, <4>2 DEF JoinsUp
      <4>4. QED BY <3>2, <4>1, <4>3
    <3> HIDE DEF Starts
    <3>4. QED BY <3>2, <3>3
  <2>2. CASE m + 1 > Len(ss) /\ m + 1 <= Len(tt)
    <3>1. m + 1 \in 1..Len(tt) /\ (m + 1) - 1 = m /\ m >= Len(ss) /\ m <= Len(tt) /\ m \in 0..Len(tt)
      BY <2>2
    <3>2. Starts(m)
      BY <3>1
    <3>3. h[m + 1] = h[m] \o tt[m + 1] /\ h[m] \in Seq(S) /\ tt[m + 1] \in Seq(S)
      BY <1>2, <2>2, JoinsNext
    <3>4. Len(ss) \in 0..Len(ss)
      OBVIOUS
    <3>5. s \in Seq(S)
      BY <1>1, <3>4 DEF JoinsUp
    <3> HIDE DEF s
    <3>6. Starts(m + 1)
      <4> DEFINE a == h[m]
                 b == tt[m + 1]
      <4>1. Len(s) <= Len(a) /\ \A i \in 1..Len(s) : s[i] = a[i]
        BY <3>2
      <4>2. a \in Seq(S) /\ b \in Seq(S) /\ h[m + 1] = a \o b
        BY <3>3
      <4> HIDE DEF a, b, T
      <4>3. Len(s) <= Len(a \o b) /\ \A i \in 1..Len(s) : s[i] = (a \o b)[i]
        BY <4>1, <4>2, <3>5, StillStarts
      <4>4. QED BY <4>2, <4>3
    <3> HIDE DEF Starts
    <3>7. QED BY <2>2, <3>6
  <2>3. CASE m + 1 > Len(tt)
    BY <2>3
  <2>4. QED BY <2>1, <2>2, <2>3
<1>5. T = Nat
  <2> HIDE DEF T
  <2>1. T \in SUBSET Nat
    BY DEF T
  <2>2. QED BY <1>3, <1>4, <2>1, Induction
<1>6. Len(tt) \in T
  <2> HIDE DEF T
  <2>1. QED BY <1>5
<1>7. Starts(Len(tt))
  <2> HIDE DEF Starts
  <2>1. QED BY <1>6
<1>8. QED BY <1>7, <1>1, <1>2 DEF JoinsUp

\* The ranges found from column i on: occurrences, in order and apart, and none
\* is left out but for those that overlap one of them.
Found == [start : Nat, stop : Nat]
FoundFrom(rs, i, text, needle, sensitive) ==
  /\ rs \in Seq(Found)
  /\ \A k \in 1..Len(rs) : /\ i <= rs[k].start /\ rs[k].stop = rs[k].start + Len(needle)
                           /\ OccursAt(text, needle, sensitive, rs[k].start)
  /\ \A j, k \in 1..Len(rs) : j < k => rs[j].stop <= rs[k].start
  /\ \A c \in i..Len(text) :
       OccursAt(text, needle, sensitive, c) =>
         \E k \in 1..Len(rs) : rs[k].start < c + Len(needle) /\ c < rs[k].stop

\* The scan, one column's step.
Scanned(f, i, text, needle, sensitive) ==
  IF i + Len(needle) > Len(text) THEN <<>>
  ELSE IF OccursAt(text, needle, sensitive, i)
         THEN <<[start |-> i, stop |-> i + Len(needle)]>> \o f[i + Len(needle)]
         ELSE f[i + 1]

LEMMA ScanExists ==
  ASSUME NEW S, NEW text \in Seq(S), NEW needle \in Seq(S), Len(needle) # 0, NEW sensitive
  PROVE  \E f : f = [i \in 0..Len(text) |-> Scanned(f, i, text, needle, sensitive)]
<1> DEFINE L == Len(text)
           n == Len(needle)
           Fits(f, m) == f = [i \in (L - m)..L |-> Scanned(f, i, text, needle, sensitive)]
           T == {m \in Nat : \E f : Fits(f, m)}
<1>0. L \in Nat /\ n \in Nat /\ n >= 1
  OBVIOUS
<1>1. 0 \in T
  <2> DEFINE g == [i \in (L - 0)..L |-> <<>>]
  <2>1. \A i \in (L - 0)..L : i + n > L
    BY <1>0
  <2>2. \A i \in (L - 0)..L : Scanned(g, i, text, needle, sensitive) = <<>>
    BY <2>1 DEF Scanned
  <2>3. Fits(g, 0)
    BY <2>2
  <2>4. \E f : Fits(f, 0)
    <3> HIDE DEF g, Fits
    <3>1. QED BY <2>3
  <2>5. QED BY <2>4
<1>2. ASSUME NEW m \in T PROVE m + 1 \in T
  <2>1. PICK f : Fits(f, m)
    OBVIOUS
  <2>2. m \in Nat
    OBVIOUS
  <2> DEFINE a == L - (m + 1)
             g == [i \in a..L |-> IF i = a THEN Scanned(f, a, text, needle, sensitive) ELSE f[i]]
  <2> HIDE DEF T
  <2>3. \A i \in a..L : i = a \/ i \in (L - m)..L
    BY <1>0, <2>2
  <2>4. \A i \in (L - m)..L : g[i] = f[i] /\ i \in a..L /\ i # a
    BY <1>0, <2>2
  <2>5. ASSUME NEW i \in a..L
        PROVE  Scanned(g, i, text, needle, sensitive) = Scanned(f, i, text, needle, sensitive)
    <3>1. CASE i + n > L
      BY <3>1 DEF Scanned
    <3>2. CASE i + n <= L
      <4>1. i + n \in (L - m)..L /\ i + 1 \in (L - m)..L
        BY <3>2, <1>0, <2>2
      <4>2. g[i + n] = f[i + n] /\ g[i + 1] = f[i + 1]
        BY <4>1, <2>4
      <4> HIDE DEF g, a
      <4>3. QED BY <4>2 DEF Scanned
    <3>3. QED BY <3>1, <3>2, <1>0
  <2>6. \A i \in (L - m)..L : f[i] = Scanned(f, i, text, needle, sensitive)
    BY <2>1
  <2>7. ASSUME NEW i \in a..L PROVE g[i] = Scanned(g, i, text, needle, sensitive)
    <3>1. CASE i = a
      <4>1. g[i] = Scanned(f, i, text, needle, sensitive)
        BY <3>1
      <4> HIDE DEF g
      <4>2. QED BY <4>1, <2>5
    <3>2. CASE i \in (L - m)..L
      <4> HIDE DEF g
      <4>1. QED BY <3>2, <2>4, <2>5, <2>6
    <3>3. QED BY <3>1, <3>2, <2>3
  <2>8. g = [i \in a..L |-> g[i]]
    OBVIOUS
  <2>9. g = [i \in a..L |-> Scanned(g, i, text, needle, sensitive)]
    <3> HIDE DEF g
    <3>1. [i \in a..L |-> g[i]] = [i \in a..L |-> Scanned(g, i, text, needle, sensitive)]
      BY <2>7
    <3>2. QED BY <2>8, <3>1
  <2>10. \E h : Fits(h, m + 1)
    <3> HIDE DEF g
    <3>1. Fits(g, m + 1)
      BY <2>9
    <3> HIDE DEF Fits
    <3>2. QED BY <3>1
  <2>11. QED BY <2>2, <2>10 DEF T
<1>3. L \in T
  <2>1. T = Nat
    <3> HIDE DEF T
    <3>1. T \in SUBSET Nat
      BY DEF T
    <3>2. QED BY <1>1, <1>2, <3>1, Induction
  <2> HIDE DEF T
  <2>2. QED BY <2>1, <1>0
<1>4. PICK f : Fits(f, L)
  <2> HIDE DEF Fits
  <2>1. QED BY <1>3
<1>5. L - L = 0
  BY <1>0
<1>6. QED BY <1>4, <1>5

\* What is found from the column on, when nothing is at the column.
LEMMA FoundPast ==
  ASSUME NEW rs, NEW i \in Nat, NEW text, NEW needle, NEW sensitive, Len(text) \in Nat,
         FoundFrom(rs, i + 1, text, needle, sensitive), ~OccursAt(text, needle, sensitive, i)
  PROVE  FoundFrom(rs, i, text, needle, sensitive)
<1>1. \A k \in 1..Len(rs) : rs[k].start \in Nat
  <2>1. rs \in Seq(Found)
    BY DEF FoundFrom
  <2>2. \A k \in 1..Len(rs) : rs[k] \in Found
    BY <2>1
  <2>3. QED BY <2>2 DEF Found
<1>2. \A k \in 1..Len(rs) : i <= rs[k].start
  BY <1>1 DEF FoundFrom
<1>3. \A c \in i..Len(text) : c = i \/ c \in (i + 1)..Len(text)
  OBVIOUS
<1>4. QED BY <1>2, <1>3 DEF FoundFrom

\* What is found when the needle is at the column.
LEMMA FoundHere ==
  ASSUME NEW rs, NEW i \in Nat, NEW text, NEW needle, NEW sensitive, Len(text) \in Nat,
         Len(needle) \in Nat \ {0},
         FoundFrom(rs, i + Len(needle), text, needle, sensitive),
         OccursAt(text, needle, sensitive, i)
  PROVE  FoundFrom(<<[start |-> i, stop |-> i + Len(needle)]>> \o rs, i, text, needle, sensitive)
<1> DEFINE r == [start |-> i, stop |-> i + Len(needle)]
           all == <<r>> \o rs
<1>1. rs \in Seq(Found) /\ r \in Found /\ Len(rs) \in Nat
  BY DEF FoundFrom, Found
<1>2. all \in Seq(Found) /\ Len(all) = Len(rs) + 1 /\ all[1] = r
  BY <1>1
<1>3. \A k \in 1..Len(rs) : all[k + 1] = rs[k]
  BY <1>1
<1>4. ASSUME NEW k \in 1..Len(all) PROVE k = 1 \/ (k - 1 \in 1..Len(rs) /\ all[k] = rs[k - 1])
  <2>1. k = 1 \/ (k - 1 \in 1..Len(rs) /\ (k - 1) + 1 = k)
    BY <1>1, <1>2
  <2> HIDE DEF all
  <2>2. QED BY <2>1, <1>3
<1>5. \A k \in 1..Len(rs) : rs[k].start \in Nat /\ i + Len(needle) <= rs[k].start
  <2>1. \A k \in 1..Len(rs) : rs[k] \in Found
    BY <1>1
  <2>2. \A k \in 1..Len(rs) : rs[k].start \in Nat
    BY <2>1 DEF Found
  <2>3. QED BY <2>2 DEF FoundFrom
<1>6. r.start = i /\ r.stop = i + Len(needle)
  OBVIOUS
<1> HIDE DEF r, all
<1>7. \A k \in 1..Len(all) : /\ i <= all[k].start /\ all[k].stop = all[k].start + Len(needle)
                             /\ OccursAt(text, needle, sensitive, all[k].start)
  <2> TAKE k \in 1..Len(all)
  <2>1. CASE k = 1
    BY <2>1, <1>2, <1>6
  <2>2. CASE k - 1 \in 1..Len(rs) /\ all[k] = rs[k - 1]
    BY <2>2, <1>5 DEF FoundFrom
  <2>3. QED BY <2>1, <2>2, <1>4
<1>8. \A j, k \in 1..Len(all) : j < k => all[j].stop <= all[k].start
  <2> TAKE j, k \in 1..Len(all)
  <2> HAVE j < k
  <2>1. k - 1 \in 1..Len(rs) /\ all[k] = rs[k - 1]
    BY <1>1, <1>2, <1>4
  <2>2. CASE j = 1
    BY <2>1, <2>2, <1>2, <1>5, <1>6
  <2>3. CASE j - 1 \in 1..Len(rs) /\ all[j] = rs[j - 1]
    <3>1. j - 1 < k - 1
      BY <1>1, <1>2
    <3>2. QED BY <2>1, <2>3, <3>1 DEF FoundFrom
  <2>4. QED BY <2>2, <2>3, <1>4
<1>9. ASSUME NEW c \in i..Len(text), OccursAt(text, needle, sensitive, c)
      PROVE  \E k \in 1..Len(all) : all[k].start < c + Len(needle) /\ c < all[k].stop
  <2>1. CASE c < i + Len(needle)
    <3>1. 1 \in 1..Len(all) /\ all[1].start < c + Len(needle) /\ c < all[1].stop
      BY <2>1, <1>1, <1>2, <1>6
    <3>2. QED BY <3>1
  <2>2. CASE c >= i + Len(needle)
    <3>1. c \in (i + Len(needle))..Len(text)
      BY <2>2
    <3>2. PICK k \in 1..Len(rs) : rs[k].start < c + Len(needle) /\ c < rs[k].stop
      BY <3>1, <1>9 DEF FoundFrom
    <3>3. k + 1 \in 1..Len(all) /\ all[k + 1] = rs[k]
      BY <1>1, <1>2, <1>3
    <3>4. QED BY <3>2, <3>3
  <2>3. QED BY <2>1, <2>2
<1>10. FoundFrom(all, i, text, needle, sensitive)
  BY <1>2, <1>7, <1>8, <1>9 DEF FoundFrom
<1>11. QED BY <1>10 DEF all, r

\* The scan finds what there is.
LEMMA RangesAreFound ==
  ASSUME NEW S, NEW text \in Seq(S), NEW needle \in Seq(S), Len(needle) # 0, NEW sensitive
  PROVE  FoundFrom(Ranges(text, needle, sensitive), 0, text, needle, sensitive)
<1> DEFINE L == Len(text)
           n == Len(needle)
<1>0. L \in Nat /\ n \in Nat /\ n >= 1 /\ needle # <<>>
  OBVIOUS
<1>1. PICK f : /\ f = [i \in 0..L |-> Scanned(f, i, text, needle, sensitive)]
               /\ Ranges(text, needle, sensitive) = f[0]
  <2> DEFINE from[i \in 0..Len(text)] ==
        IF i + Len(needle) > Len(text) THEN <<>>
        ELSE IF OccursAt(text, needle, sensitive, i)
               THEN <<[start |-> i, stop |-> i + Len(needle)]>> \o from[i + Len(needle)]
               ELSE from[i + 1]
  <2>1. \E f : f = [i \in 0..Len(text) |->
                      IF i + Len(needle) > Len(text) THEN <<>>
                      ELSE IF OccursAt(text, needle, sensitive, i)
                             THEN <<[start |-> i, stop |-> i + Len(needle)]>> \o f[i + Len(needle)]
                             ELSE f[i + 1]]
    BY ScanExists DEF Scanned
  <2>2. from = [i \in 0..Len(text) |->
                  IF i + Len(needle) > Len(text) THEN <<>>
                  ELSE IF OccursAt(text, needle, sensitive, i)
                         THEN <<[start |-> i, stop |-> i + Len(needle)]>> \o from[i + Len(needle)]
                         ELSE from[i + 1]]
    BY <2>1
  <2>3. Ranges(text, needle, sensitive) = from[0]
    BY <1>0 DEF Ranges
  <2> HIDE DEF from
  <2>4. QED BY <2>2, <2>3 DEF Scanned
<1>2. \A i \in 0..L : f[i] = Scanned(f, i, text, needle, sensitive)
  BY <1>1
<1> DEFINE Good(i) == FoundFrom(f[i], i, text, needle, sensitive)
           T == {m \in Nat : \A i \in 0..L : L - i <= m => Good(i)}
<1>3. ASSUME NEW i \in 0..L, i + n > L PROVE Good(i)
  <2>1. f[i] = <<>>
    BY <1>2, <1>3 DEF Scanned
  <2>2. \A c \in i..L : ~OccursAt(text, needle, sensitive, c)
    BY <1>0, <1>3 DEF OccursAt
  <2>3. FoundFrom(<<>>, i, text, needle, sensitive)
    BY <2>2 DEF FoundFrom
  <2>4. QED BY <2>1, <2>3
<1>4. 0 \in T
  <2>1. \A i \in 0..L : L - i <= 0 => i + n > L
    BY <1>0
  <2> HIDE DEF Good
  <2>2. QED BY <2>1, <1>3
<1>5. ASSUME NEW m \in T PROVE m + 1 \in T
  <2>1. m \in Nat /\ \A i \in 0..L : L - i <= m => Good(i)
    <3> HIDE DEF Good
    <3>1. QED OBVIOUS
  <2>2. ASSUME NEW i \in 0..L, L - i <= m + 1 PROVE Good(i)
    <3>1. CASE i + n > L
      <4> HIDE DEF Good
      <4>1. QED BY <3>1, <1>3
    <3>2. CASE i + n <= L /\ OccursAt(text, needle, sensitive, i)
      <4>1. i + n \in 0..L /\ L - (i + n) <= m
        BY <3>2, <1>0, <2>1, <2>2
      <4>2. FoundFrom(f[i + n], i + n, text, needle, sensitive)
        <5>1. Good(i + n)
          <6> HIDE DEF Good
          <6>1. QED BY <4>1, <2>1
        <5>2. QED BY <5>1
      <4>3. f[i] = <<[start |-> i, stop |-> i + n]>> \o f[i + n]
        <5>1. ~(i + n > L)
          BY <3>2, <1>0
        <5>2. QED BY <5>1, <3>2, <1>2 DEF Scanned
      <4>4. i \in Nat /\ L \in Nat /\ n \in Nat \ {0}
        BY <1>0
      <4>5. FoundFrom(<<[start |-> i, stop |-> i + n]>> \o f[i + n], i, text, needle, sensitive)
        BY <4>2, <4>4, <3>2, FoundHere
      <4>6. QED BY <4>3, <4>5
    <3>3. CASE i + n <= L /\ ~OccursAt(text, needle, sensitive, i)
      <4>1. i + 1 \in 0..L /\ L - (i + 1) <= m
        BY <3>3, <1>0, <2>1, <2>2
      <4>2. FoundFrom(f[i + 1], i + 1, text, needle, sensitive)
        <5>1. Good(i + 1)
          <6> HIDE DEF Good
          <6>1. QED BY <4>1, <2>1
        <5>2. QED BY <5>1
      <4>3. f[i] = f[i + 1]
        <5>1. ~(i + n > L)
          BY <3>3, <1>0
        <5>2. QED BY <5>1, <3>3, <1>2 DEF Scanned
      <4>4. i \in Nat /\ L \in Nat
        BY <1>0
      <4>5. FoundFrom(f[i + 1], i, text, needle, sensitive)
        BY <4>2, <4>4, <3>3, FoundPast
      <4>6. QED BY <4>3, <4>5
    <3>4. QED BY <3>1, <3>2, <3>3, <1>0
  <2> HIDE DEF Good
  <2>3. QED BY <2>1, <2>2
<1>6. L \in T
  <2>1. T = Nat
    <3> HIDE DEF T
    <3>1. T \in SUBSET Nat
      BY DEF T
    <3>2. QED BY <1>4, <1>5, <3>1, Induction
  <2> HIDE DEF T
  <2>2. QED BY <2>1, <1>0
<1>7. Good(0)
  <2>1. 0 \in 0..L /\ L - 0 <= L
    BY <1>0
  <2> HIDE DEF Good
  <2>2. QED BY <1>6, <2>1
<1>8. QED BY <1>7, <1>1

\* Lines and matches, and which come first in the document.
RowTexts == Seq(Seq(STRING))
Line == [id : Nat, kind : {"command", "output"}, row : Nat, text : Seq(STRING)]

Above(a, b) ==
  a.id < b.id \/ (a.id = b.id /\ ((a.kind = "command" /\ b.kind = "output")
                                  \/ (a.kind = b.kind /\ a.row < b.row)))
SameLine(a, b) == a.id = b.id /\ a.kind = b.kind /\ a.row = b.row
Precedes(a, b) == Above(a, b) \/ (SameLine(a, b) /\ a.stop <= b.start)

LEMMA TrimmedType == ASSUME NEW row \in Seq(STRING) PROVE Trimmed(row) \in Seq(STRING)
<1> DEFINE M == {0} \cup {i \in DOMAIN row : row[i] # "_"}
<1>1. M \in SUBSET Nat /\ M # {} /\ Len(row) \in Nat /\ \A k \in M : k <= Len(row)
  <2>1. Len(row) \in Nat /\ DOMAIN row = 1..Len(row)
    OBVIOUS
  <2>2. \A k \in M : k = 0 \/ k \in 1..Len(row)
    BY <2>1
  <2>3. 0 \in M
    OBVIOUS
  <2> HIDE DEF M
  <2>4. \A k \in M : k \in Nat /\ k <= Len(row)
    BY <2>1, <2>2
  <2>5. QED BY <2>1, <2>3, <2>4
<1>2. Max(M) \in M
  <2> HIDE DEF M
  <2>1. QED BY <1>1, MaxOf
<1>3. Max(M) \in Nat /\ Max(M) <= Len(row)
  <2> HIDE DEF M
  <2>1. QED BY <1>1, <1>2
<1>4. Trimmed(row) = SubSeq(row, 1, Max(M))
  BY DEF Trimmed
<1> HIDE DEF M
<1>5. \A k \in 1..Max(M) : row[k] \in STRING
  BY <1>1, <1>3
<1>6. SubSeq(row, 1, Max(M)) \in Seq(STRING)
  BY <1>3, <1>5
<1>7. QED BY <1>4, <1>6

LEMMA LinesInFollow ==
  ASSUME NEW block \in [command : RowTexts, output : RowTexts], NEW id \in Nat
  PROVE  /\ LinesIn(block, id) \in Seq(Line)
         /\ \A k \in 1..Len(LinesIn(block, id)) : LinesIn(block, id)[k].id = id
         /\ \A j, k \in 1..Len(LinesIn(block, id)) :
              j < k => Above(LinesIn(block, id)[j], LinesIn(block, id)[k])
<1> DEFINE c == [r \in DOMAIN block.command |-> [id |-> id, kind |-> "command", row |-> r,
                                                 text |-> block.command[r]]]
           o == [r \in DOMAIN block.output |-> [id |-> id, kind |-> "output", row |-> r,
                                                text |-> Trimmed(block.output[r])]]
<1>1. block.command \in Seq(Seq(STRING)) /\ block.output \in Seq(Seq(STRING))
  BY DEF RowTexts
<1>2. /\ DOMAIN block.command = 1..Len(block.command) /\ Len(block.command) \in Nat
      /\ DOMAIN block.output = 1..Len(block.output) /\ Len(block.output) \in Nat
  BY <1>1
<1>3. /\ \A r \in DOMAIN block.command : block.command[r] \in Seq(STRING)
      /\ \A r \in DOMAIN block.output : block.output[r] \in Seq(STRING)
  BY <1>1
<1>4. /\ \A r \in DOMAIN block.command :
           [id |-> id, kind |-> "command", row |-> r, text |-> block.command[r]] \in Line
      /\ \A r \in DOMAIN block.output :
           [id |-> id, kind |-> "output", row |-> r, text |-> Trimmed(block.output[r])] \in Line
  <2>1. ASSUME NEW r \in DOMAIN block.command
        PROVE [id |-> id, kind |-> "command", row |-> r, text |-> block.command[r]] \in Line
    <3>1. r \in Nat
      BY <1>2
    <3>2. QED BY <3>1, <1>3 DEF Line
  <2>2. ASSUME NEW r \in DOMAIN block.output
        PROVE [id |-> id, kind |-> "output", row |-> r, text |-> Trimmed(block.output[r])] \in Line
    <3>1. r \in Nat
      BY <1>2
    <3>2. Trimmed(block.output[r]) \in Seq(STRING)
      BY <1>3, TrimmedType
    <3>3. QED BY <3>1, <3>2 DEF Line
  <2>3. QED BY <2>1, <2>2
<1>5. c \in Seq(Line) /\ o \in Seq(Line)
  BY <1>2, <1>4
<1>6. Len(c) \in Nat /\ Len(o) \in Nat /\ Len(c) = Len(block.command) /\ Len(o) = Len(block.output)
  BY <1>2
<1>7. \A k \in 1..Len(c) : c[k].id = id /\ c[k].kind = "command" /\ c[k].row = k
  BY <1>2, <1>6
<1>8. \A k \in 1..Len(o) : o[k].id = id /\ o[k].kind = "output" /\ o[k].row = k
  BY <1>2, <1>6
<1>9. LinesIn(block, id) = c \o o
  BY DEF LinesIn
<1> HIDE DEF c, o
<1> DEFINE all == c \o o
<1>10. /\ all \in Seq(Line) /\ Len(all) = Len(c) + Len(o)
       /\ \A k \in 1..Len(c) : all[k] = c[k]
       /\ \A k \in 1..Len(o) : all[Len(c) + k] = o[k]
  BY <1>5, ElementsOfBoth
<1> HIDE DEF all
<1>11. ASSUME NEW k \in 1..Len(all)
       PROVE  /\ all[k].id = id
              /\ \/ k <= Len(c) /\ all[k].kind = "command" /\ all[k].row = k
                 \/ k > Len(c) /\ all[k].kind = "output" /\ all[k].row = k - Len(c)
  <2>1. CASE k <= Len(c)
    <3>1. k \in 1..Len(c)
      BY <2>1, <1>6, <1>10
    <3>2. QED BY <2>1, <3>1, <1>7, <1>10
  <2>2. CASE k > Len(c)
    <3>1. k - Len(c) \in 1..Len(o) /\ Len(c) + (k - Len(c)) = k
      BY <2>2, <1>6, <1>10
    <3>2. all[k] = o[k - Len(c)]
      BY <3>1, <1>10
    <3>3. QED BY <2>2, <3>1, <3>2, <1>8
  <2>3. QED BY <2>1, <2>2, <1>6, <1>10
<1>12. ASSUME NEW j \in 1..Len(all), NEW k \in 1..Len(all), j < k PROVE Above(all[j], all[k])
  <2>1. j \in Nat /\ k \in Nat
    BY <1>6, <1>10
  <2>2. CASE k <= Len(c)
    <3>1. j <= Len(c)
      BY <2>1, <2>2, <1>6, <1>12
    <3>2. all[j].row = j /\ all[k].row = k /\ all[j].kind = "command" /\ all[k].kind = "command"
      BY <1>6, <2>1, <2>2, <3>1, <1>11
    <3>3. QED BY <3>2, <1>11, <1>12 DEF Above
  <2>3. CASE k > Len(c) /\ j <= Len(c)
    <3>1. all[j].kind = "command" /\ all[k].kind = "output"
      BY <1>6, <2>1, <2>3, <1>11
    <3>2. QED BY <3>1, <1>11 DEF Above
  <2>4. CASE j > Len(c)
    <3>1. k > Len(c)
      BY <2>1, <2>4, <1>6, <1>12
    <3>2. /\ all[j].row = j - Len(c) /\ all[k].row = k - Len(c)
          /\ all[j].kind = "output" /\ all[k].kind = "output"
      BY <1>6, <2>1, <2>4, <3>1, <1>11
    <3>3. j - Len(c) < k - Len(c)
      BY <2>1, <1>6, <1>12
    <3>4. QED BY <3>2, <3>3, <1>11 DEF Above
  <2>5. QED BY <2>1, <2>2, <2>3, <2>4, <1>6
<1>13. QED BY <1>9, <1>10, <1>11, <1>12 DEF all

\* What can be searched, in document order.
SealedOK == sealed \in Seq([command : RowTexts, output : RowTexts])
LEMMA LinesFollow ==
  ASSUME SealedOK
  PROVE  /\ SearchableLines \in Seq(Line)
         /\ \A j, k \in 1..Len(SearchableLines) :
              j < k => Above(SearchableLines[j], SearchableLines[k])
<1> DEFINE ss == [id \in DOMAIN sealed |-> LinesIn(sealed[id], id)]
           R == {p \in Line \X Line : Above(p[1], p[2])}
<1>1. DOMAIN sealed = 1..Len(sealed) /\ Len(sealed) \in Nat
  BY DEF SealedOK
<1>2. \A id \in DOMAIN sealed : id \in Nat /\ sealed[id] \in [command : RowTexts, output : RowTexts]
  <2> DEFINE B == [command : RowTexts, output : RowTexts]
  <2> HIDE DEF B
  <2>1. sealed \in Seq(B)
    BY DEF SealedOK, B
  <2>2. \A id \in DOMAIN sealed : sealed[id] \in B
    BY <2>1
  <2>3. QED BY <1>1, <2>2 DEF B
<1>3. \A id \in DOMAIN sealed :
        /\ LinesIn(sealed[id], id) \in Seq(Line)
        /\ \A k \in 1..Len(LinesIn(sealed[id], id)) : LinesIn(sealed[id], id)[k].id = id
        /\ \A j, k \in 1..Len(LinesIn(sealed[id], id)) :
             j < k => Above(LinesIn(sealed[id], id)[j], LinesIn(sealed[id], id)[k])
  BY <1>2, LinesInFollow
<1>4. ss \in Seq(Seq(Line)) /\ Len(ss) = Len(sealed)
  BY <1>1, <1>3
<1>5. \A n \in 1..Len(ss) : ss[n] = LinesIn(sealed[n], n) /\ n \in DOMAIN sealed /\ n \in Nat
  BY <1>1, <1>4
<1>6. SearchableLines = FlattenSeq(ss)
  BY DEF SearchableLines
<1> HIDE DEF ss
<1>7. \A n \in 1..Len(ss) : ss[n] \in Seq(Line) /\ \A k \in 1..Len(ss[n]) : ss[n][k] \in Line
  BY <1>4
<1>8. \A n \in 1..Len(ss) : \A j, k \in 1..Len(ss[n]) : j < k => <<ss[n][j], ss[n][k]>> \in R
  <2> TAKE n \in 1..Len(ss)
  <2> TAKE j, k \in 1..Len(ss[n])
  <2> HAVE j < k
  <2>1. Above(ss[n][j], ss[n][k])
    BY <1>3, <1>5
  <2>2. QED BY <2>1, <1>7
<1>9. ASSUME NEW n \in 1..Len(ss), NEW m \in 1..Len(ss), n < m,
             NEW x \in ToSet(ss[n]), NEW y \in ToSet(ss[m])
      PROVE  <<x, y>> \in R
  <2>1. PICK j \in 1..Len(ss[n]) : x = ss[n][j]
    BY <1>7 DEF ToSet
  <2>2. PICK k \in 1..Len(ss[m]) : y = ss[m][k]
    BY <1>7 DEF ToSet
  <2>3. x \in Line /\ y \in Line
    BY <2>1, <2>2, <1>7
  <2>4. x.id = n /\ y.id = m
    BY <2>1, <2>2, <1>3, <1>5
  <2>5. Above(x, y)
    BY <2>4, <1>9 DEF Above
  <2>6. QED BY <2>3, <2>5
<1>10. FlattenSeq(ss) \in Seq(Line)
  BY <1>4, FlattenType
<1>11. \A j, k \in 1..Len(FlattenSeq(ss)) :
         j < k => <<FlattenSeq(ss)[j], FlattenSeq(ss)[k]>> \in R
  <2> HIDE DEF R
  <2>1. QED BY <1>4, <1>8, <1>9, FlattenOrdered
<1>12. \A j, k \in 1..Len(FlattenSeq(ss)) : j < k => Above(FlattenSeq(ss)[j], FlattenSeq(ss)[k])
  BY <1>11
<1>13. QED BY <1>6, <1>10, <1>12

\* What a line adds to the matches.
MatchesOf(ms, f, line) ==
  /\ ms \in Seq(Match)
  /\ \A k \in 1..Len(ms) : /\ SameLine(ms[k], line) /\ Includes(f.filter, line.kind)
                           /\ ms[k].stop = ms[k].start + Len(f.query)
                           /\ OccursAt(line.text, f.query, f.case, ms[k].start)
  /\ \A j, k \in 1..Len(ms) : j < k => ms[j].stop <= ms[k].start
  /\ Includes(f.filter, line.kind) =>
       \A c \in 0..Len(line.text) :
         OccursAt(line.text, f.query, f.case, c) =>
           \E k \in 1..Len(ms) : ms[k].start < c + Len(f.query) /\ c < ms[k].stop

LEMMA MatchesInAre ==
  ASSUME NEW f, f.query \in Seq(STRING), f.query # <<>>, NEW line \in Line
  PROVE  MatchesOf(MatchesIn(f, line), f, line)
<1> DEFINE rs == Ranges(line.text, f.query, f.case)
           M(r) == [id |-> line.id, kind |-> line.kind, row |-> line.row,
                    start |-> r.start, stop |-> r.stop]
           ms == [k \in DOMAIN rs |-> M(rs[k])]
<1>1. line.text \in Seq(STRING) /\ line.id \in Nat /\ line.kind \in {"command", "output"} /\ line.row \in Nat
  BY DEF Line
<1>2. Len(f.query) # 0
  OBVIOUS
<1>3. FoundFrom(rs, 0, line.text, f.query, f.case)
  BY <1>1, <1>2, RangesAreFound
<1> HIDE DEF rs
<1>4. rs \in Seq(Found) /\ DOMAIN rs = 1..Len(rs) /\ Len(rs) \in Nat
  BY <1>3 DEF FoundFrom
<1>5. \A k \in 1..Len(rs) : rs[k].start \in Nat /\ rs[k].stop \in Nat
  <2>1. \A k \in 1..Len(rs) : rs[k] \in Found
    BY <1>4
  <2>2. QED BY <2>1 DEF Found
<1>6. CASE Includes(f.filter, line.kind)
  <2>1. MatchesIn(f, line) = ms
    BY <1>6 DEF MatchesIn, rs
  <2>2. \A k \in 1..Len(rs) : M(rs[k]) \in Match
    BY <1>1, <1>5 DEF Match
  <2>3. ms \in Seq(Match) /\ Len(ms) = Len(rs)
    BY <1>4, <2>2
  <2>4. \A k \in 1..Len(rs) : /\ ms[k].start = rs[k].start /\ ms[k].stop = rs[k].stop
                              /\ ms[k].id = line.id /\ ms[k].kind = line.kind /\ ms[k].row = line.row
    BY <1>4
  <2> HIDE DEF ms, M
  <2>5. \A k \in 1..Len(ms) : /\ SameLine(ms[k], line)
                              /\ ms[k].stop = ms[k].start + Len(f.query)
                              /\ OccursAt(line.text, f.query, f.case, ms[k].start)
    BY <1>3, <2>3, <2>4 DEF FoundFrom, SameLine
  <2>6. \A j, k \in 1..Len(ms) : j < k => ms[j].stop <= ms[k].start
    BY <1>3, <2>3, <2>4 DEF FoundFrom
  <2>7. ASSUME NEW c \in 0..Len(line.text), OccursAt(line.text, f.query, f.case, c)
        PROVE  \E k \in 1..Len(ms) : ms[k].start < c + Len(f.query) /\ c < ms[k].stop
    <3>1. PICK k \in 1..Len(rs) : rs[k].start < c + Len(f.query) /\ c < rs[k].stop
      BY <1>3, <2>7 DEF FoundFrom
    <3>2. QED BY <3>1, <2>3, <2>4
  <2>8. QED BY <1>6, <2>1, <2>3, <2>5, <2>6, <2>7 DEF MatchesOf
<1>7. CASE ~Includes(f.filter, line.kind)
  <2>1. MatchesIn(f, line) = <<>>
    BY <1>7 DEF MatchesIn
  <2>2. MatchesOf(<<>>, f, line)
    BY <1>7 DEF MatchesOf
  <2>3. QED BY <2>1, <2>2
<1>8. QED BY <1>6, <1>7

\* The matches: of every line, in document order.
LEMMA MatchesAre ==
  ASSUME SealedOK, NEW f, f.query \in Seq(STRING), f.query # <<>>
  PROVE  /\ Matches(f) \in Seq(Match)
         /\ \A m : m \in ToSet(Matches(f)) <=>
                     \E n \in 1..Len(SearchableLines) : m \in ToSet(MatchesIn(f, SearchableLines[n]))
         /\ \A j, k \in 1..Len(Matches(f)) : j < k => Precedes(Matches(f)[j], Matches(f)[k])
<1> DEFINE lines == SearchableLines
           ss == [n \in DOMAIN lines |-> MatchesIn(f, lines[n])]
           R == {p \in Match \X Match : Precedes(p[1], p[2])}
<1>1. lines \in Seq(Line) /\ \A j, k \in 1..Len(lines) : j < k => Above(lines[j], lines[k])
  BY LinesFollow
<1> HIDE DEF lines
<1>2. DOMAIN lines = 1..Len(lines) /\ Len(lines) \in Nat /\ \A n \in DOMAIN lines : lines[n] \in Line
  BY <1>1
<1>3. \A n \in DOMAIN lines : MatchesOf(MatchesIn(f, lines[n]), f, lines[n])
  BY <1>2, MatchesInAre
<1>4. ss \in Seq(Seq(Match)) /\ Len(ss) = Len(lines)
  BY <1>2, <1>3 DEF MatchesOf
<1>5. \A n \in 1..Len(ss) : ss[n] = MatchesIn(f, lines[n]) /\ MatchesOf(ss[n], f, lines[n])
  BY <1>2, <1>3, <1>4
<1>6. Matches(f) = FlattenSeq(ss)
  BY DEF Matches, lines
<1> HIDE DEF ss
<1>7. FlattenSeq(ss) \in Seq(Match)
  BY <1>4, FlattenType
<1>8. ASSUME NEW m
      PROVE  m \in ToSet(FlattenSeq(ss)) <=>
               \E n \in 1..Len(lines) : m \in ToSet(MatchesIn(f, lines[n]))
  <2>1. m \in ToSet(FlattenSeq(ss)) <=> \E n \in 1..Len(ss) : m \in ToSet(ss[n])
    BY <1>4, FlattenElements
  <2>2. QED BY <2>1, <1>4, <1>5
<1>9. \A n \in 1..Len(ss) : \A k \in 1..Len(ss[n]) : ss[n][k] \in Match
  BY <1>4
<1>10. \A n \in 1..Len(ss) : \A j, k \in 1..Len(ss[n]) : j < k => <<ss[n][j], ss[n][k]>> \in R
  <2> TAKE n \in 1..Len(ss)
  <2> TAKE j, k \in 1..Len(ss[n])
  <2> HAVE j < k
  <2>1. SameLine(ss[n][j], lines[n]) /\ SameLine(ss[n][k], lines[n]) /\ ss[n][j].stop <= ss[n][k].start
    BY <1>5 DEF MatchesOf
  <2>2. Precedes(ss[n][j], ss[n][k])
    BY <2>1 DEF SameLine, Precedes
  <2>3. QED BY <2>2, <1>9
<1>11. ASSUME NEW n \in 1..Len(ss), NEW m \in 1..Len(ss), n < m,
              NEW x \in ToSet(ss[n]), NEW y \in ToSet(ss[m])
       PROVE  <<x, y>> \in R
  <2>0. ss[n] \in Seq(Match) /\ ss[m] \in Seq(Match)
    BY <1>4
  <2>1. PICK j \in 1..Len(ss[n]) : x = ss[n][j]
    BY <2>0 DEF ToSet
  <2>2. PICK k \in 1..Len(ss[m]) : y = ss[m][k]
    BY <2>0 DEF ToSet
  <2>3. x \in Match /\ y \in Match
    BY <2>1, <2>2, <1>9
  <2>4. SameLine(x, lines[n]) /\ SameLine(y, lines[m])
    BY <2>1, <2>2, <1>5 DEF MatchesOf
  <2>5. Above(lines[n], lines[m])
    BY <1>1, <1>4, <1>11
  <2>6. Above(x, y)
    BY <2>4, <2>5 DEF Above, SameLine
  <2>7. QED BY <2>3, <2>6 DEF Precedes
<1>12. \A j, k \in 1..Len(FlattenSeq(ss)) :
         j < k => <<FlattenSeq(ss)[j], FlattenSeq(ss)[k]>> \in R
  <2> HIDE DEF R
  <2>1. QED BY <1>4, <1>10, <1>11, FlattenOrdered
<1>13. \A j, k \in 1..Len(FlattenSeq(ss)) : j < k => Precedes(FlattenSeq(ss)[j], FlattenSeq(ss)[k])
  BY <1>12
<1>14. QED BY <1>6, <1>7, <1>8, <1>13 DEF lines

\* The lines of some blocks, and the matches in some lines.
Blocks == [command : RowTexts, output : RowTexts]
LinesOf(blocks) == FlattenSeq([id \in DOMAIN blocks |-> LinesIn(blocks[id], id)])
MatchesAmong(lines, f) == FlattenSeq([n \in DOMAIN lines |-> MatchesIn(f, lines[n])])
StartsWith(t, s) == Len(s) <= Len(t) /\ \A i \in 1..Len(s) : s[i] = t[i]

LEMMA LinesOfStart ==
  ASSUME NEW blocks \in Seq(Blocks), NEW more \in Seq(Blocks), StartsWith(more, blocks)
  PROVE  LinesOf(blocks) \in Seq(Line) /\ LinesOf(more) \in Seq(Line)
         /\ StartsWith(LinesOf(more), LinesOf(blocks))
<1> DEFINE Each(bs) == [id \in DOMAIN bs |-> LinesIn(bs[id], id)]
<1>1. ASSUME NEW bs \in Seq(Blocks)
      PROVE  Each(bs) \in Seq(Seq(Line)) /\ Len(Each(bs)) = Len(bs)
             /\ \A n \in 1..Len(bs) : Each(bs)[n] = LinesIn(bs[n], n)
  <2>1. DOMAIN bs = 1..Len(bs) /\ Len(bs) \in Nat /\ \A n \in 1..Len(bs) : n \in Nat /\ bs[n] \in Blocks
    OBVIOUS
  <2>2. \A n \in 1..Len(bs) : LinesIn(bs[n], n) \in Seq(Line)
    BY <2>1, LinesInFollow DEF Blocks
  <2>3. QED BY <2>1, <2>2
<1> DEFINE ss == Each(blocks)
           tt == Each(more)
<1>2. ss \in Seq(Seq(Line)) /\ Len(ss) = Len(blocks) /\ \A n \in 1..Len(blocks) : ss[n] = LinesIn(blocks[n], n)
  <2> HIDE DEF Each
  <2>1. QED BY <1>1
<1>3. tt \in Seq(Seq(Line)) /\ Len(tt) = Len(more) /\ \A n \in 1..Len(more) : tt[n] = LinesIn(more[n], n)
  <2> HIDE DEF Each
  <2>1. QED BY <1>1
<1>4. LinesOf(blocks) = FlattenSeq(ss) /\ LinesOf(more) = FlattenSeq(tt)
  BY DEF LinesOf
<1> HIDE DEF ss, tt
<1>5. Len(blocks) \in Nat /\ Len(more) \in Nat /\ Len(blocks) <= Len(more)
  BY DEF StartsWith
<1>6. \A i \in 1..Len(ss) : ss[i] = tt[i]
  <2> TAKE i \in 1..Len(ss)
  <2>1. i \in 1..Len(blocks) /\ i \in 1..Len(more)
    BY <1>2, <1>5
  <2>2. blocks[i] = more[i]
    BY <2>1 DEF StartsWith
  <2>3. QED BY <2>1, <2>2, <1>2, <1>3
<1>7. StartsWith(FlattenSeq(tt), FlattenSeq(ss))
  BY <1>2, <1>3, <1>5, <1>6, FlattenPrefix DEF StartsWith
<1>8. QED BY <1>2, <1>3, <1>4, <1>7, FlattenType

LEMMA MatchesAmongStart ==
  ASSUME NEW lines \in Seq(Line), NEW more \in Seq(Line), StartsWith(more, lines),
         NEW f, f.query \in Seq(STRING), f.query # <<>>
  PROVE  MatchesAmong(more, f) \in Seq(Match) /\ StartsWith(MatchesAmong(more, f), MatchesAmong(lines, f))
<1> DEFINE Each(ls) == [n \in DOMAIN ls |-> MatchesIn(f, ls[n])]
<1>1. ASSUME NEW ls \in Seq(Line)
      PROVE  Each(ls) \in Seq(Seq(Match)) /\ Len(Each(ls)) = Len(ls)
             /\ \A n \in 1..Len(ls) : Each(ls)[n] = MatchesIn(f, ls[n])
  <2>1. DOMAIN ls = 1..Len(ls) /\ Len(ls) \in Nat /\ \A n \in 1..Len(ls) : ls[n] \in Line
    OBVIOUS
  <2>2. \A n \in 1..Len(ls) : MatchesIn(f, ls[n]) \in Seq(Match)
    BY <2>1, MatchesInAre DEF MatchesOf
  <2>3. QED BY <2>1, <2>2
<1> DEFINE ss == Each(lines)
           tt == Each(more)
<1>2. ss \in Seq(Seq(Match)) /\ Len(ss) = Len(lines) /\ \A n \in 1..Len(lines) : ss[n] = MatchesIn(f, lines[n])
  <2> HIDE DEF Each
  <2>1. QED BY <1>1
<1>3. tt \in Seq(Seq(Match)) /\ Len(tt) = Len(more) /\ \A n \in 1..Len(more) : tt[n] = MatchesIn(f, more[n])
  <2> HIDE DEF Each
  <2>1. QED BY <1>1
<1>4. MatchesAmong(lines, f) = FlattenSeq(ss) /\ MatchesAmong(more, f) = FlattenSeq(tt)
  BY DEF MatchesAmong
<1> HIDE DEF ss, tt
<1>5. Len(lines) \in Nat /\ Len(more) \in Nat /\ Len(lines) <= Len(more)
  BY DEF StartsWith
<1>6. \A i \in 1..Len(ss) : ss[i] = tt[i]
  <2> TAKE i \in 1..Len(ss)
  <2>1. i \in 1..Len(lines) /\ i \in 1..Len(more)
    BY <1>2, <1>5
  <2>2. lines[i] = more[i]
    BY <2>1 DEF StartsWith
  <2>3. QED BY <2>1, <2>2, <1>2, <1>3
<1>7. StartsWith(FlattenSeq(tt), FlattenSeq(ss))
  BY <1>2, <1>3, <1>5, <1>6, FlattenPrefix DEF StartsWith
<1>8. QED BY <1>3, <1>4, <1>7, FlattenType

\* A block that is sealed adds matches behind the others.
LEMMA SealAddsMatches ==
  ASSUME NEW blocks \in Seq(Blocks), NEW b \in Blocks,
         NEW f, f.query \in Seq(STRING), f.query # <<>>
  PROVE  /\ MatchesAmong(LinesOf(Append(blocks, b)), f) \in Seq(Match)
         /\ StartsWith(MatchesAmong(LinesOf(Append(blocks, b)), f), MatchesAmong(LinesOf(blocks), f))
<1>1. Append(blocks, b) \in Seq(Blocks) /\ StartsWith(Append(blocks, b), blocks)
  BY DEF StartsWith
<1>2. QED BY <1>1, LinesOfStart, MatchesAmongStart

\* What is highlighted is what there is.
LEMMA ShowsEveryOccurrence ==
  ASSUME SealedOK, find \in FindOverlay
  PROVE  EveryOccurrenceIsShown
<1> SUFFICES ASSUME find.query # <<>>, ~BadRegex(find)
             PROVE  EveryOccurrenceIsShown
  BY DEF EveryOccurrenceIsShown
<1> DEFINE ms == Matches(find)
           lines == SearchableLines
           q == Len(find.query)
<1>0. find.query \in Seq(STRING) /\ q \in Nat /\ q >= 1
  <2>1. find.query \in Seq(STRING)
    BY DEF FindOverlay
  <2>2. QED BY <2>1
<1>1. Recomputed(find).matches = ms
  BY DEF Recomputed, FindOverlay
<1>2. /\ ms \in Seq(Match)
      /\ \A m : m \in ToSet(ms) <=> \E n \in 1..Len(lines) : m \in ToSet(MatchesIn(find, lines[n]))
      /\ \A j, k \in 1..Len(ms) : j < k => Precedes(ms[j], ms[k])
  BY <1>0, MatchesAre
<1>3. lines \in Seq(Line)
  BY LinesFollow
<1> HIDE DEF ms, lines
<1>4. /\ DOMAIN ms = 1..Len(ms) /\ Len(ms) \in Nat /\ DOMAIN lines = 1..Len(lines)
      /\ \A k \in 1..Len(ms) : ms[k] \in Match
  BY <1>2, <1>3
<1>5. ASSUME NEW n \in 1..Len(lines)
      PROVE  MatchesOf(MatchesIn(find, lines[n]), find, lines[n])
  <2>1. lines[n] \in Line
    BY <1>3
  <2>2. QED BY <2>1, <1>0, MatchesInAre
<1>6. ASSUME NEW m \in ToSet(ms)
      PROVE  /\ m \in Match /\ m.stop = m.start + q
             /\ \E line \in ToSet(lines) :
                  /\ SameLine(m, line) /\ Includes(find.filter, line.kind)
                  /\ OccursAt(line.text, find.query, find.case, m.start)
  <2>1. PICK n \in 1..Len(lines) : m \in ToSet(MatchesIn(find, lines[n]))
    BY <1>2
  <2> DEFINE some == MatchesIn(find, lines[n])
  <2>2. MatchesOf(some, find, lines[n])
    BY <1>5
  <2> HIDE DEF some
  <2>3. some \in Seq(Match) /\ DOMAIN some = 1..Len(some)
    BY <2>2 DEF MatchesOf
  <2>4. PICK k \in 1..Len(some) : m = some[k]
    BY <2>1, <2>3 DEF ToSet, some
  <2>5. lines[n] \in ToSet(lines)
    BY <1>4 DEF ToSet
  <2>6. m \in Match
    BY <2>3, <2>4
  <2>7. QED BY <2>2, <2>4, <2>5, <2>6 DEF MatchesOf
<1>7. ASSUME NEW k \in 1..Len(ms)
      PROVE  ms[k] \in ToSet(ms) /\ ms[k].stop = ms[k].start + q /\ ms[k].start \in Nat /\ ms[k].row \in Nat
             /\ ms[k].id \in Nat
  <2>1. ms[k] \in ToSet(ms)
    BY <1>4 DEF ToSet
  <2>2. QED BY <2>1, <1>4, <1>6 DEF Match
<1>8. ASSUME NEW i \in 1..Len(ms), NEW j \in 1..Len(ms), i < j
      PROVE  ms[i] # ms[j] /\ ms[i].id <= ms[j].id
  <2>1. Precedes(ms[i], ms[j])
    BY <1>2, <1>8
  <2>2. ms[i].id <= ms[j].id
    BY <2>1, <1>7 DEF Precedes, Above, SameLine
  <2>3. ASSUME ms[i] = ms[j] PROVE FALSE
    <3>1. Precedes(ms[i], ms[i])
      BY <2>1, <2>3
    <3>2. ~Above(ms[i], ms[i])
      BY <1>7 DEF Above
    <3>3. QED BY <3>1, <3>2, <1>0, <1>7 DEF Precedes
  <2>4. QED BY <2>2, <2>3
<1>9. ASSUME NEW line \in ToSet(lines), NEW i \in 0..Len(line.text),
             OccursAt(line.text, find.query, find.case, i), Includes(find.filter, line.kind)
      PROVE  \E m \in ToSet(ms) : SameLine(m, line) /\ m.start < i + q /\ i < m.stop
  <2>1. PICK n \in 1..Len(lines) : line = lines[n]
    BY <1>4 DEF ToSet
  <2> DEFINE some == MatchesIn(find, lines[n])
  <2>2. MatchesOf(some, find, lines[n])
    BY <1>5
  <2>3. \A m : m \in ToSet(some) => m \in ToSet(ms)
    BY <1>2
  <2> HIDE DEF some
  <2>4. some \in Seq(Match) /\ DOMAIN some = 1..Len(some)
    BY <2>2 DEF MatchesOf
  <2>5. PICK k \in 1..Len(some) : some[k].start < i + q /\ i < some[k].stop
    BY <1>9, <2>1, <2>2 DEF MatchesOf
  <2>6. some[k] \in ToSet(some) /\ SameLine(some[k], line)
    BY <2>1, <2>2, <2>4 DEF MatchesOf, ToSet
  <2>7. QED BY <2>3, <2>5, <2>6
<1>10. ASSUME NEW m \in ToSet(ms), NEW o \in ToSet(ms), m # o, SameLine(m, o)
       PROVE  o.stop <= m.start \/ m.stop <= o.start
  <2>1. PICK j \in 1..Len(ms) : m = ms[j]
    BY <1>4 DEF ToSet
  <2>2. PICK k \in 1..Len(ms) : o = ms[k]
    BY <1>4 DEF ToSet
  <2>3. ~Above(m, o) /\ ~Above(o, m)
    BY <1>10, <2>1, <2>2, <1>7 DEF Above, SameLine
  <2>4. CASE j < k
    BY <2>1, <2>2, <2>3, <2>4, <1>2 DEF Precedes
  <2>5. CASE k < j
    BY <2>1, <2>2, <2>3, <2>5, <1>2 DEF Precedes
  <2>6. j < k \/ k < j
    <3>1. j # k
      BY <1>10, <2>1, <2>2
    <3>2. QED BY <3>1, <1>4
  <2>7. QED BY <2>4, <2>5, <2>6
<1>11. \A i, j \in DOMAIN ms : i < j => ms[i] # ms[j] /\ ms[i].id <= ms[j].id
  BY <1>4, <1>8
<1>12. \A line \in ToSet(lines) :
         \A i \in 0..Len(line.text) :
           OccursAt(line.text, find.query, find.case, i) /\ Includes(find.filter, line.kind)
             => \E m \in ToSet(ms) : SameLine(m, line) /\ m.start < i + q /\ i < m.stop
  BY <1>9
<1>13. \A m \in ToSet(ms) :
         /\ \E line \in ToSet(lines) : /\ SameLine(m, line) /\ Includes(find.filter, line.kind)
                                       /\ OccursAt(line.text, find.query, find.case, m.start)
         /\ \A o \in ToSet(ms) \ {m} : SameLine(m, o) => o.stop <= m.start \/ m.stop <= o.start
  BY <1>6, <1>10
<1>14. QED BY <1>1, <1>11, <1>12, <1>13 DEF EveryOccurrenceIsShown, SameLine, lines

\* A walk through the history: where it stands, and what it left.
WalksFor(f, typed) ==
  /\ f.pos \in 0..Len(f.history)
  /\ f.pos # 0 => f.query = f.history[f.pos] /\ f.draft = typed

\* What the frame's mouse and fields do is done to an overlay, and leaves its
\* history and its walk alone.
LEMMA SteppedIs ==
  ASSUME NEW f \in FindOverlay, NEW step \in Int
  PROVE  /\ Stepped(f, step) \in FindOverlay
         /\ Stepped(f, step) = [f EXCEPT !.sel = Stepped(f, step).sel]
<1>1. f.matches \in Seq(Match) /\ f.sel \in Nat
  BY DEF FindOverlay
<1>2. CASE f.matches = <<>>
  <2>1. Stepped(f, step) = f
    BY <1>2 DEF Stepped
  <2>2. f = [f EXCEPT !.sel = f.sel]
    BY DEF FindOverlay
  <2>3. QED BY <2>1, <2>2
<1>3. CASE f.matches # <<>>
  <2>1. Len(f.matches) \in Nat /\ Len(f.matches) > 0
    BY <1>1, <1>3
  <2> DEFINE s == (f.sel + step) % Len(f.matches)
  <2>2. s \in Nat
    BY <1>1, <2>1
  <2>3. Stepped(f, step) = [f EXCEPT !.sel = s]
    BY <1>3 DEF Stepped
  <2> HIDE DEF s
  <2>4. [f EXCEPT !.sel = s] \in FindOverlay /\ [f EXCEPT !.sel = s].sel = s
    BY <2>2 DEF FindOverlay
  <2>5. QED BY <2>3, <2>4
<1>4. QED BY <1>2, <1>3

LEMMA EditedOverlay ==
  ASSUME NEW f \in FindOverlay, NEW query \in Seq(STRING), NEW click \in Clicks,
         NEW filter \in ToSet(Filters), NEW typed, WalksFor(f, typed)
  PROVE  LET g == Filtered(Clicked(Queried(f, query), click), filter)
         IN  g \in FindOverlay /\ g.history = f.history /\ WalksFor(g, typed)
<1> DEFINE a == Queried(f, query)
           b == Clicked(a, click)
           c == Filtered(b, filter)
<1>1. a \in FindOverlay /\ a.history = f.history /\ WalksFor(a, typed)
  <2>1. CASE query = f.query
    BY <2>1 DEF Queried
  <2>2. CASE query # f.query
    <3>1. a = [f EXCEPT !.query = query, !.pos = 0, !.bottom = TRUE]
      BY <2>2 DEF Queried
    <3> HIDE DEF a
    <3>2. a \in FindOverlay /\ a.history = f.history /\ a.pos = 0
      BY <3>1 DEF FindOverlay
    <3>3. Len(f.history) \in Nat
      BY DEF FindOverlay
    <3>4. QED BY <3>2, <3>3 DEF WalksFor
  <2>3. QED BY <2>1, <2>2
<1> HIDE DEF a
<1>2. b \in FindOverlay /\ b.history = f.history /\ WalksFor(b, typed)
  <2>1. CASE click = "case"
    <3>1. b = [a EXCEPT !.case = ~@, !.bottom = TRUE]
      BY <2>1 DEF Clicked
    <3> HIDE DEF b
    <3>2. b \in FindOverlay /\ b.history = a.history /\ b.pos = a.pos /\ b.query = a.query /\ b.draft = a.draft
      BY <1>1, <3>1 DEF FindOverlay
    <3>3. QED BY <1>1, <3>2 DEF WalksFor
  <2>2. CASE click = "regex"
    <3>1. b = [a EXCEPT !.regex = ~@, !.bottom = TRUE]
      BY <2>2 DEF Clicked
    <3> HIDE DEF b
    <3>2. b \in FindOverlay /\ b.history = a.history /\ b.pos = a.pos /\ b.query = a.query /\ b.draft = a.draft
      BY <1>1, <3>1 DEF FindOverlay
    <3>3. QED BY <1>1, <3>2 DEF WalksFor
  <2>3. CASE click \in {"prev", "next"}
    <3>1. PICK step \in Int : b = Stepped(a, step)
      BY <2>3 DEF Clicked
    <3>2. b \in FindOverlay /\ b = [a EXCEPT !.sel = b.sel]
      BY <1>1, <3>1, SteppedIs
    <3> HIDE DEF b
    <3>3. b.history = a.history /\ b.pos = a.pos /\ b.query = a.query /\ b.draft = a.draft
      BY <1>1, <3>2 DEF FindOverlay
    <3>4. QED BY <1>1, <3>2, <3>3 DEF WalksFor
  <2>4. CASE click \notin {"case", "regex", "prev", "next"}
    <3>1. b = a
      BY <2>4 DEF Clicked
    <3>2. QED BY <1>1, <3>1
  <2>5. QED BY <2>1, <2>2, <2>3, <2>4
<1> HIDE DEF b
<1>3. c \in FindOverlay /\ c.history = f.history /\ WalksFor(c, typed)
  <2>1. CASE filter = b.filter
    BY <1>2, <2>1 DEF Filtered
  <2>2. CASE filter # b.filter
    <3>1. c = [b EXCEPT !.filter = filter, !.bottom = TRUE]
      BY <2>2 DEF Filtered
    <3> HIDE DEF c
    <3>2. c \in FindOverlay /\ c.history = b.history /\ c.pos = b.pos /\ c.query = b.query /\ c.draft = b.draft
      BY <1>2, <3>1 DEF FindOverlay
    <3>3. QED BY <1>2, <3>2 DEF WalksFor
  <2>3. QED BY <2>1, <2>2
<1>4. QED BY <1>3 DEF a, b

\* What stands in the history is a query.
LEMMA HistoryHolds ==
  ASSUME NEW f \in FindOverlay, NEW i \in 1..Len(f.history)
  PROVE  f.history[i] \in Seq(STRING)
<1>1. f.history \in Seq(Seq(STRING))
  BY DEF FindOverlay
<1>2. QED BY <1>1

LEMMA PickedOverlay ==
  ASSUME NEW f \in FindOverlay, NEW i \in 1..Len(f.history), NEW typed
  PROVE  /\ PickHistory(f, i) \in FindOverlay /\ PickHistory(f, i).history = f.history
         /\ WalksFor(PickHistory(f, i), typed)
<1> DEFINE g == PickHistory(f, i)
<1>1. f.history[i] \in Seq(STRING)
  BY HistoryHolds
<1>2. g = [f EXCEPT !.query = f.history[i], !.pos = 0]
  BY DEF PickHistory
<1> HIDE DEF g
<1>3. g \in FindOverlay /\ g.history = f.history /\ g.pos = 0
  BY <1>1, <1>2 DEF FindOverlay
<1>4. Len(f.history) \in Nat
  BY DEF FindOverlay
<1>5. WalksFor(g, typed)
  BY <1>3, <1>4 DEF WalksFor
<1>6. QED BY <1>3, <1>5 DEF g

LEMMA StrippedType == ASSUME NEW row \in Seq(STRING) PROVE Stripped(row) \in Seq(STRING)
<1>1. ASSUME NEW s \in Seq(STRING) PROVE Reverse(s) \in Seq(STRING)
  <2>1. Len(s) \in Nat /\ \A i \in 1..Len(s) : (Len(s) - i) + 1 \in 1..Len(s)
    OBVIOUS
  <2>2. \A i \in 1..Len(s) : s[(Len(s) - i) + 1] \in STRING
    BY <2>1
  <2>3. QED BY <2>1, <2>2 DEF Reverse
<1>2. QED BY <1>1, TrimmedType DEF Stripped

LEMMA KeepNoLonger ==
  ASSUME NEW S, NEW s \in Seq(S), NEW places
  PROVE  Len(Keep(s, places)) <= Len(s)
<1> DEFINE T == {t \in Seq(S) : Len(Keep(t, places)) <= Len(t)}
<1>1. <<>> \in T
  BY KeepNone
<1>2. ASSUME NEW t \in T \cap Seq(S), NEW x \in S PROVE Append(t, x) \in T
  <2>1. Append(t, x) \in Seq(S) /\ Len(Append(t, x)) = Len(t) + 1
    OBVIOUS
  <2>2. Keep(t, places) \in Seq(S) /\ Len(Keep(t, places)) <= Len(t)
    BY KeepType
  <2>3. Keep(Append(t, x), places) \in {Append(Keep(t, places), x), Keep(t, places)}
    BY KeepAppend
  <2>4. Len(Keep(Append(t, x), places)) <= Len(t) + 1
    BY <2>2, <2>3
  <2>5. QED BY <2>1, <2>4
<1>3. Seq(S) \subseteq T
  <2> HIDE DEF T
  <2>1. QED BY <1>1, <1>2, SeqInduction
<1>4. QED BY <1>3

\* What is sent is a history, cut at its limit; a blank query changes nothing.
LEMMA SentType ==
  ASSUME NEW history \in RowTexts, NEW q \in Seq(STRING)
  PROVE  Sent(history, q) \in RowTexts /\ (q = <<>> => Sent(history, q) = history)
<1>1. history \in Seq(Seq(STRING)) /\ Len(history) \in Nat
  BY DEF RowTexts
<1>2. CASE q = <<>>
  BY <1>2 DEF Sent
<1>3. CASE q # <<>>
  <2> DEFINE rest == Keep(history, {i \in DOMAIN history : history[i] # q})
             all == <<q>> \o rest
             M == {HistoryCap, Len(rest) + 1}
  <2>1. rest \in Seq(Seq(STRING)) /\ Len(rest) \in Nat
    BY <1>1, KeepType
  <2>2. Sent(history, q) = SubSeq(all, 1, Min(M))
    BY <1>3 DEF Sent
  <2> HIDE DEF rest
  <2>3. Min(M) \in Nat /\ Min(M) <= Len(rest) + 1
    <3>1. M \in SUBSET Nat /\ M # {} /\ Len(rest) + 1 \in M
      BY <2>1 DEF HistoryCap
    <3> HIDE DEF M
    <3>2. QED BY <3>1, MinOf
  <2> HIDE DEF M
  <2>4. <<q>> \in Seq(Seq(STRING)) /\ Len(<<q>>) = 1
    OBVIOUS
  <2>5. all \in Seq(Seq(STRING)) /\ Len(all) = Len(rest) + 1
    BY <2>1, <2>4
  <2> HIDE DEF all
  <2>6. \A k \in 1..Min(M) : all[k] \in Seq(STRING)
    BY <2>1, <2>3, <2>5
  <2>7. SubSeq(all, 1, Min(M)) \in Seq(Seq(STRING))
    BY <2>3, <2>5, <2>6
  <2>8. QED BY <2>2, <2>7, <1>3 DEF RowTexts
<1>4. QED BY <1>2, <1>3

\* A query that is sent is in the history, which loses none below its limit.
LEMMA SentKeeps ==
  ASSUME NEW history \in RowTexts, NEW q \in Seq(STRING), Len(history) < HistoryCap
  PROVE  /\ Sent(history, q) \in RowTexts /\ Len(Sent(history, q)) <= Len(history) + 1
         /\ ToSet(history) \subseteq ToSet(Sent(history, q))
         /\ q # <<>> => q \in ToSet(Sent(history, q))
         /\ q = <<>> => Sent(history, q) = history
<1>1. history \in Seq(Seq(STRING)) /\ Len(history) \in Nat
  BY DEF RowTexts
<1>2. CASE q = <<>>
  <2>1. Sent(history, q) = history
    BY <1>2 DEF Sent
  <2>2. QED BY <2>1, <1>1, <1>2
<1>3. CASE q # <<>>
  <2> DEFINE places == {i \in DOMAIN history : history[i] # q}
             rest == Keep(history, places)
             all == <<q>> \o rest
             M == {HistoryCap, Len(rest) + 1}
  <2>1. rest \in Seq(Seq(STRING)) /\ Len(rest) <= Len(history) /\ Len(rest) \in Nat
    BY <1>1, KeepType, KeepNoLonger
  <2>2. Sent(history, q) = SubSeq(all, 1, Min(M))
    BY <1>3 DEF Sent
  <2>3. PICK from : KeptFrom(from, history, places)
    BY <1>1, KeepPlaces
  <2>4. \A n \in 1..Len(history) \cap places : \E k \in 1..Len(rest) : rest[k] = history[n]
    BY <2>3 DEF KeptFrom
  <2> HIDE DEF rest
  <2>5. Min(M) = Len(rest) + 1
    <3>1. M \in SUBSET Nat /\ M # {} /\ Len(rest) + 1 \in M /\ Len(rest) + 1 <= HistoryCap
          /\ \A k \in M : k = HistoryCap \/ k = Len(rest) + 1
      BY <2>1, <1>1 DEF HistoryCap
    <3> HIDE DEF M
    <3>2. Min(M) \in M /\ Min(M) <= Len(rest) + 1
      BY <3>1, MinOf
    <3>3. Min(M) = HistoryCap \/ Min(M) = Len(rest) + 1
      BY <3>1, <3>2
    <3>4. QED BY <3>1, <3>2, <3>3, <2>1 DEF HistoryCap
  <2> HIDE DEF M
  <2>6. <<q>> \in Seq(Seq(STRING)) /\ Len(<<q>>) = 1 /\ <<q>>[1] = q
    OBVIOUS
  <2>7. /\ all \in Seq(Seq(STRING)) /\ Len(all) = Len(rest) + 1
        /\ all[1] = q /\ \A k \in 1..Len(rest) : all[1 + k] = rest[k]
    BY <2>1, <2>6
  <2> HIDE DEF all
  <2>8. Sent(history, q) = all
    BY <2>1, <2>2, <2>5, <2>7
  <2>9. DOMAIN all = 1..Len(all)
    BY <2>7
  <2>10. q \in ToSet(all)
    <3>1. 1 \in DOMAIN all
      BY <2>1, <2>7, <2>9
    <3>2. QED BY <3>1, <2>7 DEF ToSet
  <2>11. ASSUME NEW x \in ToSet(history) PROVE x \in ToSet(all)
    <3>1. PICK n \in 1..Len(history) : x = history[n]
      BY <1>1 DEF ToSet
    <3>2. CASE x = q
      BY <3>2, <2>10
    <3>3. CASE x # q
      <4>1. n \in 1..Len(history) \cap places
        BY <3>1, <3>3, <1>1
      <4>2. PICK k \in 1..Len(rest) : rest[k] = x
        BY <4>1, <3>1, <2>4
      <4>3. 1 + k \in DOMAIN all /\ all[1 + k] = x
        BY <4>2, <2>1, <2>7, <2>9
      <4>4. QED BY <4>3 DEF ToSet
    <3>4. QED BY <3>2, <3>3
  <2>12. QED BY <2>1, <2>7, <2>8, <2>10, <2>11, <1>3 DEF RowTexts
<1>4. QED BY <1>2, <1>3

\* A key leaves the queries in the history, adds the one it sends, and walks on.
LEMMA KeyPressedIs ==
  ASSUME NEW f \in FindOverlay, NEW key \in Keys, NEW typed, WalksFor(f, typed)
  PROVE  LET g == KeyPressed(f, key)
             now == IF g.pos = 0 THEN g.query ELSE IF f.pos = 0 THEN f.query ELSE typed
         IN  /\ g \in FindOverlay /\ WalksFor(g, now)
             /\ key \notin {"enter", "shift_enter"} => g.history = f.history
             /\ key \in {"enter", "shift_enter"} => g.history = Sent(f.history, Stripped(f.query))
<1> DEFINE g == KeyPressed(f, key)
           now == IF g.pos = 0 THEN g.query ELSE IF f.pos = 0 THEN f.query ELSE typed
<1>0. /\ f.history \in Seq(Seq(STRING)) /\ f.query \in Seq(STRING) /\ f.draft \in Seq(STRING)
      /\ f.pos \in Nat /\ f.pos <= Len(f.history) /\ Len(f.history) \in Nat
  BY DEF FindOverlay, WalksFor
<1>1. CASE key \in {"enter", "shift_enter"}
  <2>1. PICK step \in Int : g = Committed(Stepped(f, step))
    <3>1. \E step \in Int : g = Committed(Stepped(f, step))
      BY <1>1 DEF KeyPressed
    <3>2. QED BY <3>1
  <2> DEFINE s == Stepped(f, step)
             sent == Sent(f.history, Stripped(f.query))
             at == IF Stripped(f.query) = <<>> THEN f.pos ELSE 0
  <2>2. s \in FindOverlay /\ s = [f EXCEPT !.sel = s.sel]
    BY SteppedIs
  <2> HIDE DEF s
  <2>3. s.query = f.query /\ s.history = f.history /\ s.pos = f.pos /\ s.draft = f.draft
    BY <2>2 DEF FindOverlay
  <2>4. g = [s EXCEPT !.history = sent, !.pos = at]
    BY <2>1, <2>2, <2>3 DEF Committed, FindOverlay, s
  <2>5. Stripped(f.query) \in Seq(STRING)
    BY <1>0, StrippedType
  <2>6. /\ sent \in Seq(Seq(STRING)) /\ Len(sent) \in Nat
        /\ Stripped(f.query) = <<>> => sent = f.history
    BY <1>0, <2>5, SentType DEF RowTexts
  <2> HIDE DEF sent, g
  <2>7. g \in FindOverlay /\ g.history = sent /\ g.pos = at /\ g.query = f.query /\ g.draft = f.draft
    BY <1>0, <2>2, <2>3, <2>4, <2>6 DEF FindOverlay
  <2>8. CASE Stripped(f.query) = <<>>
    <3>1. g.pos = f.pos /\ g.history = f.history
      BY <2>6, <2>7, <2>8
    <3>2. WalksFor(g, now)
      BY <1>0, <2>7, <3>1 DEF WalksFor
    <3>3. QED BY <1>1, <2>7, <3>2 DEF g, sent
  <2>9. CASE Stripped(f.query) # <<>>
    <3>1. WalksFor(g, now)
      BY <2>6, <2>7, <2>9 DEF WalksFor
    <3>2. QED BY <1>1, <2>7, <3>1 DEF g, sent
  <2>10. QED BY <2>8, <2>9
<1>2. CASE key = "up"
  <2>1. g = Older(f)
    BY <1>2 DEF KeyPressed
  <2>2. CASE f.history = <<>>
    <3>1. g = f /\ f.pos = 0
      BY <1>0, <2>1, <2>2 DEF Older
    <3>2. WalksFor(g, now)
      BY <3>1, <1>0 DEF WalksFor
    <3>3. QED BY <1>2, <3>1, <3>2
  <2>3. CASE f.history # <<>>
    <3> DEFINE M == {f.pos + 1, Len(f.history)}
               at == Min(M)
    <3>1. at \in 1..Len(f.history)
      <4>1. M \in SUBSET Nat /\ M # {} /\ Len(f.history) \in M /\ \A k \in M : k >= 1
        BY <1>0, <2>3
      <4> HIDE DEF M
      <4>2. Min(M) \in M /\ Min(M) <= Len(f.history)
        BY <4>1, MinOf
      <4>3. Min(M) \in Nat /\ Min(M) >= 1
        BY <4>1, <4>2
      <4>4. QED BY <4>2, <4>3, <1>0
    <3> DEFINE left == IF f.pos = 0 THEN f.query ELSE f.draft
               entry == f.history[at]
    <3>2. g = [f EXCEPT !.pos = at, !.query = entry, !.draft = left]
      BY <2>1, <2>3 DEF Older
    <3> HIDE DEF at, g
    <3>3. entry \in Seq(STRING) /\ left \in Seq(STRING) /\ at \in Nat
      <4>1. entry \in Seq(STRING)
        BY <3>1, HistoryHolds
      <4>2. left \in Seq(STRING) /\ at \in Nat
        BY <1>0, <3>1
      <4>3. QED BY <4>1, <4>2
    <3> HIDE DEF left, entry
    <3>4. /\ g \in FindOverlay /\ g.history = f.history /\ g.pos = at /\ g.query = entry
          /\ g.draft = left
      BY <3>2, <3>3 DEF FindOverlay
    <3>5. WalksFor(g, now)
      BY <1>0, <3>1, <3>4 DEF WalksFor, left, entry
    <3>6. QED BY <1>2, <3>4, <3>5 DEF g
  <2>4. QED BY <2>2, <2>3
<1>3. CASE key = "down"
  <2>1. g = Newer(f)
    BY <1>3 DEF KeyPressed
  <2>2. CASE f.pos = 0
    <3>1. g = f
      BY <2>1, <2>2 DEF Newer
    <3>2. WalksFor(g, now)
      BY <2>2, <3>1, <1>0 DEF WalksFor
    <3>3. QED BY <1>3, <3>1, <3>2
  <2>3. CASE f.pos = 1
    <3>1. g = [f EXCEPT !.pos = 0, !.query = f.draft]
      BY <2>1, <2>3 DEF Newer
    <3> HIDE DEF g
    <3>2. g \in FindOverlay /\ g.history = f.history /\ g.pos = 0
      BY <1>0, <3>1 DEF FindOverlay
    <3>3. WalksFor(g, now)
      BY <1>0, <3>2 DEF WalksFor
    <3>4. QED BY <1>3, <3>2, <3>3 DEF g
  <2>4. CASE f.pos > 1
    <3>1. g = [f EXCEPT !.pos = f.pos - 1, !.query = f.history[f.pos - 1]]
      BY <1>0, <2>1, <2>4 DEF Newer
    <3>2. f.pos - 1 \in 1..Len(f.history)
      BY <1>0, <2>4
    <3>3. f.history[f.pos - 1] \in Seq(STRING)
      BY <3>2, HistoryHolds
    <3> DEFINE at == f.pos - 1
               entry == f.history[at]
    <3>4. at \in Nat /\ entry \in Seq(STRING) /\ g = [f EXCEPT !.pos = at, !.query = entry]
      BY <1>0, <3>1, <3>2, <3>3
    <3> HIDE DEF g, at, entry
    <3>5. g \in FindOverlay /\ g.history = f.history /\ g.pos = at /\ g.query = entry /\ g.draft = f.draft
      BY <3>4 DEF FindOverlay
    <3>6. WalksFor(g, now)
      BY <1>0, <2>4, <3>2, <3>5 DEF WalksFor, at, entry
    <3>7. QED BY <1>3, <3>5, <3>6 DEF g
  <2>5. QED BY <1>0, <2>2, <2>3, <2>4
<1>4. CASE key \notin {"enter", "shift_enter", "up", "down"}
  <2>1. g = f
    BY <1>4 DEF KeyPressed
  <2>2. WalksFor(g, now)
    BY <2>1 DEF WalksFor
  <2>3. QED BY <1>4, <2>1, <2>2
<1>5. QED BY <1>1, <1>2, <1>3, <1>4

\* What is assumed for the queries: no more than the history holds, and the overlay
\* is not opened over itself.
QueriesFit == Len(FindPast) + MaxAsks <= HistoryCap /\ "reopen" \notin FindMoves

\* The walk that is under way, the match that holds, the history that counts, and
\* what it remembers.
OnItsWalk == find.open => WalksFor(find, asks.live)
History == IF find.open THEN find.history ELSE findHistory
Remembers ==
  /\ Len(History) <= Len(FindPast) + asks.n
  /\ asks.sent \subseteq ToSet(History)
Now(f) == MatchesAmong(LinesOf(sealed), f)
MatchHeld ==
  shown.untouched /\ shown.match # <<>> /\ find.open =>
    /\ ~find.bottom /\ find.query # <<>> /\ ~BadRegex(find)
    /\ find.sel < Len(Now(find)) /\ shown.match = <<Now(find)[find.sel + 1]>>
FindInv == FindTypeOK /\ OnItsWalk /\ MatchHeld

LEMMA MatchesAreNow == ASSUME NEW f PROVE Matches(f) = Now(f)
BY DEF Matches, Now, MatchesAmong, LinesOf, SearchableLines

LEMMA BlocksAreSealed == ASSUME FindTypeOK PROVE SealedOK /\ sealed \in Seq(Blocks)
<1>1. FindBlocks \subseteq Blocks
  BY FindAssumption DEF Blocks, RowTexts
<1> DEFINE B == FindBlocks
<1>2. sealed \in Seq(B)
  BY DEF FindTypeOK
<1> HIDE DEF B
<1>3. \A b \in B : b \in Blocks
  BY <1>1 DEF B
<1>4. sealed \in Seq(Blocks)
  BY <1>2, <1>3
<1>5. QED BY <1>4 DEF SealedOK, Blocks

LEMMA OpenIs == ASSUME FindTypeOK PROVE (find.open <=> find \in FindOverlay) /\ find.open \in BOOLEAN
<1>1. CASE find = Closed
  <2>1. find.open = FALSE
    BY <1>1 DEF Closed
  <2>2. find \notin FindOverlay
    BY <2>1 DEF FindOverlay
  <2>3. QED BY <2>1, <2>2
<1>2. CASE find \in FindOverlay
  <2>1. find.open = TRUE
    BY <1>2 DEF FindOverlay
  <2>2. QED BY <1>2, <2>1
<1>3. QED BY <1>1, <1>2 DEF FindTypeOK

\* A recomputed overlay asks what it asked; its bright match, if it has one, is the
\* selected one of all there are; and one that held holds.
LEMMA RecomputedIs ==
  ASSUME SealedOK, find \in FindOverlay
  PROVE  LET g == Recomputed(find)
         IN  /\ g \in FindOverlay
             /\ g.history = find.history /\ g.pos = find.pos /\ g.query = find.query
             /\ g.draft = find.draft
             /\ Current(g) \in Seq(Match)
             /\ Current(g) # <<>> => /\ ~g.bottom /\ g.query # <<>> /\ ~BadRegex(g)
                                     /\ g.sel < Len(Now(g)) /\ Current(g) = <<Now(g)[g.sel + 1]>>
             /\ /\ ~find.bottom /\ find.query # <<>> /\ ~BadRegex(find)
                /\ find.sel < Len(Now(find))
                => Current(g) = <<Now(find)[find.sel + 1]>>
<1> DEFINE g == Recomputed(find)
           ms == Matches(find)
<1>0. find.query \in Seq(STRING) /\ find.sel \in Nat /\ find.regex \in BOOLEAN /\ find.bottom \in BOOLEAN
  BY DEF FindOverlay
<1>1. CASE find.query = <<>> \/ BadRegex(find)
  <2>1. g = [find EXCEPT !.matches = <<>>, !.sel = 0]
    BY <1>1 DEF Recomputed
  <2> DEFINE none == <<>>
  <2>0. none \in Seq(Match)
    OBVIOUS
  <2> HIDE DEF g
  <2>2. /\ g \in FindOverlay /\ g.matches = <<>>
        /\ g.history = find.history /\ g.pos = find.pos /\ g.query = find.query /\ g.draft = find.draft
    <3>1. g = [find EXCEPT !.matches = none, !.sel = 0]
      BY <2>1
    <3>2. none = <<>>
      OBVIOUS
    <3> HIDE DEF none
    <3>3. /\ g \in FindOverlay /\ g.matches = none
          /\ g.history = find.history /\ g.pos = find.pos /\ g.query = find.query /\ g.draft = find.draft
      BY <2>0, <3>1 DEF FindOverlay
    <3>4. QED BY <3>2, <3>3
  <2>3. Current(g) = <<>>
    <3>1. g.sel \in Nat /\ Len(g.matches) = 0
      BY <2>2 DEF FindOverlay
    <3>2. QED BY <3>1 DEF Current
  <2>4. QED BY <1>1, <2>2, <2>3 DEF g
<1>2. CASE find.query # <<>> /\ ~BadRegex(find)
  <2>1. ms \in Seq(Match)
    BY <1>0, <1>2, MatchesAre
  <2>2. ms = Now(find)
    BY MatchesAreNow
  <2> HIDE DEF ms
  <2> DEFINE M == {Len(ms) - 1, 0}
             last == Max(M)
             sel == IF find.bottom THEN last ELSE Min({find.sel, last})
  <2>3. last \in Nat /\ (Len(ms) > 0 => last = Len(ms) - 1)
    <3>1. CASE Len(ms) > 0
      <4>1. M \in SUBSET Nat /\ M # {} /\ Len(ms) - 1 \in M /\ \A k \in M : k <= Len(ms)
        BY <2>1, <3>1
      <4> HIDE DEF M
      <4>2. Max(M) \in M /\ \A k \in M : k <= Max(M)
        <5>1. Len(ms) \in Nat
          BY <2>1
        <5>2. QED BY <4>1, <5>1, MaxOf
      <4>3. Max(M) = Len(ms) - 1 \/ Max(M) = 0
        BY <4>2 DEF M
      <4>4. QED BY <2>1, <3>1, <4>1, <4>2, <4>3
    <3>2. CASE Len(ms) = 0
      <4>1. Max(M) \in M /\ \A k \in M : Max(M) >= k
        <5>1. 0 \in M /\ \A k \in M : 0 >= k
          BY <3>2
        <5> HIDE DEF M
        <5>2. QED BY <5>1 DEF Max
      <4>2. last = -1 \/ last = 0
        BY <3>2, <4>1
      <4>3. last >= 0
        BY <4>1
      <4>4. QED BY <3>2, <4>2, <4>3
    <3>3. QED BY <2>1, <3>1, <3>2
  <2> HIDE DEF last
  <2>4. sel \in Nat /\ sel <= last /\ (~find.bottom /\ find.sel <= last => sel = find.sel)
    <3> DEFINE T == {find.sel, last}
    <3>1. T \in SUBSET Nat /\ T # {} /\ last \in T /\ find.sel \in T
      BY <1>0, <2>3
    <3> HIDE DEF T
    <3>2. Min(T) \in T /\ \A k \in T : Min(T) <= k
      BY <3>1, MinOf
    <3>3. Min(T) = find.sel \/ Min(T) = last
      BY <3>2 DEF T
    <3>4. Min(T) \in Nat /\ Min(T) <= last /\ (find.sel <= last => Min(T) = find.sel)
      BY <1>0, <2>3, <3>1, <3>2, <3>3
    <3>5. QED BY <2>3, <3>4 DEF T
  <2>5. g = [find EXCEPT !.matches = ms, !.bottom = FALSE, !.sel = sel]
    BY <1>2 DEF Recomputed, last, ms
  <2> HIDE DEF g, sel
  <2>6. /\ g \in FindOverlay /\ g.matches = ms /\ g.bottom = FALSE /\ g.sel = sel /\ g.open = TRUE
        /\ g.history = find.history /\ g.pos = find.pos /\ g.query = find.query
        /\ g.draft = find.draft /\ g.case = find.case /\ g.regex = find.regex /\ g.filter = find.filter
    BY <2>1, <2>4, <2>5 DEF FindOverlay
  <2>7. Now(g) = ms /\ ~BadRegex(g)
    <3>1. \A line : MatchesIn(g, line) = MatchesIn(find, line)
      BY <2>6 DEF MatchesIn
    <3>2. Now(g) = Now(find)
      BY <3>1 DEF Now, MatchesAmong
    <3>3. QED BY <3>2, <2>2, <2>6, <1>2 DEF BadRegex
  <2>8. Current(g) = IF sel < Len(ms) THEN <<ms[sel + 1]>> ELSE <<>>
    BY <2>6 DEF Current
  <2>9. Current(g) \in Seq(Match)
    <3>1. CASE sel < Len(ms)
      <4>1. ms[sel + 1] \in Match
        <5>1. sel + 1 \in 1..Len(ms)
          BY <2>1, <2>4, <3>1
        <5>2. QED BY <2>1, <5>1
      <4>2. QED BY <2>8, <3>1, <4>1
    <3>2. CASE ~(sel < Len(ms))
      BY <2>8, <3>2
    <3>3. QED BY <3>1, <3>2
  <2>10. Current(g) # <<>> => sel < Len(ms) /\ Current(g) = <<ms[sel + 1]>>
    BY <2>8
  <2>11. ~find.bottom /\ find.sel < Len(ms) => Current(g) = <<ms[find.sel + 1]>>
    <3>1. SUFFICES ASSUME ~find.bottom, find.sel < Len(ms) PROVE Current(g) = <<ms[find.sel + 1]>>
      OBVIOUS
    <3>2. find.sel <= last
      BY <1>0, <2>1, <2>3, <3>1
    <3>3. QED BY <2>4, <2>8, <3>1, <3>2
  <2>12. QED BY <1>2, <2>2, <2>6, <2>7, <2>9, <2>10, <2>11 DEF g
<1>3. QED BY <1>1, <1>2

\* A frame, whatever the user does in it.
Counted(query, click, filter, pick, key) ==
  (IF query # find.query THEN 1 ELSE 0) + (IF click # "none" THEN 1 ELSE 0)
  + (IF filter # find.filter THEN 1 ELSE 0) + (IF pick # 0 THEN 1 ELSE 0)
  + (IF key # "none" THEN 1 ELSE 0)

LEMMA FindFrameKeeps ==
  ASSUME FindInv, find.open, UNCHANGED <<sealed, alt>>,
         NEW query \in Seq(STRING), NEW click \in Clicks, NEW filter \in ToSet(Filters),
         NEW pick \in {0} \cup 1..Len(find.history), NEW key \in Keys,
         Asks(Counted(query, click, filter, pick, key)), Frame(query, click, filter, pick, key)
  PROVE  FindInv' /\ (QueriesFit /\ Remembers => Remembers')
<1> DEFINE f0 == IF alt THEN find ELSE Recomputed(find)
           f1 == Filtered(Clicked(Queried(f0, query), click), filter)
           f2 == IF pick = 0 THEN f1 ELSE PickHistory(f1, pick)
           f3 == KeyPressed(f2, key)
           n == Counted(query, click, filter, pick, key)
           sends == key \in {"enter", "shift_enter"}
           now == IF f3.pos = 0 THEN f3.query ELSE IF f2.pos = 0 THEN f2.query ELSE asks.live
           sent == IF sends /\ Stripped(f2.query) # <<>>
                     THEN asks.sent \cup {Stripped(f2.query)} ELSE asks.sent
<1>1. /\ IF click = "close" \/ key = "escape"
           THEN find' = Closed /\ findHistory' = f3.history
           ELSE find' = f3 /\ UNCHANGED findHistory
      /\ shown' = [match |-> IF alt THEN shown.match ELSE Current(f0),
                   untouched |-> f3 = f0 /\ (alt => shown.untouched)]
      /\ asks' = [n |-> asks.n + n, live |-> now, sent |-> sent]
  <2>1. asks.n + n = asks.n + (IF query # find.query THEN 1 ELSE 0)
                        + (IF click # "none" THEN 1 ELSE 0) + (IF filter # find.filter THEN 1 ELSE 0)
                        + (IF pick # 0 THEN 1 ELSE 0) + (IF key # "none" THEN 1 ELSE 0)
    BY DEF Counted, FindInv, FindTypeOK
  <2>2. QED BY <2>1 DEF Frame
<1>2. /\ find \in FindOverlay /\ SealedOK /\ sealed \in Seq(Blocks) /\ asks.n \in 0..MaxAsks
      /\ asks.sent \in SUBSET Seq(STRING)
      /\ shown.match \in Seq(Match) /\ shown.untouched \in BOOLEAN
      /\ MaxAsks \in Nat /\ WalksFor(find, asks.live)
      /\ Remembers => /\ Len(find.history) <= Len(FindPast) + asks.n
                      /\ asks.sent \subseteq ToSet(find.history)
  BY OpenIs, BlocksAreSealed, FindAssumption DEF FindInv, FindTypeOK, OnItsWalk, Remembers, History
<1>3. n \in Nat /\ asks.n + n <= MaxAsks /\ (sends => n >= 1)
  <2>1. n \in Nat /\ (sends => n >= 1)
    BY DEF Counted
  <2> HIDE DEF n
  <2>2. QED BY <2>1 DEF Asks, n
<1> HIDE DEF n
<1>4. f0 \in FindOverlay /\ f0.history = find.history /\ WalksFor(f0, asks.live)
  <2>1. CASE alt
    BY <2>1, <1>2
  <2>2. CASE ~alt
    <3>1. /\ f0 \in FindOverlay /\ f0.history = find.history /\ f0.pos = find.pos
          /\ f0.query = find.query /\ f0.draft = find.draft
      BY <2>2, <1>2, RecomputedIs
    <3> HIDE DEF f0
    <3>2. QED BY <3>1, <1>2 DEF WalksFor
  <2>3. QED BY <2>1, <2>2
<1>5. Current(f0) \in Seq(Match) \/ alt
  BY <1>2, RecomputedIs
<1> HIDE DEF f0
<1>6. f1 \in FindOverlay /\ f1.history = find.history /\ WalksFor(f1, asks.live)
  BY <1>4, EditedOverlay
<1> HIDE DEF f1
<1>7. f2 \in FindOverlay /\ f2.history = find.history /\ WalksFor(f2, asks.live)
  <2>1. CASE pick = 0
    BY <2>1, <1>6
  <2>2. CASE pick # 0
    <3>1. pick \in 1..Len(f1.history)
      BY <2>2, <1>6
    <3>2. QED BY <2>2, <3>1, <1>6, PickedOverlay
  <2>3. QED BY <2>1, <2>2
<1> HIDE DEF f2
<1>8. /\ f2.history \in RowTexts /\ f2.query \in Seq(STRING) /\ Stripped(f2.query) \in Seq(STRING)
      /\ FindPast \in Seq(Seq(STRING)) /\ Len(FindPast) \in Nat /\ Len(f2.history) \in Nat
  <2>1. f2.history \in RowTexts /\ f2.query \in Seq(STRING)
    BY <1>7 DEF FindOverlay, RowTexts
  <2>2. Stripped(f2.query) \in Seq(STRING)
    BY <2>1, StrippedType
  <2>3. FindPast \in Seq(Seq(STRING))
    BY FindAssumption
  <2>4. QED BY <2>1, <2>2, <2>3 DEF RowTexts
<1>9. QueriesFit /\ Remembers /\ sends => Len(f2.history) < HistoryCap
  BY <1>2, <1>3, <1>7, <1>8 DEF QueriesFit, HistoryCap
<1>10. /\ f3 \in FindOverlay /\ WalksFor(f3, now)
       /\ ~sends => f3.history = f2.history
       /\ sends => f3.history = Sent(f2.history, Stripped(f2.query))
  BY <1>7, KeyPressedIs
<1> HIDE DEF f3
<1>11. f3.history \in RowTexts /\ f3.query \in Seq(STRING) /\ Len(f3.history) \in Nat
  <2>1. f3.history \in RowTexts /\ f3.query \in Seq(STRING)
    BY <1>10 DEF FindOverlay, RowTexts
  <2>2. Len(f3.history) \in Nat
    BY <2>1 DEF RowTexts
  <2>3. QED BY <2>1, <2>2
<1>12. ASSUME QueriesFit, Remembers
       PROVE  /\ Len(f3.history) <= Len(FindPast) + asks.n + n
              /\ sent \subseteq ToSet(f3.history)
  <2>1. CASE sends
    <3>1. /\ Len(f3.history) <= Len(f2.history) + 1 /\ ToSet(f2.history) \subseteq ToSet(f3.history)
          /\ (Stripped(f2.query) # <<>> => Stripped(f2.query) \in ToSet(f3.history))
      BY <2>1, <1>8, <1>9, <1>10, <1>12, SentKeeps
    <3>2. Len(f3.history) <= Len(FindPast) + asks.n + n
      <4>1. Len(f2.history) <= Len(FindPast) + asks.n
        BY <1>2, <1>7, <1>12
      <4>2. asks.n \in Nat /\ n \in Nat /\ n >= 1
        BY <2>1, <1>2, <1>3
      <4>3. QED BY <4>1, <4>2, <3>1, <1>8, <1>11
    <3>3. sent \subseteq ToSet(f3.history)
      BY <3>1, <1>2, <1>7, <1>12
    <3>4. QED BY <3>2, <3>3
  <2>2. CASE ~sends
    <3>1. f3.history = find.history /\ sent = asks.sent
      BY <2>2, <1>7, <1>10
    <3>2. Len(f3.history) <= Len(FindPast) + asks.n /\ sent \subseteq ToSet(f3.history)
      BY <3>1, <1>2, <1>12
    <3>3. asks.n \in Nat /\ n \in Nat
      BY <1>2, <1>3
    <3>4. QED BY <3>2, <3>3, <1>8, <1>11
  <2>3. QED BY <2>1, <2>2
<1>13. now \in Seq(STRING)
  <2>1. asks.live \in Seq(STRING)
    BY DEF FindInv, FindTypeOK
  <2>2. QED BY <2>1, <1>8, <1>11
<1>14. sent \in SUBSET Seq(STRING)
  BY <1>2, <1>8
<1> HIDE DEF now, sent
<1>15. FindTypeOK'
  <2>1. sealed' \in Seq(FindBlocks) /\ alt' \in BOOLEAN
    BY DEF FindInv, FindTypeOK
  <2>2. findHistory' \in Seq(Seq(STRING)) /\ (find' = Closed \/ find' \in FindOverlay)
    BY <1>1, <1>10, <1>11 DEF FindInv, FindTypeOK, RowTexts
  <2>3. shown' \in [match : Seq(Match), untouched : BOOLEAN]
    BY <1>1, <1>2, <1>5
  <2>4. asks' \in [n : 0..MaxAsks, live : Seq(STRING), sent : SUBSET Seq(STRING)]
    <3>1. asks.n + n \in 0..MaxAsks
      BY <1>2, <1>3
    <3>2. QED BY <3>1, <1>1, <1>13, <1>14
  <2>5. QED BY <2>1, <2>2, <2>3, <2>4 DEF FindTypeOK
<1>16. History' = f3.history /\ (find'.open => find' = f3)
  <2>1. CASE click = "close" \/ key = "escape"
    <3>1. find'.open = FALSE
      BY <2>1, <1>1 DEF Closed
    <3>2. QED BY <2>1, <3>1, <1>1 DEF History
  <2>2. CASE ~(click = "close" \/ key = "escape")
    <3>1. find' = f3 /\ find'.open = TRUE
      BY <2>2, <1>1, <1>10 DEF FindOverlay
    <3>2. QED BY <3>1 DEF History
  <2>3. QED BY <2>1, <2>2
<1>17. OnItsWalk'
  BY <1>1, <1>10, <1>16 DEF OnItsWalk
<1>18. ASSUME QueriesFit, Remembers PROVE Remembers'
  <2>1. asks'.n = asks.n + n /\ asks'.sent = sent
    BY <1>1
  <2>2. Len(History') <= Len(FindPast) + asks'.n
    BY <2>1, <1>2, <1>3, <1>8, <1>11, <1>16, <1>12, <1>18
  <2>3. asks'.sent \subseteq ToSet(History')
    BY <2>1, <1>16, <1>12, <1>18
  <2>4. QED BY <2>2, <2>3 DEF Remembers
<1>19. MatchHeld'
  <2>1. SUFFICES ASSUME shown'.untouched, shown'.match # <<>>, find'.open
                 PROVE  /\ ~find'.bottom /\ find'.query # <<>> /\ ~BadRegex(find')
                        /\ find'.sel < Len(Now(find)')
                        /\ shown'.match = <<Now(find)'[find'.sel + 1]>>
    BY DEF MatchHeld, BadRegex
  <2>2. f3 = f0 /\ (alt => shown.untouched)
        /\ shown'.match = IF alt THEN shown.match ELSE Current(f0)
    BY <2>1, <1>1
  <2>3. find' = f0
    <3>1. find' # Closed
      BY <2>1 DEF Closed
    <3>2. QED BY <3>1, <2>2, <1>1
  <2>4. Now(find)' = Now(f0)
    BY <2>3 DEF Now
  <2>5. CASE alt
    <3>1. f0 = find
      BY <2>5 DEF f0
    <3>2. shown.untouched /\ shown.match # <<>> /\ shown'.match = shown.match
      BY <2>1, <2>2, <2>5
    <3>3. MatchHeld
      BY DEF FindInv
    <3>4. QED BY <3>1, <3>2, <3>3, <2>3, <2>4 DEF MatchHeld
  <2>6. CASE ~alt
    <3>1. Current(f0) # <<>> /\ shown'.match = Current(f0)
      BY <2>1, <2>2, <2>6
    <3>2. f0 = Recomputed(find)
      BY <2>6 DEF f0
    <3>3. /\ ~f0.bottom /\ f0.query # <<>> /\ ~BadRegex(f0)
          /\ f0.sel < Len(Now(f0)) /\ Current(f0) = <<Now(f0)[f0.sel + 1]>>
      BY <3>1, <3>2, <1>2, RecomputedIs
    <3>4. QED BY <3>1, <3>3, <2>3, <2>4
  <2>7. QED BY <2>5, <2>6
<1>20. QED BY <1>15, <1>19, <1>17, <1>18 DEF FindInv

LEMMA FindFrameStep ==
  ASSUME FindInv, FindFrame
  PROVE  FindInv' /\ (QueriesFit /\ Remembers => Remembers')
<1>0. find.open /\ UNCHANGED <<sealed, alt>> /\ find \in FindOverlay /\ asks.n \in Nat /\ MaxAsks \in Nat
  BY OpenIs, FindAssumption DEF FindFrame, FindInv, FindTypeOK
<1>1. /\ find.query \in Seq(STRING) /\ find.filter \in ToSet(Filters)
      /\ DOMAIN find.history = 1..Len(find.history)
  <2>1. find.history \in Seq(Seq(STRING))
    BY <1>0 DEF FindOverlay
  <2>2. QED BY <2>1, <1>0 DEF FindOverlay
<1>2. ASSUME NEW query \in (IF Asks(1) THEN FindQueries ELSE {find.query}), NEW key \in Keys,
             Asks(IF query # find.query /\ key # "none" THEN 2 ELSE IF key # "none" THEN 1 ELSE 0),
             Frame(query, "none", find.filter, 0, key)
      PROVE  FindInv' /\ (QueriesFit /\ Remembers => Remembers')
  <2>1. query \in Seq(STRING)
    BY <1>1, FindAssumption
  <2>2. Asks(Counted(query, "none", find.filter, 0, key))
    BY <1>0, <1>2 DEF Asks, Counted
  <2>3. "none" \in Clicks
    BY DEF Clicks
  <2>4. QED BY <1>0, <1>1, <1>2, <2>1, <2>2, <2>3, FindFrameKeeps
<1>3. ASSUME NEW click \in Clicks \ {"none"}, Asks(1),
             Frame(find.query, click, find.filter, 0, "none")
      PROVE  FindInv' /\ (QueriesFit /\ Remembers => Remembers')
  <2>1. Asks(Counted(find.query, click, find.filter, 0, "none")) /\ "none" \in Keys
    BY <1>3 DEF Counted, Keys
  <2>2. QED BY <1>0, <1>1, <1>3, <2>1, FindFrameKeeps
<1>4. ASSUME NEW filter \in ToSet(Filters), Asks(1),
             Frame(find.query, "none", filter, 0, "none")
      PROVE  FindInv' /\ (QueriesFit /\ Remembers => Remembers')
  <2>1. Asks(Counted(find.query, "none", filter, 0, "none")) /\ "none" \in Keys /\ "none" \in Clicks
    BY <1>0, <1>4 DEF Counted, Keys, Clicks, Asks
  <2>2. QED BY <1>0, <1>1, <1>4, <2>1, FindFrameKeeps
<1>5. ASSUME NEW pick \in DOMAIN find.history, Asks(1),
             Frame(find.query, "none", find.filter, pick, "none")
      PROVE  FindInv' /\ (QueriesFit /\ Remembers => Remembers')
  <2>1. Asks(Counted(find.query, "none", find.filter, pick, "none")) /\ "none" \in Keys /\ "none" \in Clicks
    BY <1>0, <1>5 DEF Counted, Keys, Clicks, Asks
  <2>2. pick \in {0} \cup 1..Len(find.history)
    BY <1>1
  <2>3. QED BY <1>0, <1>1, <1>5, <2>1, <2>2, FindFrameKeeps
<1>6. QED BY <1>2, <1>3, <1>4, <1>5 DEF FindFrame

LEMMA SealKeeps == ASSUME FindInv, Seal PROVE FindInv' /\ (Remembers => Remembers')
<1>1. PICK b \in FindBlocks : sealed' = Append(sealed, b)
  BY DEF Seal
<1>2. UNCHANGED <<find, findHistory, alt, shown, asks>>
  BY DEF Seal
<1>3. sealed \in Seq(FindBlocks) /\ sealed \in Seq(Blocks) /\ b \in Blocks
  BY BlocksAreSealed, FindAssumption DEF FindInv, FindTypeOK, Blocks, RowTexts
<1>4. FindTypeOK'
  <2> DEFINE B == FindBlocks
  <2>1. sealed' \in Seq(B)
    BY <1>1, <1>3
  <2>2. QED BY <2>1, <1>2 DEF FindInv, FindTypeOK
<1>5. OnItsWalk' /\ (Remembers => Remembers')
  BY <1>2 DEF FindInv, OnItsWalk, Remembers, History
<1>6. MatchHeld'
  <2>1. SUFFICES ASSUME shown.untouched, shown.match # <<>>, find.open PROVE MatchHeld'
    BY <1>2 DEF MatchHeld
  <2>2. /\ ~find.bottom /\ find.query # <<>> /\ ~BadRegex(find)
        /\ find.sel < Len(Now(find)) /\ shown.match = <<Now(find)[find.sel + 1]>>
    BY <2>1 DEF FindInv, MatchHeld
  <2>3. find \in FindOverlay /\ find.query \in Seq(STRING) /\ find.sel \in Nat
    BY <2>1, OpenIs DEF FindInv, FindOverlay
  <2>4. /\ MatchesAmong(LinesOf(Append(sealed, b)), find) \in Seq(Match)
        /\ StartsWith(MatchesAmong(LinesOf(Append(sealed, b)), find), MatchesAmong(LinesOf(sealed), find))
    BY <1>3, <2>2, <2>3, SealAddsMatches
  <2>5. Now(find)' = MatchesAmong(LinesOf(Append(sealed, b)), find)
    BY <1>1, <1>2 DEF Now
  <2>6. Now(find) \in Seq(Match)
    <3>1. SealedOK
      BY BlocksAreSealed DEF FindInv
    <3>2. QED BY <3>1, <2>2, <2>3, MatchesAre, MatchesAreNow
  <2>7. Now(find)' \in Seq(Match) /\ StartsWith(Now(find)', Now(find))
    BY <2>4, <2>5 DEF Now
  <2> DEFINE old == Now(find)
             new == Now(find)'
  <2>8. /\ old \in Seq(Match) /\ new \in Seq(Match) /\ StartsWith(new, old)
        /\ find.sel < Len(old) /\ shown.match = <<old[find.sel + 1]>>
    BY <2>2, <2>6, <2>7
  <2>9. find.sel < Len(new) /\ shown.match = <<new[find.sel + 1]>>
    <3> HIDE DEF old, new
    <3>1. find.sel + 1 \in 1..Len(old) /\ Len(old) \in Nat /\ Len(new) \in Nat
      BY <2>3, <2>8
    <3>2. Len(old) <= Len(new) /\ old[find.sel + 1] = new[find.sel + 1]
      BY <2>8, <3>1 DEF StartsWith
    <3>3. QED BY <2>3, <2>8, <3>1, <3>2
  <2>10. QED BY <1>2, <2>2, <2>9 DEF MatchHeld, BadRegex
<1>7. QED BY <1>4, <1>5, <1>6 DEF FindInv

LEMMA PopupsKeep ==
  ASSUME FindInv, OpenFind \/ OtherPopup \/ AltFlips
  PROVE  FindInv' /\ (QueriesFit /\ Remembers => Remembers')
<1>0. /\ asks.n \in 0..MaxAsks /\ asks.live \in Seq(STRING) /\ asks.sent \in SUBSET Seq(STRING)
      /\ asks \in [n : 0..MaxAsks, live : Seq(STRING), sent : SUBSET Seq(STRING)]
      /\ shown \in [match : Seq(Match), untouched : BOOLEAN]
      /\ MaxAsks \in Nat /\ findHistory \in Seq(Seq(STRING)) /\ Len(findHistory) \in Nat
      /\ FindPast \in Seq(Seq(STRING)) /\ Len(FindPast) \in Nat
  BY FindAssumption DEF FindInv, FindTypeOK
<1>1. CASE OpenFind
  <2>1. /\ find' = Opened(findHistory) /\ asks' = [asks EXCEPT !.n = @ + 1, !.live = <<>>]
        /\ shown' = [shown EXCEPT !.untouched = FALSE] /\ UNCHANGED <<sealed, findHistory, alt>>
        /\ (QueriesFit => ~find.open) /\ asks.n + 1 <= MaxAsks
    BY <1>1 DEF OpenFind, QueriesFit, Asks
  <2> DEFINE empty == <<>>
  <2>2. empty \in Seq(STRING) /\ empty \in Seq(Match)
    OBVIOUS
  <2>3. find' \in FindOverlay /\ find'.history = findHistory /\ find'.pos = 0 /\ find'.open
    <3>1. find' = [open |-> TRUE, query |-> empty, case |-> FALSE, regex |-> FALSE,
                   filter |-> "both", matches |-> empty, sel |-> 0, history |-> findHistory,
                   pos |-> 0, draft |-> empty, bottom |-> TRUE]
      BY <2>1 DEF Opened
    <3>2. "both" \in ToSet(Filters)
      <4>1. 1 \in DOMAIN Filters /\ Filters[1] = "both"
        BY DEF Filters
      <4>2. QED BY <4>1 DEF ToSet
    <3> HIDE DEF empty
    <3>3. QED BY <1>0, <2>2, <3>1, <3>2 DEF FindOverlay
  <2>4. /\ asks' \in [n : 0..MaxAsks, live : Seq(STRING), sent : SUBSET Seq(STRING)]
        /\ asks'.n = asks.n + 1 /\ asks'.sent = asks.sent
    <3>1. asks' = [asks EXCEPT !.n = @ + 1, !.live = empty] /\ asks.n + 1 \in 0..MaxAsks
      BY <1>0, <2>1
    <3> HIDE DEF empty
    <3>2. QED BY <1>0, <2>2, <3>1
  <2>5. shown' \in [match : Seq(Match), untouched : BOOLEAN] /\ ~shown'.untouched
    BY <1>0, <2>1
  <2>6. FindTypeOK'
    BY <2>1, <2>3, <2>4, <2>5 DEF FindInv, FindTypeOK
  <2>7. QueriesFit /\ Remembers => Remembers'
    <3>1. QueriesFit => History = findHistory /\ History' = findHistory
      BY <2>1, <2>3 DEF History
    <3>2. QED BY <1>0, <2>4, <3>1 DEF Remembers
  <2>8. OnItsWalk'
    BY <1>0, <2>3 DEF OnItsWalk, WalksFor
  <2>9. MatchHeld'
    BY <2>5 DEF MatchHeld
  <2>10. QED BY <2>6, <2>7, <2>8, <2>9 DEF FindInv
<1>2. CASE OtherPopup
  <2>1. /\ findHistory' = find.history /\ find' = Closed /\ find.open
        /\ asks' = [asks EXCEPT !.n = @ + 1] /\ shown' = [shown EXCEPT !.untouched = FALSE]
        /\ UNCHANGED <<sealed, alt>> /\ asks.n + 1 <= MaxAsks
    BY <1>2 DEF OtherPopup, Asks
  <2>2. find.history \in Seq(Seq(STRING)) /\ ~find'.open
    BY <2>1, OpenIs DEF FindInv, FindOverlay, Closed
  <2>3. /\ asks' \in [n : 0..MaxAsks, live : Seq(STRING), sent : SUBSET Seq(STRING)]
        /\ asks'.n = asks.n + 1 /\ asks'.sent = asks.sent
    <3>1. asks.n + 1 \in 0..MaxAsks /\ asks' = [asks EXCEPT !.n = asks.n + 1]
      BY <1>0, <2>1
    <3>2. QED BY <1>0, <3>1
  <2>4. shown' \in [match : Seq(Match), untouched : BOOLEAN] /\ ~shown'.untouched
    BY <1>0, <2>1
  <2>5. FindTypeOK'
    BY <2>1, <2>2, <2>3, <2>4 DEF FindInv, FindTypeOK
  <2>6. Remembers => Remembers'
    <3>1. History = find.history /\ History' = find.history
      BY <2>1, <2>2 DEF History
    <3>2. Len(find.history) \in Nat
      BY <2>2
    <3>3. QED BY <1>0, <2>3, <3>1, <3>2 DEF Remembers
  <2>7. MatchHeld' /\ OnItsWalk'
    BY <2>2, <2>4 DEF MatchHeld, OnItsWalk
  <2>8. QED BY <2>5, <2>6, <2>7 DEF FindInv
<1>3. CASE AltFlips
  <2>1. /\ alt' = ~alt /\ asks' = [asks EXCEPT !.n = @ + 1] /\ asks.n + 1 <= MaxAsks
        /\ UNCHANGED <<sealed, find, findHistory, shown>>
    BY <1>3 DEF AltFlips, Asks
  <2>2. /\ asks' \in [n : 0..MaxAsks, live : Seq(STRING), sent : SUBSET Seq(STRING)]
        /\ asks'.n = asks.n + 1 /\ asks'.sent = asks.sent /\ asks'.live = asks.live
    BY <1>0, <2>1
  <2>3. FindTypeOK'
    BY <2>1, <2>2 DEF FindInv, FindTypeOK
  <2>4. Len(History) \in Nat
    BY OpenIs, <1>0 DEF History, FindInv, FindOverlay
  <2>5. Remembers => Remembers'
    BY <1>0, <2>1, <2>2, <2>4 DEF Remembers, History
  <2>6. MatchHeld' /\ OnItsWalk'
    BY <2>1, <2>2 DEF FindInv, MatchHeld, OnItsWalk, Now
  <2>7. QED BY <2>3, <2>5, <2>6 DEF FindInv
<1>4. QED BY <1>1, <1>2, <1>3

LEMMA FindStarts == FindInit => FindInv /\ Remembers
<1> SUFFICES ASSUME FindInit PROVE FindInv /\ Remembers
  OBVIOUS
<1>1. /\ sealed = <<>> /\ find = Closed /\ findHistory = FindPast /\ alt = FALSE
      /\ shown = [match |-> <<>>, untouched |-> FALSE]
      /\ asks = [n |-> 0, live |-> <<>>, sent |-> ToSet(FindPast)]
  BY DEF FindInit
<1>2. /\ FindPast \in Seq(Seq(STRING)) /\ Len(FindPast) \in Nat /\ MaxAsks \in Nat
      /\ ToSet(FindPast) \in SUBSET Seq(STRING)
  BY FindAssumption DEF ToSet
<1>3. ~find.open
  BY <1>1 DEF Closed
<1>4. FindTypeOK
  <2>1. <<>> \in Seq(FindBlocks) /\ <<>> \in Seq(Match) /\ <<>> \in Seq(STRING) /\ 0 \in 0..MaxAsks
    BY <1>2
  <2>2. shown \in [match : Seq(Match), untouched : BOOLEAN]
    BY <1>1, <2>1
  <2>3. asks \in [n : 0..MaxAsks, live : Seq(STRING), sent : SUBSET Seq(STRING)]
    BY <1>1, <1>2, <2>1
  <2>4. QED BY <1>1, <1>2, <2>1, <2>2, <2>3 DEF FindTypeOK
<1>5. Remembers
  BY <1>1, <1>2, <1>3 DEF Remembers, History
<1>6. MatchHeld /\ OnItsWalk
  BY <1>3 DEF MatchHeld, OnItsWalk
<1>7. QED BY <1>4, <1>5, <1>6 DEF FindInv

LEMMA FindSteps ==
  FindInv /\ [FindNext]_findVars => FindInv' /\ (QueriesFit /\ Remembers => Remembers')
<1> SUFFICES ASSUME FindInv, [FindNext]_findVars
             PROVE  FindInv' /\ (QueriesFit /\ Remembers => Remembers')
  OBVIOUS
<1>1. CASE Seal
  BY <1>1, SealKeeps
<1>2. CASE OpenFind \/ OtherPopup \/ AltFlips
  BY <1>2, PopupsKeep
<1>3. CASE FindFrame
  BY <1>3, FindFrameStep
<1>4. CASE UNCHANGED findVars
  <2>1. UNCHANGED <<sealed, find, findHistory, alt, shown, asks>>
    BY <1>4 DEF findVars
  <2>2. FindTypeOK'
    BY <2>1 DEF FindInv, FindTypeOK
  <2>3. OnItsWalk' /\ (Remembers => Remembers')
    BY <2>1 DEF FindInv, OnItsWalk, Remembers, History
  <2>4. MatchHeld'
    BY <2>1 DEF FindInv, MatchHeld, Now
  <2>5. QED BY <2>2, <2>3, <2>4 DEF FindInv
<1>5. QED BY <1>1, <1>2, <1>3, <1>4 DEF FindNext

LEMMA FindIsAlwaysWell == FindSpec => []FindInv
<1>1. FindInit => FindInv
  BY FindStarts
<1>2. FindInv /\ [FindNext]_findVars => FindInv'
  BY FindSteps
<1>3. QED BY <1>1, <1>2, PTL DEF FindSpec

\* Find highlights every occurrence there is to see and nothing else, in document
\* order and apart, for all blocks and queries and whatever the user does (find.rs,
\* find_matches).
THEOREM FindShowsEveryOccurrence == FindSpec => []EveryOccurrenceIsShown
<1>1. FindInv => EveryOccurrenceIsShown
  <2> SUFFICES ASSUME FindInv PROVE EveryOccurrenceIsShown
    OBVIOUS
  <2>1. CASE find.open
    BY <2>1, OpenIs, BlocksAreSealed, ShowsEveryOccurrence DEF FindInv
  <2>2. CASE ~find.open
    BY <2>2 DEF EveryOccurrenceIsShown
  <2>3. QED BY <2>1, <2>2
<1>2. QED BY <1>1, FindIsAlwaysWell, PTL

\* Every query that was submitted is still offered and the one being typed comes
\* back, too, while the history has room and the overlay is not opened over itself
\* (find.rs, commit_history and the walk).
THEOREM FindsWhatThereIs == ASSUME QueriesFit PROVE FindSpec => []FindIsExact
<1>1. FindInit => FindInv /\ Remembers
  BY FindStarts
<1>2. (FindInv /\ Remembers) /\ [FindNext]_findVars => (FindInv /\ Remembers)'
  BY FindSteps
<1>3. FindInv /\ Remembers => QueriesAreKept
  BY DEF FindInv, OnItsWalk, Remembers, History, QueriesAreKept, WalksFor
<1>4. FindSpec => []EveryOccurrenceIsShown
  BY FindShowsEveryOccurrence
<1>5. EveryOccurrenceIsShown /\ QueriesAreKept => FindIsExact
  BY DEF FindIsExact
<1>6. QED BY <1>1, <1>2, <1>3, <1>4, <1>5, PTL DEF FindSpec

\* From one painted frame to the next the bright match stays where it is unless the
\* user did something, however many blocks are sealed meanwhile (find.rs,
\* refresh_matches; render_pane.rs, the frame).
THEOREM BrightMatchStays == FindSpec => MatchHolds
<1>1. FindInv /\ [FindNext]_findVars => [SelectionStays]_findVars
  <2> SUFFICES ASSUME FindInv, FindNext PROVE SelectionStays
    OBVIOUS
  <2>1. CASE FindFrame
    <3> SUFFICES ASSUME shown.untouched, shown.match # <<>> PROVE shown'.match = shown.match
      BY DEF SelectionStays
    <3>1. find.open /\ find \in FindOverlay /\ SealedOK
      BY <2>1, OpenIs, BlocksAreSealed DEF FindFrame, FindInv
    <3>2. shown'.match = IF alt THEN shown.match ELSE Current(Recomputed(find))
      BY <2>1 DEF FindFrame, Frame
    <3>3. /\ ~find.bottom /\ find.query # <<>> /\ ~BadRegex(find)
          /\ find.sel < Len(Now(find)) /\ shown.match = <<Now(find)[find.sel + 1]>>
      BY <3>1 DEF FindInv, MatchHeld
    <3>4. Current(Recomputed(find)) = <<Now(find)[find.sel + 1]>>
      BY <3>1, <3>3, RecomputedIs
    <3>5. QED BY <3>2, <3>3, <3>4
  <2>2. CASE Seal \/ AltFlips
    BY <2>2 DEF Seal, AltFlips, SelectionStays
  <2>3. CASE OpenFind \/ OtherPopup
    <3>1. shown \in [match : Seq(Match), untouched : BOOLEAN]
      BY DEF FindInv, FindTypeOK
    <3>2. shown' = [shown EXCEPT !.untouched = FALSE]
      BY <2>3 DEF OpenFind, OtherPopup
    <3>3. QED BY <3>1, <3>2 DEF SelectionStays
  <2>4. QED BY <2>1, <2>2, <2>3 DEF FindNext
<1>2. FindSpec => []FindInv
  BY FindIsAlwaysWell
<1>3. QED BY <1>1, <1>2, PTL DEF FindSpec, MatchHolds
=============================================================================
