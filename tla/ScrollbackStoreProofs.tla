------------------------ MODULE ScrollbackStoreProofs -----------------------
(***************************************************************************)
(* Theorems about the persisted scrollback, for every number of processes, *)
(* panes, sessions, launches and blocks, with the invariants of            *)
(* ScrollbackStoreInvariant.                                               *)
(***************************************************************************)
EXTENDS ScrollbackStoreInvariant, SublistProofs, FiniteSetTheorems

-----------------------------------------------------------------------------
\* Largest elements

\* A finite set of numbers is bounded.
LEMMA Bounded ==
  ASSUME NEW S \in SUBSET Nat, IsFiniteSet(S)
  PROVE  \E n \in Nat : \A k \in S : k <= n
<1> DEFINE R == StrictSubsetOrdering(Nat)
           U == {T \in FiniteSubsetsOf(Nat) : ~ \E n \in Nat : \A k \in T : k <= n}
<1>1. IsWellFoundedOn(R, FiniteSubsetsOf(Nat))
  BY FS_StrictSubsetOrderingWellFounded
<1>2. CASE U # {}
  <2>1. PICK T \in U : \A V \in FiniteSubsetsOf(Nat) : <<V, T>> \in R => V \notin U
    BY <1>1, <1>2, WFMin
  <2>2. PICK x \in T : TRUE
    OBVIOUS
  <2>3. T \in SUBSET Nat /\ IsFiniteSet(T)
    BY DEF FiniteSubsetsOf
  <2>4. IsFiniteSet(T \ {x})
    BY <2>3, FS_RemoveElement
  <2>5. T \ {x} \in FiniteSubsetsOf(Nat) /\ <<T \ {x}, T>> \in R
    BY <2>3, <2>4 DEF FiniteSubsetsOf, StrictSubsetOrdering
  <2>6. PICK n \in Nat : \A k \in T \ {x} : k <= n
    BY <2>1, <2>5
  <2>7. x \in Nat /\ (IF n < x THEN x ELSE n) \in Nat
    BY <2>3
  <2>8. \A k \in T : k <= (IF n < x THEN x ELSE n)
    BY <2>3, <2>6, <2>7
  <2>9. QED BY <2>7, <2>8
<1>3. S \in FiniteSubsetsOf(Nat)
  BY DEF FiniteSubsetsOf
<1>4. QED BY <1>2, <1>3

\* MaxOf is what its name says.
LEMMA MaxOfBounded ==
  ASSUME NEW S \in SUBSET Nat, NEW n \in Nat, \A k \in S : k <= n
  PROVE  /\ MaxOf(S) \in Nat
         /\ \A k \in S : k <= MaxOf(S)
         /\ S # {} => MaxOf(S) \in S
<1>1. CASE S = {}
  BY <1>1 DEF MaxOf
<1>2. CASE S # {}
  <2> DEFINE T == {m \in Nat : \A k \in S : k <= m}
  <2>1. PICK m \in T : \A l \in T : m <= l
    <3>1. n \in T OBVIOUS
    <3>2. T \in SUBSET Nat /\ T # {} BY <3>1
    <3>3. QED BY <3>2, Least
  <2>2. m \in Nat /\ \A k \in S : k <= m
    OBVIOUS
  <2>3. m \in S
    <3> SUFFICES ASSUME m \notin S PROVE FALSE
      OBVIOUS
    <3>1. \A k \in S : k \in Nat /\ k <= m /\ k # m
      BY <2>2
    <3>2. m # 0
      <4>1. PICK k \in S : TRUE
        BY <1>2
      <4>2. k \in Nat /\ k <= m /\ k # m
        BY <3>1
      <4>3. QED BY <4>2
    <3>3. m - 1 \in Nat /\ m - 1 < m
      BY <2>2, <3>2
    <3>4. \A k \in S : k <= m - 1
      BY <2>2, <3>1
    <3>5. m - 1 \in T
      BY <3>3, <3>4
    <3>6. m <= m - 1
      BY <2>1, <3>5
    <3>7. QED BY <2>2, <3>6
  <2>4. \E k \in S : \A l \in S : l <= k
    BY <2>2, <2>3
  <2>5. MaxOf(S) \in S /\ \A l \in S : l <= MaxOf(S)
    BY <1>2, <2>4 DEF MaxOf
  <2>6. QED BY <2>5
<1>3. QED BY <1>1, <1>2

\* MaxOf of a finite set of numbers is its greatest member, or 0.
LEMMA MaxOfFinite ==
  ASSUME NEW S \in SUBSET Nat, IsFiniteSet(S)
  PROVE  /\ MaxOf(S) \in Nat
         /\ \A k \in S : k <= MaxOf(S)
         /\ S # {} => MaxOf(S) \in S
BY Bounded, MaxOfBounded

-----------------------------------------------------------------------------
\* Rows in the order of the query

\* The query lists every row of a set once, in order.
Lists(o, S) ==
  /\ o \in Seq(S) /\ Len(o) = Cardinality(S) /\ Cardinality(S) \in Nat
  /\ \A i, j \in 1..Len(o) : i < j => Precedes(o[i], o[j])
  /\ \A c \in S : \E i \in 1..Len(o) : o[i] = c

\* The query returns every row of a finite set once, in order.
LEMMA OrderedLists ==
  ASSUME NEW S \in SUBSET ChunkRow, IsFiniteSet(S), \A c, d \in S : c.id = d.id => c = d
  PROVE  Lists(Ordered(S), S)
<1> DEFINE n == Cardinality(S)
           rank == [c \in S |-> Cardinality(Before(S, c))]
           o == Ordered(S)
<1>1. n \in Nat
  BY FS_CardinalityType
<1>2. ASSUME NEW c \in S
      PROVE  /\ Before(S, c) \in SUBSET S /\ IsFiniteSet(Before(S, c))
             /\ c \notin Before(S, c) /\ rank[c] \in 0..(n - 1)
  <2>1. c.id \in Nat /\ c.start \in Nat
    BY DEF ChunkRow
  <2>2. c \notin Before(S, c) /\ Before(S, c) \in SUBSET S
    BY <2>1 DEF Before, Precedes
  <2>3. IsFiniteSet(S \ {c}) /\ Cardinality(S \ {c}) = n - 1
    BY FS_RemoveElement
  <2>4. Before(S, c) \in SUBSET (S \ {c})
    BY <2>2
  <2>5. IsFiniteSet(Before(S, c)) /\ Cardinality(Before(S, c)) <= n - 1
    BY <2>3, <2>4, FS_Subset
  <2>6. Cardinality(Before(S, c)) \in Nat
    BY <2>5, FS_CardinalityType
  <2>7. Cardinality(Before(S, c)) \in 0..(n - 1)
    BY <2>5, <2>6, <1>1
  <2>8. QED BY <2>2, <2>5, <2>7
<1>3. ASSUME NEW c \in S, NEW d \in S, Precedes(c, d) PROVE rank[c] < rank[d]
  <2>1. /\ c.id \in Nat /\ c.start \in Nat
        /\ d.id \in Nat /\ d.start \in Nat
    BY DEF ChunkRow
  <2>2. Before(S, c) \subseteq Before(S, d)
    <3>1. SUFFICES ASSUME NEW e \in S, Precedes(e, c) PROVE Precedes(e, d)
      BY DEF Before
    <3>2. e.id \in Nat /\ e.start \in Nat
      BY DEF ChunkRow
    <3>3. QED BY <1>3, <2>1, <3>1, <3>2 DEF Precedes
  <2>3. c \in Before(S, d) /\ c \notin Before(S, c)
    BY <1>2, <1>3 DEF Before
  <2>4. IsFiniteSet(Before(S, d)) /\ Before(S, c) \in SUBSET Before(S, d)
    BY <1>2, <2>2
  <2>5. /\ Cardinality(Before(S, c)) <= Cardinality(Before(S, d))
        /\ Cardinality(Before(S, c)) # Cardinality(Before(S, d))
    BY <2>3, <2>4, FS_Subset
  <2>6. rank[c] \in 0..(n - 1) /\ rank[d] \in 0..(n - 1)
    BY <1>2
  <2>7. QED BY <2>5, <2>6, <1>1
<1>4. ASSUME NEW c \in S, NEW d \in S, c # d PROVE Precedes(c, d) \/ Precedes(d, c)
  <2>1. /\ c.id \in Nat /\ c.start \in Nat
        /\ d.id \in Nat /\ d.start \in Nat
    BY DEF ChunkRow
  <2>2. c.id # d.id
    BY <1>4
  <2>3. QED BY <2>1, <2>2 DEF Precedes
<1>5. rank \in Injection(S, 0..(n - 1))
  <2>1. rank \in [S -> 0..(n - 1)]
    BY <1>2
  <2>2. ASSUME NEW c \in S, NEW d \in S, rank[c] = rank[d] PROVE c = d
    <3>1. rank[c] \in 0..(n - 1) /\ rank[d] \in 0..(n - 1)
      BY <1>2
    <3>2. QED BY <2>2, <3>1, <1>1, <1>3, <1>4
  <2> HIDE DEF rank
  <2>3. QED BY <2>1, <2>2 DEF Injection, IsInjective
<1>6. rank \in Surjection(S, 0..(n - 1))
  <2>1. IsFiniteSet(0..(n - 1)) /\ Cardinality(0..(n - 1)) = n
    <3>1. 0 \in Int /\ n - 1 \in Int
      BY <1>1
    <3>2. /\ IsFiniteSet(0..(n - 1))
          /\ Cardinality(0..(n - 1)) = IF 0 > n - 1 THEN 0 ELSE (n - 1) - 0 + 1
      BY <3>1, FS_Interval
    <3>3. QED BY <1>1, <3>2
  <2> HIDE DEF rank
  <2>2. QED BY <1>5, <2>1, FS_Injection
<1>7. \A m \in 1..n : \E c \in S : rank[c] = m - 1
  <2>1. \A k \in 0..(n - 1) : \E c \in S : rank[c] = k
    <3> HIDE DEF rank
    <3>1. QED BY <1>6 DEF Surjection
  <2>2. \A m \in 1..n : m - 1 \in 0..(n - 1)
    BY <1>1
  <2> HIDE DEF rank
  <2>3. QED BY <2>1, <2>2
<1>8. \A m \in 1..n : o[m] \in S /\ rank[o[m]] = m - 1
  BY <1>7 DEF Ordered
<1>9. o \in Seq(S) /\ Len(o) = n
  <2>1. o = [m \in 1..n |-> o[m]]
    BY DEF Ordered
  <2>2. o \in [1..n -> S]
    <3>1. \A m \in 1..n : o[m] \in S
      BY <1>8
    <3> HIDE DEF o
    <3>2. QED BY <2>1, <3>1
  <2> HIDE DEF o, n
  <2>3. QED BY <1>1, <2>2
<1>10. ASSUME NEW i \in 1..n, NEW j \in 1..n, i < j PROVE Precedes(o[i], o[j])
  <2>1. o[i] \in S /\ o[j] \in S /\ rank[o[i]] = i - 1 /\ rank[o[j]] = j - 1
    BY <1>8
  <2> HIDE DEF rank, o
  <2>2. o[i] # o[j]
    BY <1>10, <2>1, <1>1
  <2>3. ~Precedes(o[j], o[i])
    <3>1. SUFFICES ASSUME Precedes(o[j], o[i]) PROVE FALSE
      OBVIOUS
    <3>2. rank[o[j]] < rank[o[i]]
      BY <2>1, <3>1, <1>3
    <3>3. QED BY <2>1, <3>2, <1>10, <1>1
  <2>4. QED BY <1>4, <2>1, <2>2, <2>3
<1>11. ASSUME NEW c \in S PROVE \E i \in 1..n : o[i] = c
  <2>1. rank[c] \in 0..(n - 1)
    BY <1>2
  <2> DEFINE i == rank[c] + 1
  <2>2. i \in 1..n /\ i - 1 = rank[c]
    <3> HIDE DEF rank
    <3>1. QED BY <2>1, <1>1
  <2> HIDE DEF i
  <2>3. o[i] \in S /\ rank[o[i]] = rank[c]
    BY <2>2, <1>8
  <2>4. o[i] = c
    <3> HIDE DEF rank, o
    <3>1. QED BY <1>5, <2>3 DEF Injection, IsInjective
  <2>5. QED BY <2>2, <2>4
<1> HIDE DEF o, n
<1>12. QED BY <1>1, <1>9, <1>10, <1>11 DEF Lists, o, n

-----------------------------------------------------------------------------
\* Restores

\* A restore goes through the rows with a file, in order.
RestoredRows(r) == {c \in PaneRows(r) : Path(c) \in DOMAIN files}

RestoreOf(o, r) ==
  /\ Lists(o, RestoredRows(r))
  /\ RestoredRows(r) \in SUBSET ChunkRow /\ RestoredRows(r) \subseteq rows
  /\ RestoredRows(r) = {d \in StoredRows : d.pane = r}
  /\ Restore(r) = [i \in 1..Len(o) |-> [block |-> files[Path(o[i])], label |-> o[i].label]]
  /\ RestoredBlocks(r) = [i \in 1..Len(o) |-> files[Path(o[i])]]
  /\ RestoredBlocks(r) \in Seq(Nat)
  /\ Len(Restore(r)) = Len(o) /\ Len(RestoredBlocks(r)) = Len(o)

\* A restore is the stored rows of the pane, in order.
LEMMA RestoreType ==
  ASSUME DbTypes, FileTypes, NEW r
  PROVE  \E o : RestoreOf(o, r)
<1> DEFINE S == RestoredRows(r)
           o == Ordered(S)
           all == RestoredBlocks(r)
<1>1. S \subseteq StoredRows /\ S \subseteq rows /\ IsFiniteSet(S) /\ S \in SUBSET ChunkRow
  <2>1. S \subseteq rows
    BY DEF PaneRows, RestoredRows
  <2>2. IsFiniteSet(S)
    BY <2>1, FS_Subset DEF DbTypes
  <2>3. QED BY <2>1, <2>2 DEF DbTypes, StoredRows, RestoredRows
<1>2. \A c, d \in S : c.id = d.id => c = d
  BY <1>1 DEF DbTypes
<1>3. Lists(o, S)
  <2> HIDE DEF S
  <2>1. QED BY <1>1, <1>2, OrderedLists
<1>4. S = {d \in StoredRows : d.pane = r}
  BY DEF PaneRows, StoredRows, RestoredRows
<1>5. Restore(r) = [i \in 1..Len(o) |-> [block |-> files[Path(o[i])], label |-> o[i].label]]
  BY DEF Restore, RestoredRows
<1> HIDE DEF S, o
<1>6. o \in Seq(S) /\ Len(o) \in Nat /\ \A i \in 1..Len(o) : o[i] \in S
  BY <1>3 DEF Lists
<1>7. Restore(r) \in Seq([block : {files[Path(c)] : c \in S}, label : {c.label : c \in S}])
  BY <1>5, <1>6
<1>8. Len(Restore(r)) = Len(o)
  BY <1>5, <1>6
<1>9. all = [i \in 1..Len(o) |-> files[Path(o[i])]]
  BY <1>5, <1>8 DEF RestoredBlocks
<1> HIDE DEF all
<1>10. \A i \in 1..Len(o) : files[Path(o[i])] \in Nat
  <2>1. \A x \in DOMAIN files : files[x] \in Nat
    BY DEF FileTypes
  <2>2. QED BY <2>1, <1>1, <1>6 DEF StoredRows
<1>11. all \in Seq(Nat) /\ Len(all) = Len(o)
  BY <1>6, <1>9, <1>10
<1>12. RestoreOf(o, r)
  BY <1>1, <1>3, <1>4, <1>5, <1>8, <1>9, <1>11 DEF RestoreOf, S, all
<1>13. QED BY <1>12

\* What a restore shows is told by the set of blocks stored for the pane.
LEMMA RestoreShows ==
  DbTypes /\ FileTypes /\ RowsOK /\ BlocksInOrder =>
    \A r : /\ Rising(RestoredBlocks(r)) /\ Elems(RestoredBlocks(r)) = Stored(r)
           /\ Len(Restore(r)) = Len(RestoredBlocks(r))
           /\ \A k \in 1..Len(Restore(r)) :
                /\ Restore(r)[k].block = RestoredBlocks(r)[k]
                /\ Restore(r)[k].label \in {0, Restore(r)[k].block}
<1> SUFFICES ASSUME DbTypes, FileTypes, RowsOK, BlocksInOrder, NEW r
    PROVE  /\ Rising(RestoredBlocks(r)) /\ Elems(RestoredBlocks(r)) = Stored(r)
           /\ Len(Restore(r)) = Len(RestoredBlocks(r))
           /\ \A k \in 1..Len(Restore(r)) :
                /\ Restore(r)[k].block = RestoredBlocks(r)[k]
                /\ Restore(r)[k].label \in {0, Restore(r)[k].block}
  OBVIOUS
<1> DEFINE all == RestoredBlocks(r)
<1>0. PICK o : RestoreOf(o, r)
  BY RestoreType
<1>9. PICK S : S = RestoredRows(r)
  OBVIOUS
<1>1. /\ S \subseteq StoredRows /\ S \subseteq rows /\ S \in SUBSET ChunkRow
      /\ S = {d \in StoredRows : d.pane = r}
  BY <1>0, <1>9 DEF RestoreOf
<1>3. Lists(o, S)
  BY <1>0, <1>9 DEF RestoreOf
<1>2. \A c, d \in S : c.id = d.id => c = d
  BY <1>1 DEF DbTypes
<1>5. /\ o \in Seq(S) /\ Len(o) \in Nat /\ Len(o) = Cardinality(S)
      /\ \A i \in 1..Len(o) : o[i] \in S
  BY <1>3 DEF Lists
<1>6. /\ Restore(r) = [i \in 1..Len(o) |-> [block |-> files[Path(o[i])], label |-> o[i].label]]
      /\ all = [i \in 1..Len(o) |-> files[Path(o[i])]]
      /\ all \in Seq(Nat) /\ Len(all) = Len(o) /\ Len(Restore(r)) = Len(o)
  BY <1>0 DEF RestoreOf
<1> HIDE DEF all
<1>12. ASSUME NEW i \in 1..Len(o), NEW j \in 1..Len(o), i < j
       PROVE  files[Path(o[i])] < files[Path(o[j])]
  <2>1. Precedes(o[i], o[j])
    BY <1>3, <1>12 DEF Lists
  <2>2. o[i] \in StoredRows /\ o[j] \in StoredRows /\ o[i].pane = o[j].pane
    BY <1>1, <1>5
  <2>3. o[i] \in rows /\ o[j] \in rows /\ o[i] \in ChunkRow /\ o[j] \in ChunkRow
    BY <2>2, <1>1, <1>5
  <2>4. /\ o[i].id \in Nat /\ o[i].start \in Nat /\ o[i].stop \in Nat
        /\ o[j].id \in Nat /\ o[j].start \in Nat /\ o[j].stop \in Nat
    BY <2>3 DEF ChunkRow
  <2>5. o[i].start <= o[i].stop /\ o[j].start <= o[j].stop
    BY <2>3 DEF RowsOK
  <2>6. o[i].id # o[j].id
    <3>1. SUFFICES ASSUME o[i].id = o[j].id PROVE FALSE
      OBVIOUS
    <3>2. o[i] = o[j]
      BY <1>2, <1>5, <3>1
    <3>3. QED BY <2>1, <2>4, <3>2 DEF Precedes
  <2>7. ~(o[j].id < o[i].id)
    <3>1. SUFFICES ASSUME o[j].id < o[i].id PROVE FALSE
      OBVIOUS
    <3>2. o[j].stop <= o[i].start
      BY <2>2, <2>3, <3>1 DEF RowsOK
    <3>3. QED BY <2>1, <2>4, <2>5, <3>1, <3>2 DEF Precedes
  <2>8. o[i].id < o[j].id
    BY <2>4, <2>6, <2>7
  <2>9. QED BY <2>2, <2>8 DEF BlocksInOrder
<1>13. Rising(all)
  BY <1>6, <1>12 DEF Rising
<1>14. Elems(all) = Stored(r)
  <2>1. Elems(all) = {files[Path(o[i])] : i \in 1..Len(o)}
    BY <1>6 DEF Elems
  <2>2. {o[i] : i \in 1..Len(o)} = S
    BY <1>3, <1>5 DEF Lists
  <2>3. QED BY <2>1, <2>2, <1>1 DEF Stored
<1>15. ASSUME NEW k \in 1..Len(o)
       PROVE  /\ Restore(r)[k].block = all[k]
              /\ Restore(r)[k].label \in {0, Restore(r)[k].block}
  <2>1. /\ Restore(r)[k].block = files[Path(o[k])] /\ Restore(r)[k].label = o[k].label
        /\ all[k] = files[Path(o[k])]
    BY <1>6
  <2>2. o[k] \in StoredRows
    BY <1>1, <1>5
  <2>3. QED BY <2>1, <2>2 DEF BlocksInOrder
<1>16. QED BY <1>6, <1>13, <1>14, <1>15 DEF all

-----------------------------------------------------------------------------
\* Steps that leave rows, locks and tabs with their owners

SameTabs ==
  \A p \in Procs :
    /\ Len(tabs'[p]) = Len(tabs[p]) /\ DOMAIN tabs'[p] = DOMAIN tabs[p]
    /\ \A i \in DOMAIN tabs[p] :
         /\ tabs'[p][i].row = tabs[p][i].row
         /\ tabs'[p][i].session = tabs[p][i].session
         /\ tabs'[p][i].live = tabs[p][i].live

\* A step that leaves rows, sessions and liveness of the tabs keeps their
\* ownership.
LEMMA OwnSameTabs ==
  ASSUME Types, Own, SameTabs, UNCHANGED <<sessions, panes, layout, held, ui>>,
         \A p \in Procs : gc'[p].probing \in {0, gc[p].probing}
  PROVE  Own'
<1>1. TabsOK'
  BY DEF Own, TabsOK, TabOK, SameTabs, SessionsOf, Sessions
<1>2. HeldOK'
  <2>1. SUFFICES ASSUME NEW s \in 1..MaxSessions, held[s] \in Procs
                 PROVE  \E i \in DOMAIN tabs'[held[s]] : tabs'[held[s]][i].session = s
    BY DEF HeldOK, Alive
  <2>2. PICK i \in DOMAIN tabs[held[s]] : tabs[held[s]][i].session = s
    BY <2>1 DEF Own, HeldOK, Alive
  <2>3. QED BY <2>1, <2>2 DEF SameTabs
<1>3. RowsApart'
  BY DEF Own, RowsApart, SameTabs
<1>4. LayoutOK'
  BY DEF Own, LayoutOK
<1>5. StartsOK'
  <2>1. SessionsOf(0) = SessionsOf(0) /\ \A r : SessionsOf(r)' = SessionsOf(r)
    BY DEF SessionsOf, Sessions
  <2>2. SUFFICES ASSUME NEW p \in Procs, Starting(p) PROVE StartOK(p)'
    BY DEF StartsOK, Starting
  <2>3. StartOK(p)
    BY <2>2 DEF Own, StartsOK
  <2>4. ~FreshStart(p) => ui[p].at \in DOMAIN tabs[p]
    BY <2>3 DEF StartOK, FreshStart, Types, ProcTypes
  <2>5. (~FreshStart(p) => /\ tabs[p][ui[p].at].row = ui[p].row
                          /\ ~tabs[p][ui[p].at].live)'
    BY <2>3, <2>4 DEF StartOK, FreshStart, SameTabs
  <2>6. (FreshStart(p) =>
           /\ \A q \in Procs : \A j \in DOMAIN tabs[q] : tabs[q][j].row # ui[p].row
           /\ \A j \in DOMAIN layout : layout[j] # ui[p].row)'
    BY <2>3 DEF StartOK, FreshStart, SameTabs
  <2>7. QED BY <2>1, <2>3, <2>5, <2>6 DEF StartOK, SameTabs, Starting
<1>6. ClosesOK'
  BY DEF Own, ClosesOK, SameTabs
<1>7. ProbesOK'
  BY DEF Own, ProbesOK
<1>8. QED BY <1>1, <1>2, <1>3, <1>4, <1>5, <1>6, <1>7 DEF Own

\* Tabs left alone are such a step.
LEMMA UnchangedTabs == ASSUME UNCHANGED tabs PROVE SameTabs
BY DEF SameTabs

\* A tab whose blocks alone change.
LEMMA TabShows ==
  ASSUME Types, NEW p \in Procs, NEW i \in 1..Len(tabs[p]), NEW m \in Seq(Nat),
         tabs' = [tabs EXCEPT ![p][i].mem = m]
  PROVE  /\ SameTabs
         /\ tabs'[p][i].mem = m
         /\ \A q \in Procs : \A j \in DOMAIN tabs[q] :
              q # p \/ j # i => tabs'[q][j].mem = tabs[q][j].mem
         /\ tabs' \in [Procs -> Seq(TabType)]
<1> DEFINE t == tabs[p]
           x == [t[i] EXCEPT !.mem = m]
           u == [t EXCEPT ![i] = x]
<1>1. tabs \in [Procs -> Seq(TabType)]
  BY DEF Types, ProcTypes
<1>2. t \in Seq(TabType) /\ t[i] \in TabType /\ i \in DOMAIN t
  BY <1>1
<1>3. /\ x \in TabType /\ x.row = t[i].row /\ x.session = t[i].session
      /\ x.live = t[i].live /\ x.mem = m
  BY <1>2 DEF TabType
<1>4. tabs' = [tabs EXCEPT ![p] = u]
  BY <1>1, <1>2
<1> HIDE DEF x
<1>5. /\ u \in Seq(TabType) /\ Len(u) = Len(t) /\ DOMAIN u = DOMAIN t /\ u[i] = x
      /\ \A j \in DOMAIN t : j # i => u[j] = t[j]
  BY <1>2, <1>3
<1> HIDE DEF u
<1>6. tabs'[p] = u /\ \A q \in Procs : q # p => tabs'[q] = tabs[q]
  BY <1>1, <1>4
<1>7. tabs' \in [Procs -> Seq(TabType)]
  BY <1>1, <1>4, <1>5
<1>8. SameTabs
  BY <1>3, <1>5, <1>6 DEF SameTabs
<1>9. QED BY <1>3, <1>5, <1>6, <1>7, <1>8

\* A seal changes one tab's blocks only.
LEMMA SealKeepsTabs ==
  ASSUME Types, NEW p \in Procs, NEW i \in 1..Len(tabs[p]), SealBlock(p, i)
  PROVE  /\ SameTabs
         /\ tabs'[p][i].mem = Append(tabs[p][i].mem, Len(sealedIn) + 1)
         /\ \A q \in Procs : \A j \in DOMAIN tabs[q] :
              q # p \/ j # i => tabs'[q][j].mem = tabs[q][j].mem
         /\ tabs' \in [Procs -> Seq(TabType)]
<1>1. tabs \in [Procs -> Seq(TabType)] /\ sealedIn \in Seq(Nat)
  BY DEF Types, ProcTypes, FileTypes
<1>2. tabs[p][i] \in TabType
  BY <1>1
<1>3. Append(tabs[p][i].mem, Len(sealedIn) + 1) \in Seq(Nat)
  BY <1>1, <1>2 DEF TabType
<1>4. PICK m \in Seq(Nat) : m = Append(tabs[p][i].mem, Len(sealedIn) + 1)
  BY <1>3
<1>5. tabs' = [tabs EXCEPT ![p][i].mem = m]
  BY <1>4 DEF SealBlock
<1>6. /\ SameTabs /\ tabs'[p][i].mem = m
      /\ \A q \in Procs : \A j \in DOMAIN tabs[q] :
           q # p \/ j # i => tabs'[q][j].mem = tabs[q][j].mem
      /\ tabs' \in [Procs -> Seq(TabType)]
  BY <1>5, TabShows, ZenonT(30)
<1>7. QED BY <1>4, <1>6

\* So does a clear.
LEMMA ClearKeepsTabs ==
  ASSUME Types, NEW p \in Procs, NEW i \in 1..Len(tabs[p]), ClearScrollback(p, i)
  PROVE  /\ SameTabs
         /\ tabs'[p][i].mem = <<>>
         /\ \A q \in Procs : \A j \in DOMAIN tabs[q] :
              q # p \/ j # i => tabs'[q][j].mem = tabs[q][j].mem
         /\ tabs' \in [Procs -> Seq(TabType)]
<1>1. tabs' = [tabs EXCEPT ![p][i].mem = <<>>]
  BY DEF ClearScrollback
<1>2. <<>> \in Seq(Nat)
  OBVIOUS
<1>3. QED BY <1>1, <1>2, TabShows

-----------------------------------------------------------------------------
\* Sessions are begun, locked and given back

\* What BeginRows is called for: a new pane behind the tabs, or a dead tab.
BeginsFor(p, at, r) ==
  \/ r = 0 /\ at = Len(tabs[p]) + 1
  \/ /\ at \in DOMAIN tabs[p]
     /\ r = tabs[p][at].row /\ ~tabs[p][at].live

BegunRow(r) == IF r = 0 THEN panes + 1 ELSE r

Begun(p, at, r) ==
  /\ sessions' \in Seq(Nat) /\ Len(sessions') = Len(sessions) + 1
  /\ Len(sessions') <= MaxSessions /\ panes' \in Nat /\ panes <= panes'
  /\ BegunRow(r) \in 1..panes' /\ panes' \in {panes, panes + 1}
  /\ sessions'[Len(sessions) + 1] = BegunRow(r)
  /\ \A s \in Sessions : sessions'[s] = sessions[s]
  /\ \A x : SessionsOf(x)' = SessionsOf(x) \cup
                (IF x = BegunRow(r) THEN {Len(sessions) + 1} ELSE {})
  /\ r = 0 => BegunRow(r) = panes + 1
  /\ r # 0 => BegunRow(r) = r /\ panes' = panes
  /\ ui'[p] = [op |-> "start", at |-> at, row |-> BegunRow(r),
               session |-> Len(sessions) + 1,
               start |-> IF r = 0 THEN 0 ELSE MaxEndLine(r)]
  /\ \A q \in Procs : q # p => ui'[q] = ui[q]

\* What a session that begins adds to the database.
LEMMA BeginFacts ==
  ASSUME Types, Own, NEW p \in Procs, NEW at, NEW r, BeginRows(p, at, r), BeginsFor(p, at, r)
  PROVE  Begun(p, at, r)
<1>1. /\ sessions \in Seq(Nat) /\ panes \in Nat /\ Len(sessions) \in Nat
      /\ \A s \in Sessions : sessions[s] \in 1..panes
  BY DEF Types, DbTypes
<1>2. r # 0 => r \in 1..panes
  BY <1>1 DEF BeginsFor, Own, TabsOK, TabOK, Types, ProcTypes
<1>3. BegunRow(r) \in Nat
  BY <1>1, <1>2 DEF BegunRow
<1>4. /\ sessions' = Append(sessions, BegunRow(r)) /\ Len(sessions) < MaxSessions
      /\ panes' = IF r = 0 THEN panes + 1 ELSE panes
      /\ ui' = [ui EXCEPT ![p] = [op |-> "start", at |-> at, row |-> BegunRow(r),
                     session |-> Len(sessions) + 1,
                     start |-> IF r = 0 THEN 0 ELSE MaxEndLine(r)]]
  BY DEF BeginRows, BegunRow
<1>5. /\ sessions' \in Seq(Nat) /\ Len(sessions') = Len(sessions) + 1
      /\ sessions'[Len(sessions) + 1] = BegunRow(r)
      /\ \A s \in Sessions : sessions'[s] = sessions[s]
  BY <1>1, <1>3, <1>4 DEF Sessions
<1>6. MaxSessions \in Nat
  BY StoreAssumption
<1>7. ASSUME NEW x
      PROVE  SessionsOf(x)' = SessionsOf(x) \cup
               (IF x = BegunRow(r) THEN {Len(sessions) + 1} ELSE {})
  <2>1. 1..Len(sessions') = 1..Len(sessions) \cup {Len(sessions) + 1}
    BY <1>1, <1>5
  <2>2. SessionsOf(x)' = {s \in 1..Len(sessions') : sessions'[s] = x}
    BY DEF SessionsOf, Sessions
  <2>3. QED BY <2>1, <2>2, <1>5 DEF SessionsOf, Sessions
<1>8. /\ ui'[p] = [op |-> "start", at |-> at, row |-> BegunRow(r),
                   session |-> Len(sessions) + 1,
                   start |-> IF r = 0 THEN 0 ELSE MaxEndLine(r)]
      /\ \A q \in Procs : q # p => ui'[q] = ui[q]
  BY <1>4 DEF Types, ProcTypes
<1>9. /\ panes' \in Nat /\ panes <= panes' /\ BegunRow(r) \in 1..panes'
      /\ panes' \in {panes, panes + 1}
  BY <1>1, <1>2, <1>4 DEF BegunRow
<1>10. Len(sessions') <= MaxSessions
  BY <1>1, <1>4, <1>5, <1>6
<1>11. QED BY <1>4, <1>5, <1>7, <1>8, <1>9, <1>10 DEF Begun, BegunRow

\* A session that begins is its pane's latest and nobody else's.
LEMMA BeginOwns ==
  ASSUME Types, Own, NEW p \in Procs, NEW at, NEW r, BeginRows(p, at, r),
         BeginsFor(p, at, r), ~Starting(p), UNCHANGED <<tabs, held, layout>>,
         \A q \in Procs : gc'[q].probing \in {0, gc[q].probing}
  PROVE  Own'
<1>n. PICK n, row : n = Len(sessions) + 1 /\ row = BegunRow(r)
  OBVIOUS
<1>0. Begun(p, at, r)
  BY BeginFacts
<1>1. /\ Len(sessions) \in Nat /\ panes \in Nat /\ panes' \in Nat /\ panes <= panes'
      /\ \A s \in Sessions : sessions[s] \in 1..panes
      /\ tabs \in [Procs -> Seq(TabType)]
  BY <1>0 DEF Begun, Types, DbTypes, ProcTypes
<1>2. \A x : SessionsOf(x)' = SessionsOf(x) \cup (IF x = row THEN {n} ELSE {})
  BY <1>0, <1>n DEF Begun
<1>3. /\ ui'[p].op = "start" /\ ui'[p].at = at /\ ui'[p].row = row /\ ui'[p].session = n
      /\ \A q \in Procs : q # p => ui'[q] = ui[q]
  BY <1>0, <1>n DEF Begun
<1>4. row \in 1..panes' /\ (r = 0 => row = panes + 1) /\ (r # 0 => row = r)
  BY <1>0, <1>n DEF Begun
<1>5. \A x : \A s \in SessionsOf(x) : s \in Nat /\ s < n /\ x \in 1..panes
  BY <1>1, <1>n DEF SessionsOf, Sessions
\* No tab but the one restarted is of the row.
<1>6. \A q \in Procs : \A j \in DOMAIN tabs[q] :
        tabs[q][j].row = row => q = p /\ j = at /\ r # 0
  <2>1. SUFFICES ASSUME NEW q \in Procs, NEW j \in DOMAIN tabs[q], tabs[q][j].row = row
                 PROVE  q = p /\ j = at /\ r # 0
    OBVIOUS
  <2>2. tabs[q][j].row \in 0..panes
    BY DEF Own, TabsOK, TabOK
  <2>3. r # 0
    BY <1>1, <1>4, <2>1, <2>2
  <2>4. at \in DOMAIN tabs[p] /\ tabs[p][at].row = row /\ row # 0
    BY <1>4, <2>3 DEF BeginsFor
  <2>5. QED BY <2>1, <2>3, <2>4 DEF Own, RowsApart
<1>7. r # 0 => at \in DOMAIN tabs[p] /\ tabs[p][at].row = row /\ ~tabs[p][at].live
  BY <1>4 DEF BeginsFor
<1>8. TabsOK'
  <2>1. SUFFICES ASSUME NEW q \in Procs, NEW i \in DOMAIN tabs[q] PROVE TabOK(q, i)'
    BY DEF TabsOK
  <2>2. TabOK(q, i)
    BY DEF Own, TabsOK
  <2>3. tabs[q][i].session # 0 => tabs[q][i].row # row
    BY <1>6, <1>7, <2>2 DEF TabOK
  <2>4. tabs[q][i].session # 0 =>
          SessionsOf(tabs[q][i].row)' = SessionsOf(tabs[q][i].row)
    BY <1>2, <2>3
  <2>5. tabs[q][i].row \in 0..panes'
    BY <1>1, <2>2 DEF TabOK
  <2>6. QED BY <2>2, <2>4, <2>5 DEF TabOK
<1>9. HeldOK'
  BY DEF Own, HeldOK, Alive
<1>10. RowsApart'
  BY DEF Own, RowsApart
<1>11. LayoutOK'
  BY <1>1 DEF Own, LayoutOK
<1>12. StartsOK'
  <2>1. SUFFICES ASSUME NEW q \in Procs, Starting(q)' PROVE StartOK(q)'
    BY DEF StartsOK
  \* Nobody else has begun a session for the row.
  <2>2. \A o \in Procs : o # p /\ Starting(o)' => Starting(o) /\ ui'[o].row # row
    <3>1. SUFFICES ASSUME NEW o \in Procs, o # p, Starting(o)', ui'[o].row = row
                   PROVE  FALSE
      BY <1>3 DEF Starting
    <3>2. Starting(o) /\ ui[o].row = row /\ StartOK(o)
      BY <1>3, <3>1 DEF Starting, Own, StartsOK
    <3>3. row \in 1..panes
      BY <1>5, <3>2 DEF StartOK
    <3>4. r # 0
      BY <1>1, <1>4, <3>3
    <3>5. ~FreshStart(o)
      BY <1>7, <3>2, <3>4 DEF StartOK
    <3>6. ui[o].at \in DOMAIN tabs[o] /\ tabs[o][ui[o].at].row = row
      BY <3>2, <3>5, <1>1 DEF StartOK, FreshStart
    <3>7. QED BY <1>6, <3>1, <3>6
  <2>3. CASE q = p
    <3>1. n \in SessionsOf(row)' /\ \A s \in SessionsOf(row)' : s <= n
      <4>1. SessionsOf(row)' = SessionsOf(row) \cup {n}
        BY <1>2
      <4>2. n \in Nat
        BY <1>1, <1>n
      <4>3. QED BY <4>1, <4>2, <1>5
    <3>2. at \in 1..(Len(tabs[p]) + 1)
      BY <1>1 DEF BeginsFor
    <3>3. at # Len(tabs[p]) + 1 => r # 0
      BY <1>1, <1>4 DEF BeginsFor, Own, TabsOK, TabOK
    <3>4. ASSUME at = Len(tabs[p]) + 1
          PROVE  /\ \A o \in Procs : \A j \in DOMAIN tabs[o] : tabs[o][j].row # row
                 /\ \A j \in DOMAIN layout : layout[j] # row
      <4>1. r = 0
        BY <3>4, <1>1 DEF BeginsFor
      <4>2. \A j \in DOMAIN layout : layout[j] # row
        BY <4>1, <1>1, <1>4 DEF Own, LayoutOK
      <4>3. QED BY <4>1, <4>2, <1>6
    <3>5. \A o \in Procs : Starting(o)' /\ ui'[o].row = ui'[p].row => o = p
      BY <2>2, <1>3
    <3>6. /\ ui'[p].session \in SessionsOf(ui[p].row)'
          /\ \A s \in SessionsOf(ui[p].row)' : s <= ui'[p].session
          /\ ui'[p].at \in 1..(Len(tabs[p]) + 1)
      BY <1>3, <3>1, <3>2 DEF SessionsOf
    <3>7. ui'[p].at # Len(tabs[p]) + 1 =>
            /\ tabs[p][ui'[p].at].row = ui'[p].row
            /\ ~tabs[p][ui'[p].at].live
      BY <1>3, <1>7, <3>3
    <3>8. ui'[p].at = Len(tabs[p]) + 1 =>
            /\ \A o \in Procs : \A j \in DOMAIN tabs[o] : tabs[o][j].row # ui'[p].row
            /\ \A j \in DOMAIN layout : layout[j] # ui'[p].row
      BY <1>3, <3>4
    <3>9. QED BY <2>3, <3>5, <3>6, <3>7, <3>8 DEF StartOK, FreshStart
  <2>4. CASE q # p
    <3>1. Starting(q) /\ ui'[q] = ui[q] /\ ui[q].row # row /\ StartOK(q)
      BY <1>3, <2>1, <2>2, <2>4 DEF Own, StartsOK
    <3>2. PICK x : x = ui[q].row
      OBVIOUS
    <3>3. SessionsOf(x)' = SessionsOf(x)
      BY <1>2, <3>1, <3>2
    <3>4. \A o \in Procs : Starting(o)' /\ ui'[o].row = x => o = q
      BY <1>3, <2>2, <3>1, <3>2 DEF StartOK
    <3>5. ui'[q].row = x /\ SessionsOf(ui[q].row)' = SessionsOf(x)'
      BY <3>1, <3>2 DEF SessionsOf
    <3>6. QED BY <3>1, <3>2, <3>3, <3>4, <3>5 DEF StartOK, FreshStart
  <2>5. QED BY <2>3, <2>4
<1>13. ClosesOK'
  BY <1>3 DEF Own, ClosesOK
<1>14. ProbesOK'
  BY DEF Own, ProbesOK
<1>15. QED BY <1>8, <1>9, <1>10, <1>11, <1>12, <1>13, <1>14 DEF Own

\* The lock is taken, or not; then the tab is there.
Locked(p, at, got) ==
  /\ tabs' \in [Procs -> Seq(TabType)]
  /\ \A q \in Procs : q # p => tabs'[q] = tabs[q]
  /\ DOMAIN tabs'[p] = DOMAIN tabs[p] \cup {at}
  /\ Len(tabs'[p]) \in {Len(tabs[p]), at}
  /\ tabs'[p][at].row = (IF got THEN ui[p].row ELSE 0)
  /\ tabs'[p][at].session = (IF got THEN ui[p].session ELSE 0)
  /\ tabs'[p][at].live
  /\ tabs'[p][at].mem = (IF at \in DOMAIN tabs[p] THEN tabs[p][at].mem ELSE <<>>)
  /\ \A j \in DOMAIN tabs[p] : j # at => tabs'[p][j] = tabs[p][j]
  /\ \A s \in 1..MaxSessions : s # ui[p].session => held'[s] = held[s]
  /\ held'[ui[p].session] = IF got THEN p ELSE held[ui[p].session]
  /\ got <=> held[ui[p].session] = "free"
  /\ ui[p].session \in 1..MaxSessions /\ ui[p].row \in 1..panes
  /\ ui'[p] = NoOp /\ \A q \in Procs : q # p => ui'[q] = ui[q]

\* What taking the lock does to tabs and locks.
LEMMA LockFacts ==
  ASSUME Types, Own, NEW p \in Procs, TakeLock(p)
  PROVE  \E got \in BOOLEAN : Locked(p, ui[p].at, got)
<1>1. StartOK(p)
  BY DEF TakeLock, Own, StartsOK, Starting
<1>2. /\ tabs \in [Procs -> Seq(TabType)] /\ ui \in [Procs -> UiType]
      /\ held \in [1..MaxSessions -> Procs \cup {"free", "probe"}]
      /\ sessions \in Seq(Nat) /\ Len(sessions) <= MaxSessions /\ MaxSessions \in Nat
      /\ \A s \in Sessions : sessions[s] \in 1..panes
  BY StoreAssumption DEF Types, DbTypes, ProcTypes
<1>3. PICK u, t : u = ui[p] /\ t = tabs[p]
  OBVIOUS
<1>4. t \in Seq(TabType) /\ Len(t) \in Nat /\ u.at \in 1..(Len(t) + 1) /\ u.at \in Nat
      /\ u.row \in Nat /\ u.session \in Nat
  BY <1>1, <1>2, <1>3 DEF StartOK, UiType
<1>5. u.session \in 1..MaxSessions /\ u.row \in 1..panes
  BY <1>1, <1>2, <1>3 DEF StartOK, SessionsOf, Sessions
<1>6. PICK got \in BOOLEAN : got <=> held[u.session] = "free"
  OBVIOUS
<1>7. PICK tab : tab = [row |-> IF got THEN u.row ELSE 0,
                        session |-> IF got THEN u.session ELSE 0, live |-> TRUE,
                        mem |-> IF u.at <= Len(t) THEN t[u.at].mem ELSE <<>>]
  OBVIOUS
<1>8. (IF u.at <= Len(t) THEN t[u.at].mem ELSE <<>>) \in Seq(Nat)
  <2>1. CASE u.at <= Len(t)
    <3>1. t[u.at] \in TabType
      BY <2>1, <1>4
    <3>2. QED BY <2>1, <3>1 DEF TabType
  <2>2. CASE ~(u.at <= Len(t))
    BY <2>2
  <2>3. QED BY <2>1, <2>2
<1>9. tab \in TabType
  BY <1>4, <1>7, <1>8 DEF TabType
<1>10. tabs' = [tabs EXCEPT ![p] = IF u.at <= Len(t) THEN [t EXCEPT ![u.at] = tab]
                                                     ELSE Append(t, tab)]
  BY <1>2, <1>3, <1>6, <1>7 DEF TakeLock
<1>11. PICK v : v = IF u.at <= Len(t) THEN [t EXCEPT ![u.at] = tab] ELSE Append(t, tab)
  OBVIOUS
<1>12. /\ v \in Seq(TabType) /\ DOMAIN v = DOMAIN t \cup {u.at} /\ v[u.at] = tab
       /\ Len(v) \in {Len(t), u.at} /\ \A j \in DOMAIN t : j # u.at => v[j] = t[j]
  <2>1. CASE u.at <= Len(t)
    <3>1. v = [t EXCEPT ![u.at] = tab] /\ u.at \in DOMAIN t
      BY <2>1, <1>4, <1>11
    <3>2. v \in Seq(TabType) /\ Len(v) = Len(t) /\ DOMAIN v = DOMAIN t
      BY <3>1, <1>4, <1>9
    <3>3. v[u.at] = tab /\ \A j \in DOMAIN t : j # u.at => v[j] = t[j]
      BY <3>1, <1>4
    <3>4. QED BY <3>1, <3>2, <3>3
  <2>2. CASE ~(u.at <= Len(t))
    <3>1. u.at = Len(t) + 1 /\ v = Append(t, tab)
      BY <2>2, <1>4, <1>11
    <3>2. v \in Seq(TabType) /\ Len(v) = Len(t) + 1 /\ v[Len(t) + 1] = tab
      BY <3>1, <1>4, <1>9
    <3>3. \A j \in DOMAIN t : v[j] = t[j]
      BY <3>1, <1>4
    <3>4. DOMAIN v = DOMAIN t \cup {u.at}
      BY <3>1, <3>2, <1>4
    <3>5. QED BY <3>1, <3>2, <3>3, <3>4
  <2>3. QED BY <2>1, <2>2
<1>13. /\ tabs' \in [Procs -> Seq(TabType)] /\ tabs'[p] = v
       /\ \A q \in Procs : q # p => tabs'[q] = tabs[q]
  BY <1>2, <1>10, <1>11, <1>12
<1>14. held' = IF got THEN [held EXCEPT ![u.session] = p] ELSE held
  BY <1>3, <1>6 DEF TakeLock
<1>15. /\ \A s \in 1..MaxSessions : s # u.session => held'[s] = held[s]
       /\ held'[u.session] = IF got THEN p ELSE held[u.session]
  BY <1>2, <1>5, <1>14
<1>16. ui'[p] = NoOp /\ \A q \in Procs : q # p => ui'[q] = ui[q]
  BY <1>2 DEF TakeLock
<1>17. /\ tab.row = (IF got THEN u.row ELSE 0)
       /\ tab.session = (IF got THEN u.session ELSE 0) /\ tab.live
       /\ tab.mem = (IF u.at \in DOMAIN t THEN t[u.at].mem ELSE <<>>)
  <2>1. u.at \in DOMAIN t <=> u.at <= Len(t)
    BY <1>4
  <2>2. QED BY <1>7, <2>1
<1>18. QED BY <1>3, <1>5, <1>6, <1>12, <1>13, <1>15, <1>16, <1>17 DEF Locked

\* The tab of a session just locked is the only one of its row.
LEMMA TakeLockOwns ==
  ASSUME Types, Own, NEW p \in Procs, TakeLock(p)
  PROVE  Own'
<1>1. StartOK(p) /\ Starting(p)
  BY DEF TakeLock, Own, StartsOK, Starting
<1>2. PICK u, n, row, at : u = ui[p] /\ n = ui[p].session /\ row = ui[p].row /\ at = ui[p].at
  OBVIOUS
<1>3. PICK got \in BOOLEAN : Locked(p, at, got)
  BY <1>2, LockFacts
<1>4. /\ tabs \in [Procs -> Seq(TabType)] /\ panes \in Nat
      /\ "free" \notin Procs /\ "probe" \notin Procs
  BY StoreAssumption DEF Types, DbTypes, ProcTypes
<1>5. UNCHANGED <<sessions, panes, layout, gc>>
  BY DEF TakeLock, dbVars
<1>6. \A x : SessionsOf(x)' = SessionsOf(x)
  BY <1>5 DEF SessionsOf, Sessions
<1>7. /\ n \in 1..MaxSessions /\ row \in 1..panes /\ row # 0 /\ n # 0
      /\ n \in SessionsOf(row) /\ \A s \in SessionsOf(row) : s <= n
  BY <1>1, <1>2, <1>3, <1>4 DEF Locked, StartOK
<1>8. got => held[n] = "free" /\ held'[n] = p
  BY <1>2, <1>3 DEF Locked
<1>9. \A s \in 1..MaxSessions : held[s] # "free" => held'[s] = held[s]
  BY <1>2, <1>3 DEF Locked
\* Of the tabs that were there, only the one restarted is of the row, and it is dead.
<1>10. \A q \in Procs : \A j \in DOMAIN tabs[q] : tabs[q][j].row = row => q = p /\ j = at
  <2>1. SUFFICES ASSUME NEW q \in Procs, NEW j \in DOMAIN tabs[q], tabs[q][j].row = row
                 PROVE  q = p /\ j = at
    OBVIOUS
  <2>2. ~FreshStart(p)
    BY <1>1, <1>2, <2>1 DEF StartOK
  <2>3. at \in DOMAIN tabs[p] /\ tabs[p][at].row = row
    BY <1>1, <1>2, <1>4, <2>2 DEF StartOK, FreshStart
  <2>4. QED BY <1>7, <2>1, <2>3 DEF Own, RowsApart
<1>11. at \in DOMAIN tabs[p] => ~tabs[p][at].live /\ tabs[p][at].session = 0
  <2>1. SUFFICES ASSUME at \in DOMAIN tabs[p] PROVE ~tabs[p][at].live /\ tabs[p][at].session = 0
    OBVIOUS
  <2>2. ~FreshStart(p)
    BY <1>2, <1>4, <2>1 DEF FreshStart
  <2>3. QED BY <1>1, <1>2, <2>1, <2>2 DEF StartOK, Own, TabsOK, TabOK
\* Every other tab is as it was.
<1>12. \A q \in Procs : \A j \in DOMAIN tabs'[q] :
         ~(q = p /\ j = at) => j \in DOMAIN tabs[q] /\ tabs'[q][j] = tabs[q][j]
  BY <1>3 DEF Locked
<1>13. TabsOK'
  <2>1. SUFFICES ASSUME NEW q \in Procs, NEW j \in DOMAIN tabs'[q] PROVE TabOK(q, j)'
    BY DEF TabsOK
  <2>2. CASE q = p /\ j = at
    <3>1. /\ tabs'[q][j].row = (IF got THEN row ELSE 0)
          /\ tabs'[q][j].session = (IF got THEN n ELSE 0) /\ tabs'[q][j].live
      BY <2>2, <1>2, <1>3 DEF Locked
    <3>2. CASE got
      <4>1. tabs'[q][j].row = row /\ tabs'[q][j].session = n /\ held'[n] = q
        BY <3>1, <3>2, <1>8, <2>2
      <4>2. row \in 0..panes'
        BY <1>4, <1>5, <1>7
      <4>3. QED BY <3>1, <4>1, <4>2, <1>5, <1>7 DEF TabOK, SessionsOf, Sessions
    <3>3. CASE ~got
      <4>1. tabs'[q][j].row = 0 /\ tabs'[q][j].session = 0 /\ 0 \in 0..panes'
        BY <3>1, <3>3, <1>4, <1>5
      <4>2. QED BY <3>1, <4>1 DEF TabOK
    <3>4. QED BY <3>2, <3>3
  <2>3. CASE ~(q = p /\ j = at)
    <3>1. j \in DOMAIN tabs[q] /\ tabs'[q][j] = tabs[q][j] /\ TabOK(q, j)
      BY <2>3, <1>12 DEF Own, TabsOK
    <3>2. tabs[q][j].session # 0 => held'[tabs[q][j].session] = q
      <4>1. SUFFICES ASSUME tabs[q][j].session # 0 PROVE held'[tabs[q][j].session] = q
        OBVIOUS
      <4>2. held[tabs[q][j].session] = q /\ tabs[q][j].session \in Sessions
        BY <3>1, <4>1 DEF TabOK, SessionsOf
      <4>3. tabs[q][j].session \in 1..MaxSessions
        BY <4>2, StoreAssumption DEF Sessions, Types, DbTypes
      <4>4. QED BY <4>2, <4>3, <1>4, <1>9
    <3>3. QED BY <3>1, <3>2, <1>5 DEF TabOK, SessionsOf, Sessions
  <2>4. QED BY <2>2, <2>3
<1>14. HeldOK'
  <2>1. SUFFICES ASSUME NEW s \in 1..MaxSessions, held'[s] \in Procs
                 PROVE  \E i \in DOMAIN tabs'[held'[s]] : tabs'[held'[s]][i].session = s
    BY DEF HeldOK, Alive
  <2>2. CASE s = n /\ got
    <3>1. held'[s] = p /\ at \in DOMAIN tabs'[p] /\ tabs'[p][at].session = s
      BY <2>2, <1>2, <1>3 DEF Locked
    <3>2. QED BY <3>1
  <2>3. CASE ~(s = n /\ got)
    <3>1. held'[s] = held[s]
      BY <2>3, <1>2, <1>3 DEF Locked
    <3>2. PICK i \in DOMAIN tabs[held[s]] : tabs[held[s]][i].session = s
      BY <2>1, <3>1 DEF Own, HeldOK, Alive
    <3>3. s # 0
      OBVIOUS
    <3>4. ~(held[s] = p /\ i = at)
      BY <3>2, <3>3, <1>11
    <3>5. i \in DOMAIN tabs'[held[s]] /\ tabs'[held[s]][i] = tabs[held[s]][i]
      BY <2>1, <3>1, <3>2, <3>4, <1>3 DEF Locked
    <3>6. QED BY <3>1, <3>2, <3>5
  <2>4. QED BY <2>2, <2>3
<1>15. RowsApart'
  <2>1. tabs'[p][at].row \in {row, 0}
    BY <1>2, <1>3 DEF Locked
  <2>2. SUFFICES ASSUME NEW q \in Procs, NEW o \in Procs,
                        NEW i \in DOMAIN tabs'[q], NEW j \in DOMAIN tabs'[o],
                        tabs'[q][i].row = tabs'[o][j].row, tabs'[q][i].row # 0
                 PROVE  q = o /\ i = j
    BY DEF RowsApart
  <2>3. CASE ~(q = p /\ i = at) /\ ~(o = p /\ j = at)
    BY <2>2, <2>3, <1>12 DEF Own, RowsApart
  <2>4. CASE q = p /\ i = at /\ ~(o = p /\ j = at)
    BY <2>1, <2>2, <2>4, <1>10, <1>12
  <2>5. CASE o = p /\ j = at /\ ~(q = p /\ i = at)
    BY <2>1, <2>2, <2>5, <1>10, <1>12
  <2>6. QED BY <2>3, <2>4, <2>5
<1>16. LayoutOK'
  BY <1>5 DEF Own, LayoutOK
<1>17. StartsOK'
  <2>1. SUFFICES ASSUME NEW q \in Procs, Starting(q)' PROVE StartOK(q)'
    BY DEF StartsOK
  <2>2. \A o \in Procs : Starting(o)' => o # p /\ Starting(o) /\ ui'[o] = ui[o]
    BY <1>3 DEF Locked, Starting, NoOp
  <2>3. q # p /\ StartOK(q) /\ ui'[q] = ui[q] /\ tabs'[q] = tabs[q] /\ Starting(q)
    BY <2>1, <2>2, <1>3 DEF Own, StartsOK, Locked
  <2>4. ui[q].row # row /\ ui[q].row \in 1..panes
    BY <2>3, <1>1, <1>2 DEF StartOK, SessionsOf, Types, DbTypes
  <2>5. ASSUME FreshStart(q)'
        PROVE  \A o \in Procs : \A j \in DOMAIN tabs'[o] : tabs'[o][j].row # ui'[q].row
    <3>1. FreshStart(q)
      BY <2>3, <2>5 DEF FreshStart
    <3>2. \A o \in Procs : \A j \in DOMAIN tabs[o] : tabs[o][j].row # ui[q].row
      BY <2>3, <3>1 DEF StartOK
    <3>3. tabs'[p][at].row \in {row, 0} /\ ui[q].row # 0
      BY <1>2, <1>3, <1>4, <2>4 DEF Locked
    <3>4. QED BY <3>2, <3>3, <1>12, <2>3, <2>4
  <2>6. /\ ui'[q].session \in SessionsOf(ui[q].row)'
        /\ \A s \in SessionsOf(ui[q].row)' : s <= ui'[q].session
    BY <2>3, <1>5 DEF StartOK, SessionsOf, Sessions
  <2>7. FreshStart(q)' <=> FreshStart(q)
    BY <2>3 DEF FreshStart
  <2>8. \A o \in Procs : Starting(o)' /\ ui'[o].row = ui'[q].row => o = q
    BY <2>2, <2>3 DEF StartOK
  <2>9. /\ ui'[q].at \in 1..(Len(tabs'[q]) + 1)
        /\ ~FreshStart(q)' => /\ tabs'[q][ui'[q].at].row = ui'[q].row
                              /\ ~tabs'[q][ui'[q].at].live
        /\ FreshStart(q)' => \A j \in DOMAIN layout' : layout'[j] # ui'[q].row
    BY <2>3, <2>7, <1>5 DEF StartOK
  <2>10. QED BY <2>5, <2>6, <2>8, <2>9 DEF StartOK
<1>18. ClosesOK'
  BY <1>3 DEF Own, ClosesOK, Locked, NoOp
<1>19. ProbesOK'
  <2>1. \A q \in Procs : gc[q].probing \in 0..MaxSessions
    BY DEF Types, ProcTypes, IsGc
  <2>2. \A q \in Procs : gc[q].probing # 0 =>
           gc[q].probing \in 1..MaxSessions /\ held[gc[q].probing] = "probe"
    BY <2>1 DEF Own, ProbesOK
  <2>3. \A q \in Procs : gc[q].probing # 0 => held'[gc[q].probing] = "probe"
    BY <2>2, <1>9
  <2>4. QED BY <2>3, <1>5 DEF Own, ProbesOK
<1>20. QED BY <1>13, <1>14, <1>15, <1>16, <1>17, <1>18, <1>19 DEF Own

\* A process keeps some of its tabs, or all, and gives back the locks of the others.
Drops(p, f) ==
  /\ UNCHANGED <<sessions, panes>>
  /\ \A q \in Procs : q # p => tabs'[q] = tabs[q] /\ ui'[q] = ui[q]
  /\ ui'[p].op # "start" /\ (ui'[p].op = "close" => ui'[p].at \in DOMAIN tabs'[p])
  /\ \A j \in DOMAIN tabs'[p] : f[j] \in DOMAIN tabs[p] /\ tabs'[p][j] = tabs[p][f[j]]
  /\ \A i, j \in DOMAIN tabs'[p] : f[i] = f[j] => i = j
  /\ \A s \in 1..MaxSessions : held'[s] \in {held[s], "free"}
  /\ \A s \in 1..MaxSessions : held[s] \in Procs \ {p} => held'[s] = held[s]
  /\ \A j \in DOMAIN tabs'[p] : tabs'[p][j].session # 0 => held'[tabs'[p][j].session] = p
  /\ \A s \in 1..MaxSessions : held'[s] = p =>
       \E j \in DOMAIN tabs'[p] : tabs'[p][j].session = s
  /\ \A q \in Procs : /\ gc'[q].probing \in {0, gc[q].probing}
                      /\ gc'[q].probing # 0 => held'[gc'[q].probing] = "probe"
  /\ \A i \in DOMAIN layout' : \/ \E k \in DOMAIN layout : layout'[i] = layout[k]
                               \/ \E k \in DOMAIN tabs[p] : /\ layout'[i] = tabs[p][k].row
                                                            /\ layout'[i] # 0
  /\ \A i, j \in DOMAIN layout' : layout'[i] = layout'[j] => i = j

\* Tabs that go, with their locks, leave the others' ownership.
LEMMA OwnDrops ==
  ASSUME Types, Own, NEW p \in Procs, NEW f, Drops(p, f)
  PROVE  Own'
<1>1. /\ "free" \notin Procs /\ "probe" \notin Procs
      /\ MaxSessions \in Nat /\ panes \in Nat /\ UNCHANGED <<sessions, panes>>
  BY StoreAssumption DEF Types, DbTypes, Drops
<1>2. \A x : SessionsOf(x)' = SessionsOf(x)
  BY <1>1 DEF SessionsOf, Sessions
<1>3. \A q \in Procs : q # p => tabs'[q] = tabs[q] /\ ui'[q] = ui[q]
  BY DEF Drops
<1>4. /\ \A j \in DOMAIN tabs'[p] : f[j] \in DOMAIN tabs[p] /\ tabs'[p][j] = tabs[p][f[j]]
      /\ \A i, j \in DOMAIN tabs'[p] : f[i] = f[j] => i = j
  BY DEF Drops
<1>5. \A q \in Procs : \A j \in DOMAIN tabs'[q] :
        \E i \in DOMAIN tabs[q] : tabs'[q][j] = tabs[q][i]
  BY <1>3, <1>4
<1>6. TabsOK'
  <2>1. SUFFICES ASSUME NEW q \in Procs, NEW j \in DOMAIN tabs'[q] PROVE TabOK(q, j)'
    BY DEF TabsOK
  <2>2. PICK i \in DOMAIN tabs[q] : tabs'[q][j] = tabs[q][i]
    BY <1>5
  <2>3. TabOK(q, i)
    BY DEF Own, TabsOK
  <2>4. tabs'[q][j].session # 0 => held'[tabs'[q][j].session] = q
    <3>1. CASE q = p
      BY <3>1 DEF Drops
    <3>2. CASE q # p
      <4>1. SUFFICES ASSUME tabs'[q][j].session # 0 PROVE held'[tabs'[q][j].session] = q
        OBVIOUS
      <4>2. tabs'[q][j].session \in 1..MaxSessions /\ held[tabs'[q][j].session] = q
        BY <2>2, <2>3, <4>1, <1>1 DEF TabOK, SessionsOf, Sessions, Types, DbTypes
      <4>3. QED BY <3>2, <4>2 DEF Drops
    <3>3. QED BY <3>1, <3>2
  <2>5. QED BY <2>2, <2>3, <2>4, <1>1 DEF TabOK, SessionsOf, Sessions
<1>7. HeldOK'
  <2>1. SUFFICES ASSUME NEW s \in 1..MaxSessions, held'[s] \in Procs
                 PROVE  \E i \in DOMAIN tabs'[held'[s]] : tabs'[held'[s]][i].session = s
    BY DEF HeldOK, Alive
  <2>2. held'[s] = held[s]
    BY <2>1, <1>1 DEF Drops
  <2>3. CASE held'[s] = p
    BY <2>3 DEF Drops
  <2>4. CASE held'[s] # p
    <3>1. PICK i \in DOMAIN tabs[held[s]] : tabs[held[s]][i].session = s
      BY <2>1, <2>2 DEF Own, HeldOK, Alive
    <3>2. tabs'[held[s]] = tabs[held[s]]
      BY <2>1, <2>2, <2>4, <1>3
    <3>3. QED BY <2>2, <3>1, <3>2
  <2>5. QED BY <2>3, <2>4
<1>8. RowsApart'
  <2>1. SUFFICES ASSUME NEW q \in Procs, NEW o \in Procs,
                        NEW i \in DOMAIN tabs'[q], NEW j \in DOMAIN tabs'[o],
                        tabs'[q][i].row = tabs'[o][j].row, tabs'[q][i].row # 0
                 PROVE  q = o /\ i = j
    BY DEF RowsApart
  <2>2. q = o
    BY <2>1, <1>5 DEF Own, RowsApart
  <2>3. CASE q = p
    <3>1. f[i] = f[j]
      BY <2>1, <2>2, <2>3, <1>4 DEF Own, RowsApart
    <3>2. QED BY <2>2, <2>3, <3>1, <1>4
  <2>4. CASE q # p
    BY <2>1, <2>2, <2>4, <1>3 DEF Own, RowsApart
  <2>5. QED BY <2>2, <2>3, <2>4
<1>9. \A k \in DOMAIN tabs[p] : tabs[p][k].row # 0 => tabs[p][k].row \in 1..panes
  BY <1>1 DEF Own, TabsOK, TabOK
<1>10. LayoutOK'
  <2>1. \A i \in DOMAIN layout' : layout'[i] \in 1..panes
    BY <1>9 DEF Drops, Own, LayoutOK
  <2>2. QED BY <2>1, <1>1 DEF LayoutOK, Drops
<1>11. StartsOK'
  <2>1. SUFFICES ASSUME NEW q \in Procs, Starting(q)' PROVE StartOK(q)'
    BY DEF StartsOK
  <2>2. \A o \in Procs : Starting(o)' => o # p /\ Starting(o) /\ ui'[o] = ui[o]
    BY <1>3 DEF Drops, Starting
  <2>3. q # p /\ StartOK(q) /\ ui'[q] = ui[q] /\ tabs'[q] = tabs[q] /\ Starting(q)
    BY <2>1, <2>2, <1>3 DEF Own, StartsOK
  <2>4. FreshStart(q)' <=> FreshStart(q)
    BY <2>3 DEF FreshStart
  <2>5. /\ ui'[q].session \in SessionsOf(ui[q].row)'
        /\ \A s \in SessionsOf(ui[q].row)' : s <= ui'[q].session
    BY <2>3, <1>1 DEF StartOK, SessionsOf, Sessions
  <2>6. ASSUME FreshStart(q)'
        PROVE  /\ \A o \in Procs : \A j \in DOMAIN tabs'[o] : tabs'[o][j].row # ui'[q].row
               /\ \A j \in DOMAIN layout' : layout'[j] # ui'[q].row
    <3>1. /\ \A o \in Procs : \A j \in DOMAIN tabs[o] : tabs[o][j].row # ui[q].row
          /\ \A j \in DOMAIN layout : layout[j] # ui[q].row
      BY <2>3, <2>4, <2>6 DEF StartOK
    <3>2. \A o \in Procs : \A j \in DOMAIN tabs'[o] : tabs'[o][j].row # ui'[q].row
      BY <3>1, <2>3, <1>5
    <3>3. \A j \in DOMAIN layout' : layout'[j] # ui'[q].row
      BY <3>1, <2>3 DEF Drops
    <3>4. QED BY <3>2, <3>3
  <2>7. \A o \in Procs : Starting(o)' /\ ui'[o].row = ui'[q].row => o = q
    BY <2>2, <2>3 DEF StartOK
  <2>8. /\ ui'[q].at \in 1..(Len(tabs'[q]) + 1)
        /\ ~FreshStart(q)' => /\ tabs'[q][ui'[q].at].row = ui'[q].row
                              /\ ~tabs'[q][ui'[q].at].live
    BY <2>3, <2>4 DEF StartOK
  <2>9. QED BY <2>5, <2>6, <2>7, <2>8 DEF StartOK
<1>12. ClosesOK'
  BY <1>3 DEF Own, ClosesOK, Drops
<1>13. ProbesOK'
  BY DEF Own, ProbesOK, Drops
<1>14. QED BY <1>6, <1>7, <1>8, <1>10, <1>11, <1>12, <1>13 DEF Own

\* The locks of a process are of its tabs, and a collector's is nobody's.
LEMMA HeldFacts ==
  ASSUME Types, Own
  PROVE  /\ \A q \in Procs : gc[q].probing # 0 =>
              gc[q].probing \in 1..MaxSessions /\ held[gc[q].probing] = "probe"
         /\ "free" \notin Procs /\ "probe" \notin Procs
         /\ \A q \in Procs : \A i \in DOMAIN tabs[q] : tabs[q][i].session # 0 =>
              tabs[q][i].session \in 1..MaxSessions /\ held[tabs[q][i].session] = q
<1>1. MaxSessions \in Nat /\ Len(sessions) \in Nat /\ Len(sessions) <= MaxSessions
  BY StoreAssumption DEF Types, DbTypes
<1>2. \A q \in Procs : gc[q].probing # 0 => gc[q].probing \in 1..MaxSessions
  <2>1. \A q \in Procs : gc[q].probing \in 0..MaxSessions
    BY DEF Types, ProcTypes, IsGc
  <2>2. QED BY <1>1, <2>1
<1>3. ASSUME NEW q \in Procs, NEW i \in DOMAIN tabs[q], tabs[q][i].session # 0
      PROVE  tabs[q][i].session \in 1..MaxSessions /\ held[tabs[q][i].session] = q
  <2>1. TabOK(q, i)
    BY DEF Own, TabsOK
  <2>2. QED BY <2>1, <1>1, <1>3 DEF TabOK, SessionsOf, Sessions
<1>4. QED BY <1>2, <1>3, StoreAssumption DEF Own, ProbesOK

\* Two tabs are of two sessions.
LEMMA SessionsApart ==
  ASSUME Types, Own, NEW p \in Procs, NEW i \in DOMAIN tabs[p], NEW j \in DOMAIN tabs[p],
         tabs[p][i].session # 0, tabs[p][i].session = tabs[p][j].session
  PROVE  i = j
<1>1. TabOK(p, i) /\ TabOK(p, j)
  BY DEF Own, TabsOK
<1>2. tabs[p][i].row = tabs[p][j].row /\ tabs[p][i].row # 0
  BY <1>1 DEF TabOK, SessionsOf, Types, DbTypes
<1>3. QED BY <1>2 DEF Own, RowsApart

\* What is saved is rows of tabs, each once, or the layout saved before.
LEMMA SavedFacts ==
  ASSUME Types, Own, NEW p \in Procs
  PROVE  /\ SavedLayout(p) \in Seq(Nat)
         /\ \A i \in DOMAIN SavedLayout(p) :
              \/ \E k \in DOMAIN layout : SavedLayout(p)[i] = layout[k]
              \/ \E k \in DOMAIN tabs[p] : /\ SavedLayout(p)[i] = tabs[p][k].row
                                           /\ SavedLayout(p)[i] # 0
         /\ \A i, j \in DOMAIN SavedLayout(p) : SavedLayout(p)[i] = SavedLayout(p)[j] => i = j
<1>1. layout \in Seq(Nat) /\ tabs[p] \in Seq(TabType)
  BY DEF Types, DbTypes, ProcTypes
<1> DEFINE places == {i \in DOMAIN tabs[p] : tabs[p][i].row # 0}
           t == Keep(tabs[p], places)
<1>2. t \in Seq(TabType)
  BY <1>1, KeepType
<1>3. PICK from : KeptFrom(from, tabs[p], places)
  BY <1>1, KeepPlaces
<1>4. /\ \A k \in 1..Len(t) : from[k] \in 1..Len(tabs[p]) \cap places /\ t[k] = tabs[p][from[k]]
      /\ \A j, k \in 1..Len(t) : j < k => from[j] < from[k]
  BY <1>3 DEF KeptFrom
<1>5. PICK v : v = t
  OBVIOUS
<1>6. /\ v \in Seq(TabType) /\ Len(v) \in Nat
      /\ \A k \in 1..Len(v) : /\ from[k] \in DOMAIN tabs[p] /\ from[k] \in Nat
                              /\ v[k] = tabs[p][from[k]] /\ v[k].row # 0
      /\ \A j, k \in 1..Len(v) : j < k => from[j] < from[k]
  <2>1. v \in Seq(TabType) /\ Len(v) \in Nat /\ \A k \in 1..Len(v) : v[k] = tabs[p][from[k]]
    BY <1>2, <1>4, <1>5
  <2>2. \A k \in 1..Len(v) : from[k] \in 1..Len(tabs[p]) /\ from[k] \in places
    BY <1>4, <1>5
  <2>3. \A k \in 1..Len(v) : from[k] \in DOMAIN tabs[p] /\ tabs[p][from[k]].row # 0
    BY <2>2
  <2>4. \A k \in 1..Len(v) : from[k] \in Nat
    BY <1>1, <2>2
  <2>5. \A j, k \in 1..Len(v) : j < k => from[j] < from[k]
    BY <1>4, <1>5
  <2>6. QED BY <2>1, <2>3, <2>4, <2>5
<1>7. Mapped(p) = [i \in 1..Len(v) |-> v[i].row]
  BY <1>5 DEF Mapped
<1>8. \A i \in 1..Len(v) : v[i].row \in Nat
  <2>1. \A i \in 1..Len(v) : v[i] \in TabType
    BY <1>6
  <2>2. QED BY <2>1 DEF TabType
<1>9. Mapped(p) \in Seq(Nat) /\ Len(Mapped(p)) = Len(v) /\ DOMAIN Mapped(p) = 1..Len(v)
  BY <1>6, <1>7, <1>8
<1>10. \A i \in 1..Len(v) : Mapped(p)[i] = v[i].row
  BY <1>7
<1>11. ASSUME NEW i \in 1..Len(v), NEW j \in 1..Len(v), Mapped(p)[i] = Mapped(p)[j] PROVE i = j
  <2>1. from[i] = from[j]
    BY <1>6, <1>10, <1>11 DEF Own, RowsApart
  <2>2. i \in Nat /\ j \in Nat /\ ~(i < j) /\ ~(j < i)
    BY <1>6, <2>1
  <2>3. QED BY <2>2
<1>12. CASE Mapped(p) = <<>>
  BY <1>1, <1>12 DEF SavedLayout, Own, LayoutOK
<1>13. CASE Mapped(p) # <<>>
  <2>1. SavedLayout(p) = Mapped(p)
    BY <1>13 DEF SavedLayout
  <2>2. QED BY <2>1, <1>6, <1>9, <1>10, <1>11
<1>14. QED BY <1>12, <1>13

\* A sequence without one entry.
LEMMA RemoveFacts ==
  ASSUME NEW S, NEW t \in Seq(S), NEW i \in 1..Len(t)
  PROVE  /\ RemoveAt(t, i) \in Seq(S) /\ Len(RemoveAt(t, i)) = Len(t) - 1
         /\ DOMAIN RemoveAt(t, i) = 1..(Len(t) - 1)
         /\ \A j \in 1..(Len(t) - 1) :
              RemoveAt(t, i)[j] = t[IF j < i THEN j ELSE j + 1]
<1>1. Len(t) \in Nat /\ i \in Nat /\ i - 1 \in 0..Len(t) /\ i + 1 \in 1..(Len(t) + 1)
  OBVIOUS
<1> DEFINE a == SubSeq(t, 1, i - 1)
           b == SubSeq(t, i + 1, Len(t))
<1>2. /\ a \in Seq(S) /\ Len(a) = i - 1 /\ \A j \in 1..(i - 1) : a[j] = t[j]
  BY <1>1
<1>3. /\ b \in Seq(S) /\ Len(b) = Len(t) - i /\ \A j \in 1..(Len(t) - i) : b[j] = t[i + j]
  BY <1>1
<1>4. RemoveAt(t, i) = a \o b
  BY DEF RemoveAt
<1> HIDE DEF a, b
<1>5. /\ a \o b \in Seq(S) /\ Len(a \o b) = Len(t) - 1
      /\ \A j \in 1..(Len(t) - 1) :
           (a \o b)[j] = IF j <= Len(a) THEN a[j] ELSE b[j - Len(a)]
  <2>1. a \in Seq(S) /\ b \in Seq(S)
    BY <1>2, <1>3
  <2>2. a \o b \in Seq(S) /\ Len(a \o b) = Len(a) + Len(b)
    BY <2>1
  <2>3. \A j \in 1..(Len(a) + Len(b)) :
          (a \o b)[j] = IF j <= Len(a) THEN a[j] ELSE b[j - Len(a)]
    BY <2>1
  <2>4. Len(a) + Len(b) = Len(t) - 1
    BY <1>1, <1>2, <1>3
  <2>5. QED BY <2>2, <2>3, <2>4
<1>6. ASSUME NEW j \in 1..(Len(t) - 1)
      PROVE  (a \o b)[j] = t[IF j < i THEN j ELSE j + 1]
  <2>1. CASE j < i
    BY <2>1, <1>1, <1>2, <1>5
  <2>2. CASE ~(j < i)
    <3>1. j - (i - 1) \in 1..(Len(t) - i) /\ i + (j - (i - 1)) = j + 1 /\ ~(j <= i - 1)
      BY <2>2, <1>1
    <3>2. b[j - (i - 1)] = t[i + (j - (i - 1))]
      BY <3>1, <1>3
    <3>3. (a \o b)[j] = b[j - (i - 1)]
      BY <3>1, <1>2, <1>5
    <3>4. QED BY <2>2, <3>1, <3>2, <3>3
  <2>3. QED BY <2>1, <2>2
<1>7. QED BY <1>1, <1>4, <1>5, <1>6

\* A closed tab is gone, the others move up.
Closed(p, at) ==
  /\ at \in 1..Len(tabs[p]) /\ tabs' \in [Procs -> Seq(TabType)]
  /\ \A q \in Procs : q # p => tabs'[q] = tabs[q] /\ ui'[q] = ui[q]
  /\ ui'[p] = NoOp
  /\ Len(tabs'[p]) = Len(tabs[p]) - 1 /\ DOMAIN tabs'[p] = 1..(Len(tabs[p]) - 1)
  /\ \A j \in 1..(Len(tabs[p]) - 1) : tabs'[p][j] = tabs[p][IF j < at THEN j ELSE j + 1]
  /\ \A s \in 1..MaxSessions : s # tabs[p][at].session => held'[s] = held[s]
  /\ tabs[p][at].session # 0 =>
       /\ held'[tabs[p][at].session] = "free" /\ writer[tabs[p][at].session].q = <<>>

\* What the end of a close does to tabs and locks.
LEMMA CloseFacts ==
  ASSUME Types, Own, NEW p \in Procs, EndClose(p)
  PROVE  Closed(p, ui[p].at)
<1>1. PICK t, at, s : t = tabs[p] /\ at = ui[p].at /\ s = tabs[p][ui[p].at].session
  OBVIOUS
<1>2. /\ tabs \in [Procs -> Seq(TabType)] /\ ui \in [Procs -> UiType]
      /\ held \in [1..MaxSessions -> Procs \cup {"free", "probe"}]
      /\ t \in Seq(TabType) /\ at \in 1..Len(t) /\ s = t[at].session
  BY <1>1 DEF Types, ProcTypes, EndClose, Own, ClosesOK
<1>3. PICK v : v = RemoveAt(t, at)
  OBVIOUS
<1>4. /\ v \in Seq(TabType) /\ Len(v) = Len(t) - 1 /\ DOMAIN v = 1..(Len(t) - 1)
      /\ \A j \in 1..(Len(t) - 1) : v[j] = t[IF j < at THEN j ELSE j + 1]
  BY <1>2, <1>3, RemoveFacts
<1>5. tabs' = [tabs EXCEPT ![p] = v]
  BY <1>1, <1>3 DEF EndClose
<1>6. /\ tabs' \in [Procs -> Seq(TabType)] /\ tabs'[p] = v
      /\ \A q \in Procs : q # p => tabs'[q] = tabs[q]
  BY <1>2, <1>4, <1>5
<1>7. held' = IF s = 0 THEN held ELSE [held EXCEPT ![s] = "free"]
  BY <1>1 DEF EndClose
<1>8. s # 0 => s \in 1..MaxSessions
  BY <1>1, <1>2, HeldFacts
<1>9. /\ \A x \in 1..MaxSessions : x # s => held'[x] = held[x]
      /\ s # 0 => held'[s] = "free" /\ writer[s].q = <<>>
  BY <1>1, <1>2, <1>7, <1>8 DEF EndClose, Drained
<1>10. ui'[p] = NoOp /\ \A q \in Procs : q # p => ui'[q] = ui[q]
  BY <1>2 DEF EndClose
<1>11. QED BY <1>1, <1>2, <1>4, <1>6, <1>9, <1>10 DEF Closed

\* The end of a close keeps the ownership of the rows.
LEMMA EndCloseOwns ==
  ASSUME Types, Own, NEW p \in Procs, EndClose(p)
  PROVE  Own'
<1>1. PICK t, at, s : t = tabs[p] /\ at = ui[p].at /\ s = tabs[p][ui[p].at].session
  OBVIOUS
<1>2. Closed(p, at)
  BY <1>1, CloseFacts
<1>3. t \in Seq(TabType) /\ at \in 1..Len(t) /\ s = t[at].session /\ Len(t) \in Nat
  BY <1>1, <1>2 DEF Types, ProcTypes, Closed
<1>4. PICK f : f = [j \in 1..(Len(t) - 1) |-> IF j < at THEN j ELSE j + 1]
  OBVIOUS
<1>5. \A j \in 1..(Len(t) - 1) : f[j] \in 1..Len(t) /\ f[j] # at
  BY <1>3, <1>4
<1>6. /\ DOMAIN tabs'[p] = 1..(Len(t) - 1)
      /\ \A j \in 1..(Len(t) - 1) : tabs'[p][j] = t[f[j]]
  BY <1>1, <1>2, <1>4 DEF Closed
<1>7. \A i, j \in 1..(Len(t) - 1) : f[i] = f[j] => i = j
  BY <1>3, <1>4
<1>8. \A k \in 1..Len(t) : k # at => \E j \in 1..(Len(t) - 1) : f[j] = k
  <2>1. SUFFICES ASSUME NEW k \in 1..Len(t), k # at
                 PROVE  \E j \in 1..(Len(t) - 1) : f[j] = k
    OBVIOUS
  <2>2. CASE k < at
    <3>1. k \in 1..(Len(t) - 1) /\ f[k] = k
      BY <2>2, <1>3, <1>4
    <3>2. QED BY <3>1
  <2>3. CASE ~(k < at)
    <3>1. k - 1 \in 1..(Len(t) - 1) /\ ~(k - 1 < at) /\ (k - 1) + 1 = k
      BY <2>1, <2>3, <1>3
    <3>2. f[k - 1] = k
      BY <3>1, <1>4
    <3>3. QED BY <3>1, <3>2
  <2>4. QED BY <2>2, <2>3
<1>9. DOMAIN t = 1..Len(t) /\ DOMAIN tabs[p] = 1..Len(t)
  BY <1>1, <1>3
<1>10. /\ "free" \notin Procs /\ "probe" \notin Procs
       /\ \A q \in Procs : gc[q].probing # 0 =>
            gc[q].probing \in 1..MaxSessions /\ held[gc[q].probing] = "probe"
       /\ \A i \in DOMAIN tabs[p] : tabs[p][i].session # 0 =>
            tabs[p][i].session \in 1..MaxSessions /\ held[tabs[p][i].session] = p
  BY HeldFacts
<1>11. s # 0 => s \in 1..MaxSessions /\ held[s] = p /\ held'[s] = "free"
  BY <1>1, <1>2, <1>3, <1>9, <1>10 DEF Closed
<1>12. \A x \in 1..MaxSessions : x # s => held'[x] = held[x]
  BY <1>1, <1>2 DEF Closed
<1>13. \A k \in 1..Len(t) : k # at /\ t[k].session # 0 => held'[t[k].session] = p
  <2>1. SUFFICES ASSUME NEW k \in 1..Len(t), k # at, t[k].session # 0
                 PROVE  held'[t[k].session] = p
    OBVIOUS
  <2>2. t[k].session # s
    BY <2>1, <1>1, <1>3, <1>9, SessionsApart
  <2>3. QED BY <2>1, <2>2, <1>1, <1>9, <1>10, <1>12
<1>14. ASSUME NEW x \in 1..MaxSessions, held'[x] = p
       PROVE  \E j \in DOMAIN tabs'[p] : tabs'[p][j].session = x
  <2>1. x # s /\ held[x] = p /\ x # 0
    BY <1>10, <1>11, <1>12, <1>14
  <2>2. PICK k \in DOMAIN tabs[p] : tabs[p][k].session = x
    BY <2>1 DEF Own, HeldOK, Alive
  <2>3. k \in 1..Len(t) /\ k # at
    BY <2>1, <2>2, <1>1, <1>9
  <2>4. PICK j \in 1..(Len(t) - 1) : f[j] = k
    BY <2>3, <1>8
  <2>5. QED BY <2>2, <2>4, <1>1, <1>6
<1>15. Drops(p, f)
  <2>1. UNCHANGED <<sessions, panes, layout, gc>>
    BY DEF EndClose, dbVars
  <2>2. \A q \in Procs : q # p => tabs'[q] = tabs[q] /\ ui'[q] = ui[q]
    BY <1>2 DEF Closed
  <2>3. ui'[p].op # "start" /\ ui'[p].op # "close"
    BY <1>2 DEF Closed, NoOp
  <2>4. \A j \in DOMAIN tabs'[p] : f[j] \in DOMAIN tabs[p] /\ tabs'[p][j] = tabs[p][f[j]]
    BY <1>1, <1>5, <1>6, <1>9
  <2>5. \A i, j \in DOMAIN tabs'[p] : f[i] = f[j] => i = j
    BY <1>6, <1>7
  <2>6. \A x \in 1..MaxSessions : held'[x] \in {held[x], "free"}
    BY <1>11, <1>12
  <2>7. \A x \in 1..MaxSessions : held[x] \in Procs \ {p} => held'[x] = held[x]
    BY <1>11, <1>12
  <2>8. \A j \in DOMAIN tabs'[p] : tabs'[p][j].session # 0 => held'[tabs'[p][j].session] = p
    BY <1>5, <1>6, <1>13
  <2>9. \A q \in Procs : /\ gc'[q].probing \in {0, gc[q].probing}
                         /\ gc'[q].probing # 0 => held'[gc'[q].probing] = "probe"
    BY <2>1, <1>10, <1>11, <1>12
  <2>10. /\ \A i \in DOMAIN layout' : \E k \in DOMAIN layout : layout'[i] = layout[k]
         /\ \A i, j \in DOMAIN layout' : layout'[i] = layout'[j] => i = j
    BY <2>1 DEF Own, LayoutOK
  <2>11. QED BY <2>1, <2>2, <2>3, <2>4, <2>5, <2>6, <2>7, <2>8, <2>9, <2>10, <1>14 DEF Drops
<1>16. QED BY <1>15, OwnDrops

\* A process that ends, by itself or not.
LEMMA GoneOwns ==
  ASSUME Types, Own, NEW p \in Procs, Gone(p), UNCHANGED <<sessions, panes>>,
         layout' \in {layout, SavedLayout(p)}
  PROVE  Own'
<1>1. /\ tabs'[p] = <<>> /\ ui'[p] = NoOp /\ gc'[p] = NoGc
      /\ \A q \in Procs : q # p => tabs'[q] = tabs[q] /\ ui'[q] = ui[q] /\ gc'[q] = gc[q]
  BY DEF Gone, Types, ProcTypes
<1>2. DOMAIN tabs'[p] = {}
  BY <1>1
<1>3. /\ "free" \notin Procs /\ "probe" \notin Procs
      /\ \A q \in Procs : gc[q].probing # 0 =>
           gc[q].probing \in 1..MaxSessions /\ held[gc[q].probing] = "probe"
  BY HeldFacts
<1>4. \A s \in 1..MaxSessions :
        held'[s] = IF held[s] = p \/ gc[p].probing = s THEN "free" ELSE held[s]
  BY DEF Gone
<1>5. Drops(p, <<>>)
  <2>1. ui'[p].op # "start" /\ ui'[p].op # "close"
    BY <1>1 DEF NoOp
  <2>2. \A s \in 1..MaxSessions : held'[s] \in {held[s], "free"} /\ held'[s] # p
    BY <1>3, <1>4
  <2>3. \A s \in 1..MaxSessions : held[s] \in Procs \ {p} => held'[s] = held[s]
    <3>1. \A s \in 1..MaxSessions : held[s] \in Procs => gc[p].probing # s
      BY <1>3
    <3>2. QED BY <3>1, <1>4
  <2>4. ASSUME NEW q \in Procs
        PROVE  /\ gc'[q].probing \in {0, gc[q].probing}
               /\ gc'[q].probing # 0 => held'[gc'[q].probing] = "probe"
    <3>1. CASE q = p
      BY <3>1, <1>1 DEF NoGc
    <3>2. CASE q # p
      <4>1. gc'[q] = gc[q]
        BY <3>2, <1>1
      <4>2. ASSUME gc[q].probing # 0 PROVE held'[gc[q].probing] = "probe"
        <5>1. gc[q].probing \in 1..MaxSessions /\ held[gc[q].probing] = "probe"
          BY <4>2, <1>3
        <5>2. gc[p].probing # gc[q].probing
          BY <3>2, <4>2 DEF Own, ProbesOK
        <5>3. QED BY <5>1, <5>2, <1>3, <1>4
      <4>3. QED BY <4>1, <4>2
    <3>3. QED BY <3>1, <3>2
  <2>5. /\ \A i \in DOMAIN layout' : \/ \E k \in DOMAIN layout : layout'[i] = layout[k]
                                     \/ \E k \in DOMAIN tabs[p] :
                                          layout'[i] = tabs[p][k].row /\ layout'[i] # 0
        /\ \A i, j \in DOMAIN layout' : layout'[i] = layout'[j] => i = j
    BY SavedFacts DEF Own, LayoutOK
  <2>6. QED BY <1>1, <1>2, <2>1, <2>2, <2>3, <2>4, <2>5 DEF Drops
<1>6. QED BY <1>5, OwnDrops

\* A step of the UI thread that leaves the tabs and their locks.
LEMMA UiOwns ==
  ASSUME Types, Own, NEW p \in Procs, UNCHANGED <<sessions, panes, held, tabs, gc>>,
         layout' \in {layout, SavedLayout(p)},
         \A q \in Procs : q # p => ui'[q] = ui[q],
         ui'[p].op # "start", ui'[p].op = "close" => ui'[p].at \in DOMAIN tabs[p]
  PROVE  Own'
<1>1. PICK f : f = [j \in DOMAIN tabs[p] |-> j]
  OBVIOUS
<1>2. /\ "free" \notin Procs /\ "probe" \notin Procs
      /\ \A q \in Procs : gc[q].probing # 0 =>
           gc[q].probing \in 1..MaxSessions /\ held[gc[q].probing] = "probe"
      /\ \A q \in Procs : \A i \in DOMAIN tabs[q] : tabs[q][i].session # 0 =>
              tabs[q][i].session \in 1..MaxSessions /\ held[tabs[q][i].session] = q
  BY HeldFacts
<1>3. Drops(p, f)
  <2>1. \A j \in DOMAIN tabs'[p] : f[j] \in DOMAIN tabs[p] /\ tabs'[p][j] = tabs[p][f[j]]
    BY <1>1
  <2>2. \A i, j \in DOMAIN tabs'[p] : f[i] = f[j] => i = j
    BY <1>1
  <2>3. \A s \in 1..MaxSessions : held'[s] = p =>
          \E j \in DOMAIN tabs'[p] : tabs'[p][j].session = s
    BY DEF Own, HeldOK, Alive
  <2>4. /\ \A i \in DOMAIN layout' : \/ \E k \in DOMAIN layout : layout'[i] = layout[k]
                                     \/ \E k \in DOMAIN tabs[p] :
                                          layout'[i] = tabs[p][k].row /\ layout'[i] # 0
        /\ \A i, j \in DOMAIN layout' : layout'[i] = layout'[j] => i = j
    BY SavedFacts DEF Own, LayoutOK
  <2>5. QED BY <1>2, <2>1, <2>2, <2>3, <2>4 DEF Drops
<1>4. QED BY <1>3, OwnDrops

\* A workspace is adopted: its panes are dead, and in no other process.
LEMMA LaunchRestoredOwns ==
  ASSUME Types, Own, ~Can("dual"), NEW p \in Procs, LaunchRestored(p)
  PROVE  Own'
<1>1. /\ tabs[p] = <<>> /\ ui[p] = NoOp /\ ~Adopts(p)
      /\ UNCHANGED <<sessions, panes, layout, held, ui>>
  BY DEF LaunchRestored, Running, dbVars
<1>2. /\ \A q \in Procs : q # p => tabs'[q] = tabs[q] /\ gc'[q] = gc[q]
      /\ tabs'[p] = [i \in 1..Len(layout) |->
                       [row |-> layout[i], session |-> 0, live |-> FALSE,
                        mem |-> RestoredBlocks(layout[i])]]
      /\ gc'[p].probing = 0
  <2>1. gc'[p] \in {NoGc, [NoGc EXCEPT !.pc = "list"]} /\ \A q \in Procs : q # p => gc'[q] = gc[q]
    BY DEF Types, ProcTypes, LaunchRestored, StartGc
  <2>2. gc'[p].probing = 0
    BY <2>1 DEF NoGc
  <2>3. QED BY <2>1, <2>2 DEF Types, ProcTypes, LaunchRestored
<1>3. layout \in Seq(Nat) /\ DOMAIN layout = 1..Len(layout) /\ panes \in Nat
  BY DEF Types, DbTypes
<1>4. DOMAIN tabs[p] = {} /\ DOMAIN tabs'[p] = DOMAIN layout
  BY <1>1, <1>2, <1>3
<1>5. \A i \in DOMAIN layout :
        /\ tabs'[p][i].row = layout[i] /\ tabs'[p][i].session = 0 /\ ~tabs'[p][i].live
        /\ layout[i] \in 1..panes /\ layout[i] # 0
  BY <1>2, <1>3 DEF Own, LayoutOK
<1>6. \A q \in Procs : \A i \in DOMAIN tabs[q] : \A k \in DOMAIN layout :
        q # p => tabs[q][i].row # layout[k]
  <2>1. \A q \in Procs : DOMAIN tabs[q] = 1..Len(tabs[q])
    BY DEF Types, ProcTypes
  <2>2. QED BY <2>1, <1>1, <1>3 DEF Adopts
<1>7. TabsOK'
  <2>1. SUFFICES ASSUME NEW q \in Procs, NEW j \in DOMAIN tabs'[q] PROVE TabOK(q, j)'
    BY DEF TabsOK
  <2>2. CASE q = p
    BY <2>2, <1>1, <1>3, <1>4, <1>5 DEF TabOK
  <2>3. CASE q # p
    BY <2>3, <1>1, <1>2 DEF Own, TabsOK, TabOK, SessionsOf, Sessions
  <2>4. QED BY <2>2, <2>3
<1>8. HeldOK'
  BY <1>1, <1>2, <1>4 DEF Own, HeldOK, Alive
<1>9. RowsApart'
  <2>1. SUFFICES ASSUME NEW q \in Procs, NEW o \in Procs,
                        NEW i \in DOMAIN tabs'[q], NEW j \in DOMAIN tabs'[o],
                        tabs'[q][i].row = tabs'[o][j].row, tabs'[q][i].row # 0
                 PROVE  q = o /\ i = j
    BY DEF RowsApart
  <2>2. CASE q = p /\ o = p
    BY <2>1, <2>2, <1>4, <1>5 DEF Own, LayoutOK
  <2>3. CASE q = p /\ o # p
    BY <2>1, <2>3, <1>2, <1>4, <1>5, <1>6
  <2>4. CASE q # p /\ o = p
    BY <2>1, <2>4, <1>2, <1>4, <1>5, <1>6
  <2>5. CASE q # p /\ o # p
    BY <2>1, <2>5, <1>2 DEF Own, RowsApart
  <2>6. QED BY <2>2, <2>3, <2>4, <2>5
<1>10. LayoutOK'
  BY <1>1 DEF Own, LayoutOK
<1>11. StartsOK'
  <2>1. SUFFICES ASSUME NEW q \in Procs, Starting(q)' PROVE StartOK(q)'
    BY DEF StartsOK
  <2>2. q # p /\ Starting(q) /\ StartOK(q) /\ ui'[q] = ui[q] /\ tabs'[q] = tabs[q]
    BY <2>1, <1>1, <1>2 DEF Own, StartsOK, Starting, NoOp
  <2>3. FreshStart(q)' <=> FreshStart(q)
    BY <2>2 DEF FreshStart
  <2>4. /\ ui'[q].session \in SessionsOf(ui[q].row)'
        /\ \A s \in SessionsOf(ui[q].row)' : s <= ui'[q].session
    BY <2>2, <1>1 DEF StartOK, SessionsOf, Sessions
  <2>5. ASSUME FreshStart(q)'
        PROVE  /\ \A o \in Procs : \A j \in DOMAIN tabs'[o] : tabs'[o][j].row # ui'[q].row
               /\ \A j \in DOMAIN layout' : layout'[j] # ui'[q].row
    <3>1. /\ \A o \in Procs : \A j \in DOMAIN tabs[o] : tabs[o][j].row # ui[q].row
          /\ \A j \in DOMAIN layout : layout[j] # ui[q].row
      BY <2>2, <2>3, <2>5 DEF StartOK
    <3>2. QED BY <3>1, <2>2, <1>1, <1>2, <1>4, <1>5
  <2>6. \A o \in Procs : Starting(o)' /\ ui'[o].row = ui'[q].row => o = q
    BY <2>2, <1>1 DEF StartOK, Starting
  <2>7. /\ ui'[q].at \in 1..(Len(tabs'[q]) + 1)
        /\ ~FreshStart(q)' => /\ tabs'[q][ui'[q].at].row = ui'[q].row
                              /\ ~tabs'[q][ui'[q].at].live
    BY <2>2, <2>3 DEF StartOK
  <2>8. QED BY <2>4, <2>5, <2>6, <2>7 DEF StartOK
<1>12. ClosesOK'
  BY <1>1, <1>2 DEF Own, ClosesOK, NoOp
<1>13. ProbesOK'
  BY <1>1, <1>2 DEF Own, ProbesOK
<1>14. QED BY <1>7, <1>8, <1>9, <1>10, <1>11, <1>12, <1>13 DEF Own

\* A collector tries the lock of a session that nobody has.
LEMMA ProbeOwns ==
  ASSUME Types, Own, UNCHANGED <<sessions, panes, layout, ui, tabs>>, ProbesOK',
         \A s \in 1..MaxSessions :
           held[s] \in Procs \/ held'[s] \in Procs => held'[s] = held[s]
  PROVE  Own'
<1>1. \A q \in Procs : \A i \in DOMAIN tabs[q] : tabs[q][i].session # 0 =>
        tabs[q][i].session \in 1..MaxSessions /\ held[tabs[q][i].session] = q
  BY HeldFacts
<1>2. TabsOK'
  <2>1. SUFFICES ASSUME NEW q \in Procs, NEW j \in DOMAIN tabs[q] PROVE TabOK(q, j)'
    BY DEF TabsOK
  <2>2. TabOK(q, j)
    BY DEF Own, TabsOK
  <2>3. tabs[q][j].session # 0 => held'[tabs[q][j].session] = q
    BY <1>1
  <2>4. QED BY <2>2, <2>3 DEF TabOK, SessionsOf, Sessions
<1>3. HeldOK'
  <2>1. SUFFICES ASSUME NEW s \in 1..MaxSessions, held'[s] \in Procs
                 PROVE  \E i \in DOMAIN tabs[held'[s]] : tabs[held'[s]][i].session = s
    BY DEF HeldOK, Alive
  <2>2. held'[s] = held[s]
    BY <2>1
  <2>3. QED BY <2>1, <2>2 DEF Own, HeldOK, Alive
<1>4. RowsApart' /\ LayoutOK' /\ ClosesOK'
  BY DEF Own, RowsApart, LayoutOK, ClosesOK
<1>5. StartsOK'
  BY DEF Own, StartsOK, StartOK, Starting, FreshStart, SessionsOf, Sessions
<1>6. QED BY <1>2, <1>3, <1>4, <1>5 DEF Own

\* A probe's lock given back keeps it.
LEMMA EndProbeOwns ==
  ASSUME Types, Own, NEW p \in Procs, EndProbe(p)
  PROVE  Own'
<1>1. /\ held \in [1..MaxSessions -> Procs \cup {"free", "probe"}]
      /\ "free" \notin Procs /\ "probe" \notin Procs /\ "free" # "probe"
      /\ \A q \in Procs : gc[q].probing # 0 =>
           gc[q].probing \in 1..MaxSessions /\ held[gc[q].probing] = "probe"
  BY HeldFacts DEF Types, ProcTypes
<1>3. \A q \in Procs : gc[q] = [pc |-> gc[q].pc, rows |-> gc[q].rows, latest |-> gc[q].latest,
                                dead |-> gc[q].dead, probing |-> gc[q].probing, todo |-> gc[q].todo]
  BY DEF Types, ProcTypes, IsGc
<1>4. /\ held' = [held EXCEPT ![gc[p].probing] = "free"] /\ gc[p].probing # 0
      /\ gc' = [gc EXCEPT ![p].probing = 0]
  BY DEF EndProbe
<1>5. gc'[p].probing = 0 /\ \A q \in Procs : q # p => gc'[q] = gc[q]
  BY <1>4, <1>3 DEF Types, ProcTypes
<1>6. /\ \A s \in 1..MaxSessions : s # gc[p].probing => held'[s] = held[s]
      /\ held'[gc[p].probing] = "free" /\ held[gc[p].probing] = "probe"
  BY <1>4, <1>1
<1>7. ProbesOK'
  BY <1>4, <1>5, <1>6, <1>1 DEF Own, ProbesOK
<1>8. UNCHANGED <<sessions, panes, layout, ui, tabs>>
  BY DEF EndProbe, dbVars
<1>9. \A s \in 1..MaxSessions :
        held[s] \in Procs \/ held'[s] \in Procs => held'[s] = held[s]
  BY <1>6, <1>1
<1>10. QED BY <1>7, <1>8, <1>9, ProbeOwns

\* A probe takes a lock nobody has.
LEMMA ProbeFreeOwns ==
  ASSUME Types, Own, NEW p \in Procs, NEW r \in Unprobed(p), ProbeFree(p, r)
  PROVE  Own'
<1>1. /\ held \in [1..MaxSessions -> Procs \cup {"free", "probe"}]
      /\ "free" \notin Procs /\ "probe" \notin Procs /\ "free" # "probe"
      /\ \A q \in Procs : gc[q].probing # 0 =>
           gc[q].probing \in 1..MaxSessions /\ held[gc[q].probing] = "probe"
  BY HeldFacts DEF Types, ProcTypes
<1>3. \A q \in Procs : gc[q] = [pc |-> gc[q].pc, rows |-> gc[q].rows, latest |-> gc[q].latest,
                                dead |-> gc[q].dead, probing |-> gc[q].probing, todo |-> gc[q].todo]
  BY DEF Types, ProcTypes, IsGc
<1>4. PICK s : s = gc[p].latest[r]
  OBVIOUS
<1>5. s \in 1..MaxSessions
  BY <1>4 DEF Types, ProcTypes, IsGc, Unprobed
<1>6. held[s] = "free" /\ held' = [held EXCEPT ![s] = "probe"]
  BY <1>4 DEF ProbeFree
<1>7. gc'[p].probing = s /\ \A q \in Procs : q # p => gc'[q] = gc[q]
  BY <1>4, <1>3 DEF Types, ProcTypes, ProbeFree
<1>8. held'[s] = "probe" /\ \A x \in 1..MaxSessions : x # s => held'[x] = held[x]
  BY <1>5, <1>6, <1>1
<1>9. ProbesOK'
  BY <1>5, <1>6, <1>7, <1>8, <1>1 DEF Own, ProbesOK
<1>10. UNCHANGED <<sessions, panes, layout, ui, tabs>>
  BY DEF ProbeFree, dbVars
<1>11. \A x \in 1..MaxSessions :
        held[x] \in Procs \/ held'[x] \in Procs => held'[x] = held[x]
  BY <1>5, <1>6, <1>8, <1>1
<1>12. QED BY <1>9, <1>10, <1>11, ProbeOwns

\* Steps of the writers and most of the collector's have no part in it.
Quiet ==
  /\ UNCHANGED <<sessions, panes, layout, held, ui, tabs>>
  /\ \A q \in Procs : gc'[q].probing \in {0, gc[q].probing}

\* Steps that touch neither tabs nor locks keep it.
LEMMA QuietOwns == ASSUME Types, Own, Quiet PROVE Own'
BY OwnSameTabs, UnchangedTabs DEF Quiet

\* A writer's step is such a step.
LEMMA WriterQuiet == ASSUME NEW s, WriterStep(s) PROVE Quiet /\ UNCHANGED gc
<1>1. CASE WriteTemp(s)
  BY <1>1 DEF WriteTemp, Quiet, dbVars
<1>2. CASE Rename(s)
  BY <1>2 DEF Rename, Quiet, dbVars
<1>3. CASE InsertRow(s)
  BY <1>3 DEF InsertRow, Quiet
<1>4. CASE InsertChips(s)
  BY <1>4 DEF InsertChips, Quiet
<1>5. CASE WriteFails(s)
  BY <1>5 DEF WriteFails, Quiet, dbVars
<1>6. CASE ListForClear(s)
  BY <1>6 DEF ListForClear, Quiet, dbVars
<1>7. CASE UnlinkForClear(s)
  <2>1. UNCHANGED <<dbVars, held, gc, ui, tabs>>
    BY <1>7 DEF UnlinkForClear
  <2>2. QED BY <2>1 DEF Quiet, dbVars
<1>8. CASE DeleteForClear(s)
  BY <1>8 DEF DeleteForClear, Quiet
<1>9. QED BY <1>1, <1>2, <1>3, <1>4, <1>5, <1>6, <1>7, <1>8 DEF WriterStep

\* A collector's step is of one collector.
LEMMA GcOthers ==
  ASSUME Types, NEW p \in Procs, GcStep(p)
  PROVE  \A q \in Procs : q # p => gc'[q] = gc[q]
<1>1. gc = [q \in Procs |-> gc[q]]
  BY DEF Types, ProcTypes
<1>2. CASE ListChunks(p)
  BY <1>1, <1>2 DEF ListChunks
<1>3. CASE EndProbe(p)
  BY <1>1, <1>3 DEF EndProbe
<1>4. CASE ChooseDoomed(p)
  <2>1. PICK todo : gc' = [gc EXCEPT ![p].pc = "apply", ![p].todo = todo]
    BY <1>4 DEF ChooseDoomed
  <2>2. QED BY <1>1, <2>1
<1>5. CASE DeleteFile(p)
  BY <1>5 DEF DeleteFile
<1>6. CASE DeleteRow(p)
  BY <1>1, <1>6 DEF DeleteRow
<1>7. CASE SweepTemps(p)
  BY <1>1, <1>7 DEF SweepTemps
<1>8. ASSUME NEW r \in Unprobed(p), ProbeFree(p, r)
      PROVE  \A q \in Procs : q # p => gc'[q] = gc[q]
  BY <1>1, <1>8 DEF ProbeFree
<1>9. ASSUME NEW r \in Unprobed(p), ProbeLive(p, r)
      PROVE  \A q \in Procs : q # p => gc'[q] = gc[q]
  BY <1>1, <1>9 DEF ProbeLive
<1>10. QED BY <1>2, <1>3, <1>4, <1>5, <1>6, <1>7, <1>8, <1>9 DEF GcStep

\* A collector is the record of its fields.
LEMMA GcRecord ==
  ASSUME Types, NEW p \in Procs
  PROVE  /\ gc = [q \in Procs |-> gc[q]]
         /\ gc[p] = [pc |-> gc[p].pc, rows |-> gc[p].rows, latest |-> gc[p].latest,
                     dead |-> gc[p].dead, probing |-> gc[p].probing, todo |-> gc[p].todo]
BY DEF Types, ProcTypes, IsGc

LatestOfSeen == [r \in {c.pane : c \in rows} |-> Latest(r)]

\* The collector lists all rows and the latest session of each pane.
LEMMA GcLists ==
  ASSUME Types, NEW p \in Procs, ListChunks(p)
  PROVE  GcBecomes(p, "probe", rows, LatestOfSeen, gc[p].dead, gc[p].probing, gc[p].todo)
<1>1. gc' = [gc EXCEPT ![p].pc = "probe", ![p].rows = rows, ![p].latest = LatestOfSeen]
  BY DEF ListChunks, LatestOfSeen
<1>2. /\ gc = [q \in Procs |-> gc[q]]
      /\ gc[p] = [pc |-> gc[p].pc, rows |-> gc[p].rows, latest |-> gc[p].latest,
                  dead |-> gc[p].dead, probing |-> gc[p].probing, todo |-> gc[p].todo]
  BY GcRecord
<1>3. gc'[p] = [pc |-> "probe", rows |-> rows, latest |-> LatestOfSeen,
                dead |-> gc[p].dead, probing |-> gc[p].probing, todo |-> gc[p].todo]
  BY <1>1, <1>2
<1>4. QED BY <1>3 DEF GcBecomes

\* The end of a probe forgets which it was.
LEMMA GcEndsProbe ==
  ASSUME Types, NEW p \in Procs, EndProbe(p)
  PROVE  GcBecomes(p, gc[p].pc, gc[p].rows, gc[p].latest, gc[p].dead, 0, gc[p].todo)
<1>1. /\ gc = [q \in Procs |-> gc[q]]
      /\ gc[p] = [pc |-> gc[p].pc, rows |-> gc[p].rows, latest |-> gc[p].latest,
                  dead |-> gc[p].dead, probing |-> gc[p].probing, todo |-> gc[p].todo]
  BY GcRecord
<1>2. gc'[p] = [pc |-> gc[p].pc, rows |-> gc[p].rows, latest |-> gc[p].latest,
                dead |-> gc[p].dead, probing |-> 0, todo |-> gc[p].todo]
  BY <1>1 DEF EndProbe
<1>3. QED BY <1>2 DEF GcBecomes

\* A deleted file leaves the collector as it is.
LEMMA GcDeletesFile ==
  ASSUME Types, NEW p \in Procs, DeleteFile(p)
  PROVE  GcBecomes(p, gc[p].pc, gc[p].rows, gc[p].latest, gc[p].dead, gc[p].probing, gc[p].todo)
<1>1. /\ gc = [q \in Procs |-> gc[q]]
      /\ gc[p] = [pc |-> gc[p].pc, rows |-> gc[p].rows, latest |-> gc[p].latest,
                  dead |-> gc[p].dead, probing |-> gc[p].probing, todo |-> gc[p].todo]
  BY GcRecord
<1>2. gc'[p] = [pc |-> gc[p].pc, rows |-> gc[p].rows, latest |-> gc[p].latest,
                dead |-> gc[p].dead, probing |-> gc[p].probing, todo |-> gc[p].todo]
  BY <1>1 DEF DeleteFile
<1>3. QED BY <1>2 DEF GcBecomes

\* A deleted row is off its list.
LEMMA GcDeletesRow ==
  ASSUME Types, NEW p \in Procs, DeleteRow(p)
  PROVE  GcBecomes(p, gc[p].pc, gc[p].rows, gc[p].latest, gc[p].dead, gc[p].probing,
                   Tail(gc[p].todo))
<1>1. /\ gc = [q \in Procs |-> gc[q]]
      /\ gc[p] = [pc |-> gc[p].pc, rows |-> gc[p].rows, latest |-> gc[p].latest,
                  dead |-> gc[p].dead, probing |-> gc[p].probing, todo |-> gc[p].todo]
  BY GcRecord
<1>2. gc'[p] = [pc |-> gc[p].pc, rows |-> gc[p].rows, latest |-> gc[p].latest,
                dead |-> gc[p].dead, probing |-> gc[p].probing, todo |-> Tail(gc[p].todo)]
  BY <1>1 DEF DeleteRow
<1>3. QED BY <1>2 DEF GcBecomes

\* After the sweep the collector is done.
LEMMA GcSweeps ==
  ASSUME Types, NEW p \in Procs, SweepTemps(p)
  PROVE  gc'[p] = NoGc
BY GcRecord DEF SweepTemps

\* A free lock makes the pane dead to the collector.
LEMMA GcProbes ==
  ASSUME Types, NEW p \in Procs, NEW r \in Unprobed(p), ProbeFree(p, r)
  PROVE  GcBecomes(p, gc[p].pc, gc[p].rows, Forget(gc[p].latest, r), gc[p].dead \cup {r},
                   gc[p].latest[r], gc[p].todo)
<1>1. /\ gc = [q \in Procs |-> gc[q]]
      /\ gc[p] = [pc |-> gc[p].pc, rows |-> gc[p].rows, latest |-> gc[p].latest,
                  dead |-> gc[p].dead, probing |-> gc[p].probing, todo |-> gc[p].todo]
  BY GcRecord
<1>2. gc'[p] = [pc |-> gc[p].pc, rows |-> gc[p].rows, latest |-> Forget(gc[p].latest, r),
                dead |-> gc[p].dead \cup {r}, probing |-> gc[p].latest[r], todo |-> gc[p].todo]
  BY <1>1 DEF ProbeFree
<1>3. QED BY <1>2 DEF GcBecomes

\* A lock that is held spares the pane.
LEMMA GcFindsLive ==
  ASSUME Types, NEW p \in Procs, NEW r \in Unprobed(p), ProbeLive(p, r)
  PROVE  GcBecomes(p, gc[p].pc, gc[p].rows, Forget(gc[p].latest, r), gc[p].dead,
                   gc[p].probing, gc[p].todo)
<1>1. /\ gc = [q \in Procs |-> gc[q]]
      /\ gc[p] = [pc |-> gc[p].pc, rows |-> gc[p].rows, latest |-> gc[p].latest,
                  dead |-> gc[p].dead, probing |-> gc[p].probing, todo |-> gc[p].todo]
  BY GcRecord
<1>2. gc'[p] = [pc |-> gc[p].pc, rows |-> gc[p].rows, latest |-> Forget(gc[p].latest, r),
                dead |-> gc[p].dead, probing |-> gc[p].probing, todo |-> gc[p].todo]
  BY <1>1 DEF ProbeLive
<1>3. QED BY <1>2 DEF GcBecomes

\* Choosing is of rows seen, of panes found dead, each once.
Chosen(p, todo) ==
  /\ GcBecomes(p, "apply", gc[p].rows, gc[p].latest, gc[p].dead, gc[p].probing, todo)
  /\ gc[p].pc = "probe" /\ gc[p].probing = 0 /\ Unprobed(p) = {}
  /\ todo \in Seq(gc[p].rows) /\ todo \in Seq(ChunkRow)
  /\ \A i \in 1..Len(todo) : todo[i] \in gc[p].rows /\ todo[i].pane \in gc[p].dead
  /\ \A i, j \in 1..Len(todo) : todo[i] = todo[j] => i = j

\* What is chosen is of panes found dead.
LEMMA ChooseFacts ==
  ASSUME Types, NEW p \in Procs, ChooseDoomed(p)
  PROVE  \E todo : Chosen(p, todo)
<1>1. gc = [q \in Procs |-> gc[q]]
  BY DEF Types, ProcTypes
<1>2. /\ gc[p] = [pc |-> gc[p].pc, rows |-> gc[p].rows, latest |-> gc[p].latest,
                  dead |-> gc[p].dead, probing |-> gc[p].probing, todo |-> gc[p].todo]
      /\ gc[p].rows \subseteq ChunkRow /\ IsFiniteSet(gc[p].rows)
  BY DEF Types, ProcTypes, IsGc
<1>0. PICK doomed \in SUBSET {c \in gc[p].rows : c.pane \in gc[p].dead} :
        \E todo \in Listings(doomed) : gc' = [gc EXCEPT ![p].pc = "apply", ![p].todo = todo]
  BY DEF ChooseDoomed
<1>3. PICK todo \in Listings(doomed) : gc' = [gc EXCEPT ![p].pc = "apply", ![p].todo = todo]
  BY <1>0
<1>4. doomed \in SUBSET gc[p].rows /\ \A c \in doomed : c.pane \in gc[p].dead
  OBVIOUS
<1>5. Cardinality(doomed) \in Nat
  BY <1>2, <1>4, FS_Subset, FS_CardinalityType
<1>6. todo \in [1..Cardinality(doomed) -> doomed] /\ IsInjective(todo)
  BY DEF Listings
<1>7. PICK n \in Nat : n = Cardinality(doomed)
  BY <1>5
<1>8. todo \in [1..n -> doomed] /\ IsInjective(todo)
  BY <1>6, <1>7
<1>9. todo \in Seq(doomed) /\ Len(todo) = n /\ DOMAIN todo = 1..n
  BY <1>8
<1>10. \A i, j \in 1..Len(todo) : todo[i] = todo[j] => i = j
  BY <1>8, <1>9 DEF IsInjective
<1>11. \A i \in 1..Len(todo) : todo[i] \in gc[p].rows /\ todo[i].pane \in gc[p].dead
  BY <1>4, <1>8, <1>9
<1>12. todo \in Seq(gc[p].rows) /\ todo \in Seq(ChunkRow)
  BY <1>2, <1>4, <1>9
<1>13. GcBecomes(p, "apply", gc[p].rows, gc[p].latest, gc[p].dead, gc[p].probing, todo)
  BY <1>1, <1>2, <1>3 DEF GcBecomes
<1>14. Chosen(p, todo)
  BY <1>10, <1>11, <1>12, <1>13 DEF Chosen, ChooseDoomed
<1>15. QED BY <1>14

\* No step of a collector changes who owns a row.
LEMMA CollectorOwns ==
  ASSUME Types, Own, NEW p \in Procs, GcStep(p)
  PROVE  Own'
<1>1. ASSUME UNCHANGED <<sessions, panes, layout, held, ui, tabs>>,
             gc'[p].probing \in {0, gc[p].probing}
      PROVE  Own'
  BY <1>1, GcOthers, QuietOwns DEF Quiet
<1>2. CASE ListChunks(p)
  <2>1. gc'[p].probing = gc[p].probing
    BY <1>2, GcLists DEF GcBecomes
  <2>2. QED BY <1>1, <1>2, <2>1 DEF ListChunks, dbVars
<1>3. CASE ChooseDoomed(p)
  <2>1. gc'[p].probing = gc[p].probing
    <3>1. PICK todo : Chosen(p, todo)
      BY <1>3, ChooseFacts
    <3>2. QED BY <3>1 DEF Chosen, GcBecomes
  <2>2. UNCHANGED <<dbVars, held, ui, tabs>>
    BY <1>3 DEF ChooseDoomed
  <2>3. QED BY <1>1, <2>1, <2>2 DEF dbVars
<1>4. CASE DeleteFile(p)
  BY <1>1, <1>4 DEF DeleteFile, dbVars
<1>5. CASE DeleteRow(p)
  <2>1. gc'[p].probing = gc[p].probing
    BY <1>5, GcDeletesRow DEF GcBecomes
  <2>2. QED BY <1>1, <1>5, <2>1 DEF DeleteRow, dbVars
<1>6. CASE SweepTemps(p)
  <2>1. gc'[p].probing = 0
    BY <1>6, GcSweeps DEF NoGc
  <2>2. QED BY <1>1, <1>6, <2>1 DEF SweepTemps, dbVars
<1>7. CASE EndProbe(p)
  BY <1>7, EndProbeOwns
<1>8. ASSUME NEW r \in Unprobed(p), ProbeFree(p, r) PROVE Own'
  BY <1>8, ProbeFreeOwns
<1>9. ASSUME NEW r \in Unprobed(p), ProbeLive(p, r) PROVE Own'
  <2>1. gc'[p].probing = gc[p].probing
    BY <1>9, GcFindsLive DEF GcBecomes
  <2>2. QED BY <1>1, <1>9, <2>1 DEF ProbeLive, dbVars
<1>10. QED BY <1>2, <1>3, <1>4, <1>5, <1>6, <1>7, <1>8, <1>9 DEF GcStep

\* No step of a user does but by the rules.
LEMMA UserOwns ==
  ASSUME Types, Own, ~Can("dual"), NEW p \in Procs, UserStep(p)
  PROVE  Own'
<1>0. /\ ui \in [Procs -> UiType] /\ DOMAIN tabs[p] = 1..Len(tabs[p])
      /\ gc = [q \in Procs |-> gc[q]]
  BY DEF Types, ProcTypes
<1>1. CASE LaunchRestored(p)
  BY <1>1, LaunchRestoredOwns
<1>2. CASE LaunchFresh(p)
  <2>1. gc'[p] \in {NoGc, [NoGc EXCEPT !.pc = "list"]} /\ \A q \in Procs : q # p => gc'[q] = gc[q]
    BY <1>0, <1>2 DEF LaunchFresh, StartGc
  <2>2. \A q \in Procs : gc'[q].probing \in {0, gc[q].probing}
    BY <2>1 DEF NoGc
  <2>3. BeginsFor(p, 1, 0) /\ ~Starting(p)
    BY <1>2 DEF LaunchFresh, BeginsFor, Running, Starting, NoOp
  <2>4. BeginRows(p, 1, 0) /\ UNCHANGED <<tabs, held, layout>>
    BY <1>2 DEF LaunchFresh
  <2>5. QED BY <2>2, <2>3, <2>4, BeginOwns
<1>3. CASE NewTab(p)
  <2>1. BeginsFor(p, Len(tabs[p]) + 1, 0) /\ ~Starting(p)
    BY <1>3 DEF NewTab, UiIdle, BeginsFor, Starting
  <2>2. /\ BeginRows(p, Len(tabs[p]) + 1, 0) /\ UNCHANGED <<tabs, held, layout, gc>>
    BY <1>3 DEF NewTab
  <2>3. QED BY <2>1, <2>2, BeginOwns
<1>4. CASE SaveLayout(p)
  <2>1. UNCHANGED <<sessions, panes, held, tabs, gc, ui>> /\ layout' = SavedLayout(p) /\ ui[p].op = "idle"
    BY <1>4 DEF SaveLayout, UiIdle
  <2>2. QED BY <2>1, UiOwns
<1>5. CASE BeginQuit(p)
  <2>1. UNCHANGED <<sessions, panes, layout, held, tabs, gc>>
    BY <1>5 DEF BeginQuit, dbVars
  <2>2. ui'[p].op = "quit" /\ \A q \in Procs : q # p => ui'[q] = ui[q]
    BY <1>0, <1>5 DEF BeginQuit, NoOp
  <2>3. QED BY <2>1, <2>2, UiOwns
<1>6. ASSUME NEW i \in 1..Len(tabs[p]), RestartPane(p, i) PROVE Own'
  <2>1. BeginsFor(p, i, tabs[p][i].row) /\ ~Starting(p)
    BY <1>0, <1>6 DEF RestartPane, UiIdle, BeginsFor, Starting
  <2>2. /\ BeginRows(p, i, tabs[p][i].row) /\ UNCHANGED <<tabs, held, layout, gc>>
    BY <1>6 DEF RestartPane
  <2>3. QED BY <2>1, <2>2, BeginOwns
<1>7. ASSUME NEW i \in 1..Len(tabs[p]), SealBlock(p, i) PROVE Own'
  <2>1. SameTabs
    BY <1>7, SealKeepsTabs
  <2>2. UNCHANGED <<sessions, panes, layout, held, ui, gc>>
    BY <1>7 DEF SealBlock, dbVars
  <2>3. QED BY <2>1, <2>2, OwnSameTabs
<1>8. ASSUME NEW i \in 1..Len(tabs[p]), ClearScrollback(p, i) PROVE Own'
  <2>1. SameTabs
    BY <1>8, ClearKeepsTabs
  <2>2. UNCHANGED <<sessions, panes, layout, held, ui, gc>>
    BY <1>8 DEF ClearScrollback, dbVars
  <2>3. QED BY <2>1, <2>2, OwnSameTabs
<1>9. ASSUME NEW i \in 1..Len(tabs[p]), CloseTab(p, i) PROVE Own'
  <2>1. UNCHANGED <<sessions, panes, layout, held, tabs, gc>>
    BY <1>9 DEF CloseTab, dbVars
  <2>2. /\ ui'[p].op = "close" /\ ui'[p].at = i
        /\ \A q \in Procs : q # p => ui'[q] = ui[q]
    BY <1>0, <1>9 DEF CloseTab, NoOp
  <2>3. QED BY <1>0, <2>1, <2>2, UiOwns
<1>10. QED
  BY <1>1, <1>2, <1>3, <1>4, <1>5, <1>6, <1>7, <1>8, <1>9 DEF UserStep

\* Nor does an operation that ends, or a crash.
LEMMA EndOwns ==
  ASSUME Types, Own, NEW p \in Procs, UiEnds(p) \/ Crash(p)
  PROVE  Own'
<1>1. CASE TakeLock(p)
  BY <1>1, TakeLockOwns
<1>2. CASE EndClose(p)
  BY <1>2, EndCloseOwns
<1>3. CASE EndQuit(p)
  <2>1. Gone(p) /\ UNCHANGED <<sessions, panes>> /\ layout' = SavedLayout(p)
    BY <1>3 DEF EndQuit
  <2>2. QED BY <2>1, GoneOwns
<1>4. CASE Crash(p)
  <2>1. Gone(p) /\ UNCHANGED dbVars
    BY <1>4 DEF Crash
  <2>2. QED BY <2>1, GoneOwns DEF dbVars
<1>5. QED BY <1>1, <1>2, <1>3, <1>4 DEF UiEnds

\* Every step keeps the ownership of the rows.
LEMMA OwnNext ==
  ASSUME Types, Own, ~Can("dual"), [Next]_vars
  PROVE  Own'
<1>1. CASE UNCHANGED vars
  <2>1. Quiet
    BY <1>1 DEF vars, dbVars, Quiet
  <2>2. QED BY <2>1, QuietOwns
<1>2. ASSUME NEW p \in Procs, UserStep(p) \/ UiEnds(p) \/ Crash(p) \/ GcStep(p) PROVE Own'
  BY <1>2, UserOwns, EndOwns, CollectorOwns
<1>3. ASSUME NEW s \in 1..Len(sessions), WriterStep(s) PROVE Own'
  BY <1>3, WriterQuiet, QuietOwns
<1>4. QED BY <1>1, <1>2, <1>3 DEF Next

-----------------------------------------------------------------------------
\* The writers, step by step

\* A live session is one of a tab.
LEMMA AliveFacts ==
  ASSUME Types, Own, NEW s \in 1..MaxSessions, Alive(s)
  PROVE  s \in Sessions /\ held[s] \in Procs
<1>1. PICK i \in DOMAIN tabs[held[s]] : tabs[held[s]][i].session = s
  BY DEF Own, HeldOK, Alive
<1>2. TabOK(held[s], i)
  BY <1>1 DEF Own, TabsOK, Alive
<1>3. s \in SessionsOf(tabs[held[s]][i].row)
  BY <1>1, <1>2 DEF TabOK
<1>4. QED BY <1>3 DEF SessionsOf, Alive

\* A writer is the record of its fields.
LEMMA WriterRecord ==
  ASSUME Types, NEW s \in 1..MaxSessions
  PROVE  /\ writer \in [1..MaxSessions -> WriterType]
         /\ writer[s] \in WriterType
         /\ writer[s] = [q |-> writer[s].q, pc |-> writer[s].pc, seq |-> writer[s].seq,
                         cursor |-> writer[s].cursor, row |-> writer[s].row,
                         id |-> writer[s].id, todo |-> writer[s].todo]
         /\ writer[s].q \in Seq(Nat) /\ writer[s].seq \in Nat /\ writer[s].cursor \in Nat
         /\ writer[s].row \in Nat /\ writer[s].id \in Nat /\ writer[s].todo \in Seq(ChunkRow)
BY DEF Types, ProcTypes, WriterType

\* A writer replaced by one of the same row.
LEMMA WriterSet ==
  ASSUME Types, NEW s \in 1..MaxSessions, NEW w \in WriterType, w.row = writer[s].row,
         writer' = [writer EXCEPT ![s] = w]
  PROVE  WriterBecomes(s, w.q, w.pc, w.seq, w.cursor, w.id, w.todo)
<1>1. writer \in [1..MaxSessions -> WriterType]
  BY DEF Types, ProcTypes
<1>2. writer' \in [1..MaxSessions -> WriterType] /\ writer'[s] = w
  BY <1>1
<1>3. \A t \in 1..MaxSessions : t # s => writer'[t] = writer[t]
  BY <1>1
<1>4. QED BY <1>2, <1>3 DEF WriterBecomes

\* The block at the head of a queue.
LEMMA HeadFacts ==
  ASSUME Types, QueuesOK, NEW s \in 1..MaxSessions, writer[s].q # <<>>
  PROVE  /\ Head(writer[s].q) = writer[s].q[1] /\ 1 \in DOMAIN writer[s].q
         /\ Tail(writer[s].q) \in Seq(Nat)
         /\ Len(Tail(writer[s].q)) = Len(writer[s].q) - 1
         /\ \A i \in DOMAIN Tail(writer[s].q) :
              i + 1 \in DOMAIN writer[s].q /\ Tail(writer[s].q)[i] = writer[s].q[i + 1]
         /\ writer[s].q[1] # 0 => /\ writer[s].q[1] \in 1..Len(sealedIn)
                                  /\ writer[s].q[1] \in DOMAIN LinesOf
                                  /\ LinesOf[writer[s].q[1]] \in Nat
                                  /\ sealedIn[writer[s].q[1]] = writer[s].row
<1>1. writer[s].q \in Seq(Nat)
  BY WriterRecord
<1>2. PICK q : q = writer[s].q
  OBVIOUS
<1>3. q \in Seq(Nat) /\ q # <<>>
  BY <1>1, <1>2
<1>4. /\ Head(q) = q[1] /\ 1 \in DOMAIN q /\ Tail(q) \in Seq(Nat) /\ Len(Tail(q)) = Len(q) - 1
      /\ \A i \in DOMAIN Tail(q) : i + 1 \in DOMAIN q /\ Tail(q)[i] = q[i + 1]
  BY <1>3
<1>5. q[1] # 0 => q[1] \in 1..Len(sealedIn) /\ sealedIn[q[1]] = writer[s].row
  BY <1>2, <1>4 DEF QueuesOK, QueueOK
<1>6. sealedIn \in Seq(Nat) /\ Len(sealedIn) <= Len(LinesOf) /\ LinesOf \in Seq(Nat)
  BY StoreAssumption DEF Types, FileTypes
<1>7. q[1] # 0 => q[1] \in DOMAIN LinesOf /\ LinesOf[q[1]] \in Nat
  <2>1. DOMAIN LinesOf = 1..Len(LinesOf) /\ Len(LinesOf) \in Nat /\ Len(sealedIn) \in Nat
    BY <1>6
  <2>2. \A n \in 1..Len(LinesOf) : LinesOf[n] \in Nat
    BY <1>6
  <2>3. q[1] # 0 => q[1] \in 1..Len(LinesOf)
    BY <1>5, <1>6, <2>1
  <2>4. QED BY <2>1, <2>2, <2>3
<1>8. QED BY <1>2, <1>4, <1>5, <1>7

\* A temporary file written changes the writer's place only.
LEMMA WriterTemp ==
  ASSUME Types, NEW s \in 1..MaxSessions, WriteTemp(s)
  PROVE  WriterBecomes(s, writer[s].q, "temp", writer[s].seq, writer[s].cursor,
                       writer[s].id, writer[s].todo)
BY WriterRecord DEF WriteTemp, WriterBecomes, WriterType

\* A seal that fails drops its message and nothing else.
LEMMA WriterSealFails ==
  ASSUME Types, QueuesOK, NEW s \in 1..MaxSessions, writer[s].q # <<>>, SealFails(s)
  PROVE  WriterBecomes(s, Tail(writer[s].q), "idle", writer[s].seq, writer[s].cursor,
                       writer[s].id, writer[s].todo)
<1>1. Tail(writer[s].q) \in Seq(Nat)
  BY HeadFacts
<1>2. PICK q \in Seq(Nat) : q = Tail(writer[s].q)
  BY <1>1
<1>3. writer' = [writer EXCEPT ![s].pc = "idle", ![s].q = q]
  BY <1>2 DEF SealFails
<1>4. WriterBecomes(s, q, "idle", writer[s].seq, writer[s].cursor, writer[s].id, writer[s].todo)
  BY <1>3, WriterRecord DEF WriterBecomes, WriterType
<1>5. QED BY <1>2, <1>4

\* A renamed file changes the writer's place only.
LEMMA WriterRenamed ==
  ASSUME Types, NEW s \in 1..MaxSessions, writer' = [writer EXCEPT ![s].pc = "renamed"]
  PROVE  WriterBecomes(s, writer[s].q, "renamed", writer[s].seq, writer[s].cursor,
                       writer[s].id, writer[s].todo)
BY WriterRecord DEF WriterBecomes, WriterType

\* The next row id is greater than every id there is.
LEMMA NextRowIdFresh ==
  ASSUME Types
  PROVE  NextRowId \in Nat /\ \A c \in rows : c.id \in Nat /\ c.id < NextRowId
<1>1. {c.id : c \in rows} \in SUBSET Nat
  BY DEF Types, DbTypes, ChunkRow
<1>2. IsFiniteSet({c.id : c \in rows})
  <2> DEFINE f == [c \in rows |-> c.id]
  <2>2. f \in Surjection(rows, {c.id : c \in rows})
    BY DEF Surjection
  <2>3. IsFiniteSet(rows)
    BY DEF Types, DbTypes
  <2>4. QED BY <2>2, <2>3, FS_Surjection
<1>3. /\ MaxOf({c.id : c \in rows}) \in Nat
      /\ \A k \in {c.id : c \in rows} : k <= MaxOf({c.id : c \in rows})
  BY <1>1, <1>2, MaxOfFinite
<1>4. PICK m : m = MaxOf({c.id : c \in rows})
  OBVIOUS
<1>5. m \in Nat /\ \A c \in rows : c.id <= m /\ c.id \in Nat
  BY <1>1, <1>3, <1>4
<1>6. NextRowId = m + 1
  BY <1>4 DEF NextRowId
<1>7. QED BY <1>5, <1>6

\* An inserted row is remembered by its id.
LEMMA WriterInserts ==
  ASSUME Types, NEW s \in 1..MaxSessions, InsertRow(s)
  PROVE  WriterBecomes(s, writer[s].q, "rowed", writer[s].seq, writer[s].cursor,
                       NextRowId, writer[s].todo)
<1>1. PICK n \in Nat : n = NextRowId
  BY NextRowIdFresh
<1>2. writer' = [writer EXCEPT ![s].pc = "rowed", ![s].id = n]
  BY <1>1 DEF InsertRow
<1>3. WriterBecomes(s, writer[s].q, "rowed", writer[s].seq, writer[s].cursor, n, writer[s].todo)
  BY <1>2, WriterRecord DEF WriterBecomes, WriterType
<1>4. QED BY <1>1, <1>3

\* With the chips a block is done: the next number, the next line.
LEMMA WriterChips ==
  ASSUME Types, QueuesOK, NEW s \in 1..MaxSessions, InsertChips(s)
  PROVE  /\ writer[s].q # <<>> /\ writer[s].q[1] # 0
         /\ WriterBecomes(s, Tail(writer[s].q), "idle", writer[s].seq + 1,
                          writer[s].cursor + LinesOf[writer[s].q[1]],
                          writer[s].id, writer[s].todo)
<1>1. writer[s].q # <<>> /\ writer[s].q[1] # 0
  BY DEF InsertChips, QueuesOK, QueueOK, W
<1>2. Tail(writer[s].q) \in Seq(Nat) /\ LinesOf[writer[s].q[1]] \in Nat
      /\ Head(writer[s].q) = writer[s].q[1]
  BY <1>1, HeadFacts
<1>3. PICK q \in Seq(Nat), l \in Nat : q = Tail(writer[s].q) /\ l = LinesOf[writer[s].q[1]]
  BY <1>2
<1>4. PICK n \in Nat, c \in Nat : n = writer[s].seq + 1 /\ c = writer[s].cursor + l
  <2>1. writer[s].seq \in Nat /\ writer[s].cursor \in Nat
    BY WriterRecord
  <2>2. writer[s].seq + 1 \in Nat /\ writer[s].cursor + l \in Nat
    BY <2>1
  <2>3. QED BY <2>2
<1>5. writer' = [writer EXCEPT ![s].pc = "idle", ![s].q = q, ![s].seq = n, ![s].cursor = c]
  <2>1. writer' = [writer EXCEPT ![s].pc = "idle", ![s].q = q, ![s].seq = writer[s].seq + 1,
                                 ![s].cursor = writer[s].cursor + l]
    BY <1>2, <1>3, WriterRecord DEF InsertChips, W
  <2>2. QED BY <1>4, <2>1
<1>6. WriterBecomes(s, q, "idle", n, c, writer[s].id, writer[s].todo)
  BY <1>5, WriterRecord DEF WriterBecomes, WriterType
<1>7. QED BY <1>1, <1>3, <1>4, <1>6

\* A pane's rows can be listed.
LEMMA PaneRowsListed ==
  ASSUME Types, NEW r
  PROVE  Lists(Ordered(PaneRows(r)), PaneRows(r)) /\ PaneRows(r) \in SUBSET ChunkRow
<1>1. PaneRows(r) \subseteq rows
  BY DEF PaneRows
<1>2. IsFiniteSet(PaneRows(r)) /\ PaneRows(r) \in SUBSET ChunkRow
  BY <1>1, FS_Subset DEF Types, DbTypes
<1>3. \A c, d \in PaneRows(r) : c.id = d.id => c = d
  BY <1>1 DEF Types, DbTypes
<1>4. QED BY <1>2, <1>3, OrderedLists

\* A clear lists the rows of the pane.
LEMMA WriterLists ==
  ASSUME Types, NEW s \in 1..MaxSessions, ListForClear(s)
  PROVE  WriterBecomes(s, writer[s].q, "unlink", writer[s].seq, writer[s].cursor,
                       writer[s].id, Ordered(PaneRows(writer[s].row)))
<1>1. Ordered(PaneRows(writer[s].row)) \in Seq(ChunkRow)
  BY PaneRowsListed DEF Lists
<1>2. PICK todo \in Seq(ChunkRow) : todo = Ordered(PaneRows(writer[s].row))
  BY <1>1
<1>3. writer' = [writer EXCEPT ![s].pc = "unlink", ![s].todo = todo]
  BY <1>2 DEF ListForClear, W
<1>4. WriterBecomes(s, writer[s].q, "unlink", writer[s].seq, writer[s].cursor,
                    writer[s].id, todo)
  BY <1>3, WriterRecord DEF WriterBecomes, WriterType
<1>5. QED BY <1>2, <1>4

\* Its files gone, a clear turns to the rows.
LEMMA WriterPurges ==
  ASSUME Types, NEW s \in 1..MaxSessions, writer' = [writer EXCEPT ![s].pc = "purge"]
  PROVE  WriterBecomes(s, writer[s].q, "purge", writer[s].seq, writer[s].cursor,
                       writer[s].id, writer[s].todo)
BY WriterRecord DEF WriterBecomes, WriterType

\* A clear deletes row by row and starts the numbers over at its end.
LEMMA WriterDeletes ==
  ASSUME Types, QueuesOK, NEW s \in 1..MaxSessions, DeleteForClear(s)
  PROVE  /\ writer[s].todo # <<>> =>
              /\ WriterBecomes(s, writer[s].q, "purge", writer[s].seq, writer[s].cursor,
                               writer[s].id, Tail(writer[s].todo))
              /\ rows' = {c \in rows : c.id # writer[s].todo[1].id}
         /\ writer[s].todo = <<>> =>
              /\ WriterBecomes(s, Tail(writer[s].q), "idle", 1, 0, writer[s].id, writer[s].todo)
              /\ rows' = rows
         /\ writer[s].pc = "purge" /\ writer[s].q # <<>>
<1>1. writer[s].pc = "purge" /\ writer[s].q # <<>>
  BY DEF DeleteForClear, QueuesOK, QueueOK, W
<1>2. CASE writer[s].todo # <<>>
  <2>1. Tail(writer[s].todo) \in Seq(ChunkRow) /\ Head(writer[s].todo) = writer[s].todo[1]
    <3>1. PICK t : t = writer[s].todo
      OBVIOUS
    <3>2. t \in Seq(ChunkRow) /\ t # <<>>
      BY <1>2, <3>1, WriterRecord
    <3>3. Tail(t) \in Seq(ChunkRow) /\ Head(t) = t[1]
      BY <3>2
    <3>4. QED BY <3>1, <3>3
  <2>2. PICK todo \in Seq(ChunkRow) : todo = Tail(writer[s].todo)
    BY <2>1
  <2>3. writer' = [writer EXCEPT ![s].todo = todo]
    BY <1>2, <2>2 DEF DeleteForClear, W
  <2>4. rows' = {c \in rows : c.id # writer[s].todo[1].id}
    BY <1>2, <2>1 DEF DeleteForClear, W
  <2>5. WriterBecomes(s, writer[s].q, "purge", writer[s].seq, writer[s].cursor, writer[s].id, todo)
    BY <1>1, <2>3, WriterRecord DEF WriterBecomes, WriterType
  <2>6. QED BY <1>1, <1>2, <2>2, <2>4, <2>5
<1>3. CASE writer[s].todo = <<>>
  <2>1. Tail(writer[s].q) \in Seq(Nat)
    BY <1>1, HeadFacts
  <2>2. PICK q \in Seq(Nat) : q = Tail(writer[s].q)
    BY <2>1
  <2>3. writer' = [writer EXCEPT ![s].pc = "idle", ![s].q = q, ![s].seq = 1, ![s].cursor = 0]
    BY <1>3, <2>2 DEF DeleteForClear, W
  <2>4. WriterBecomes(s, q, "idle", 1, 0, writer[s].id, writer[s].todo)
    BY <2>3, WriterRecord DEF WriterBecomes, WriterType
  <2>5. rows' = rows
    BY <1>3 DEF DeleteForClear, W
  <2>6. QED BY <1>1, <1>3, <2>2, <2>4, <2>5
<1>4. QED BY <1>1, <1>2, <1>3

\* A writer with another queue.
LEMMA WriterQueue ==
  ASSUME Types, NEW s \in 1..MaxSessions, NEW q \in Seq(Nat),
         writer' = [writer EXCEPT ![s].q = q]
  PROVE  WriterBecomes(s, q, writer[s].pc, writer[s].seq, writer[s].cursor,
                       writer[s].id, writer[s].todo)
BY WriterRecord DEF WriterBecomes, WriterType

\* A message queued is the last of the queue.
LEMMA QueuedFacts ==
  ASSUME Types, NEW s \in 1..MaxSessions, NEW b \in Nat,
         writer' = [writer EXCEPT ![s].q = Append(@, b)]
  PROVE  Queued(s, b)
<1>1. PICK q : q = writer[s].q
  OBVIOUS
<1>2. q \in Seq(Nat)
  BY <1>1, WriterRecord
<1>3. PICK v : v = Append(q, b)
  OBVIOUS
<1>4. /\ v \in Seq(Nat) /\ Len(v) = Len(q) + 1 /\ v[Len(q) + 1] = b
      /\ DOMAIN v = DOMAIN q \cup {Len(q) + 1}
      /\ \A i \in DOMAIN q : i < Len(q) + 1 /\ v[i] = q[i]
  BY <1>2, <1>3
<1>5. writer' = [writer EXCEPT ![s].q = v]
  BY <1>1, <1>3
<1>6. WriterBecomes(s, v, writer[s].pc, writer[s].seq, writer[s].cursor,
                    writer[s].id, writer[s].todo)
  <2>1. v \in Seq(Nat)
    BY <1>4
  <2>2. QED BY <2>1, <1>5, WriterQueue
<1>7. writer'[s].q = v
  BY <1>6 DEF WriterBecomes
<1>8. QED BY <1>1, <1>3, <1>4, <1>6, <1>7 DEF Queued

\* The tab whose pane is live has the writer of the pane's row.
LEMMA TabWriter ==
  ASSUME Types, Own, QueuesOK, NEW p \in Procs, NEW i \in DOMAIN tabs[p]
  PROVE  /\ tabs[p][i].row \in Nat
         /\ tabs[p][i].session # 0 =>
              /\ tabs[p][i].session \in 1..MaxSessions /\ held[tabs[p][i].session] = p
              /\ Alive(tabs[p][i].session)
              /\ sessions[tabs[p][i].session] = tabs[p][i].row
              /\ writer[tabs[p][i].session].row = tabs[p][i].row
              /\ tabs[p][i].row # 0
         /\ tabs[p][i].live /\ tabs[p][i].session = 0 => tabs[p][i].row = 0
<1>1. TabOK(p, i) /\ panes \in Nat
  BY DEF Own, TabsOK, Types, DbTypes
<1>2. tabs[p][i].row \in Nat
  BY <1>1 DEF TabOK
<1>3. ASSUME tabs[p][i].session # 0
      PROVE  /\ tabs[p][i].session \in 1..MaxSessions /\ held[tabs[p][i].session] = p
             /\ Alive(tabs[p][i].session)
             /\ sessions[tabs[p][i].session] = tabs[p][i].row
             /\ writer[tabs[p][i].session].row = tabs[p][i].row
             /\ tabs[p][i].row # 0
  <2>1. tabs[p][i].session \in 1..MaxSessions /\ held[tabs[p][i].session] = p
    BY <1>3, HeldFacts
  <2>2. Alive(tabs[p][i].session)
    BY <2>1 DEF Alive
  <2>3. sessions[tabs[p][i].session] = tabs[p][i].row /\ tabs[p][i].row # 0
    BY <1>1, <1>3 DEF TabOK, SessionsOf, Types, DbTypes
  <2>4. writer[tabs[p][i].session].row = tabs[p][i].row
    BY <2>1, <2>2, <2>3 DEF QueuesOK, QueueOK
  <2>5. QED BY <2>1, <2>2, <2>3, <2>4
<1>4. QED BY <1>1, <1>2, <1>3 DEF TabOK

\* What a seal adds to history and queue.
LEMMA SealFacts ==
  ASSUME Types, Own, QueuesOK, NEW p \in Procs, NEW i \in 1..Len(tabs[p]), SealBlock(p, i)
  PROVE  Sealed(p, i)
<1>1. /\ sealedIn \in Seq(Nat) /\ Len(sealedIn) \in Nat /\ LinesOf \in Seq(Nat)
      /\ Len(sealedIn) < Len(LinesOf) /\ i \in DOMAIN tabs[p]
  BY StoreAssumption DEF Types, ProcTypes, FileTypes, SealBlock
<1>2. tabs[p][i].row \in Nat
  BY <1>1, TabWriter
<1>3. sealedIn' = Append(sealedIn, tabs[p][i].row)
  BY DEF SealBlock
<1>4. PICK s, b : s = tabs[p][i].session /\ b = Len(sealedIn) + 1
  OBVIOUS
<1>5. /\ writer' = IF s = 0 THEN writer ELSE [writer EXCEPT ![s].q = Append(@, b)]
      /\ b \in Nat /\ Len(LinesOf) \in Nat
  BY <1>1, <1>4 DEF SealBlock
<1>6. s # 0 => s \in 1..MaxSessions
  BY <1>1, <1>4, TabWriter
<1>7. s # 0 => Queued(s, b)
  BY <1>5, <1>6, QueuedFacts
<1>8. QED BY <1>1, <1>2, <1>3, <1>4, <1>5, <1>7 DEF Sealed

\* A discard is queued to the writer of the pane, if it has one.
LEMMA DiscardFacts ==
  ASSUME Types, Own, QueuesOK, NEW p \in Procs, NEW i \in 1..Len(tabs[p]), Discard(p, i)
  PROVE  /\ tabs[p][i].session = 0 => writer' = writer
         /\ tabs[p][i].session # 0 => Queued(tabs[p][i].session, 0)
<1>1. PICK s : s = tabs[p][i].session
  OBVIOUS
<1>2. writer' = IF s = 0 THEN writer ELSE [writer EXCEPT ![s].q = Append(@, 0)]
  BY <1>1 DEF Discard
<1>3. s # 0 => s \in 1..MaxSessions
  BY <1>1, TabWriter DEF Types, ProcTypes
<1>4. 0 \in Nat
  OBVIOUS
<1>5. QED BY <1>1, <1>2, <1>3, <1>4, QueuedFacts

\* A session just locked has a writer with nothing to do.
LEMMA ResumeFacts ==
  ASSUME Types, Own, NEW p \in Procs, TakeLock(p)
  PROVE  \E got \in BOOLEAN : Locked(p, ui[p].at, got) /\ Resumes(p, got)
<1>1. PICK got \in BOOLEAN : Locked(p, ui[p].at, got)
  BY LockFacts
<1>2. PICK u : u = ui[p]
  OBVIOUS
<1>3. u.session \in 1..MaxSessions /\ (got <=> held[u.session] = "free")
  BY <1>1, <1>2 DEF Locked
<1>4. writer \in [1..MaxSessions -> WriterType] /\ u \in UiType
  BY <1>2 DEF Types, ProcTypes
<1>5. PICK w : w = Resumed(u)
  OBVIOUS
<1>6. w \in WriterType
  <2>1. u.start \in Nat /\ u.row \in Nat
    BY <1>4 DEF UiType
  <2>2. w = [q |-> <<>>, pc |-> "idle", seq |-> 1, cursor |-> u.start, row |-> u.row,
             id |-> 0, todo |-> <<>>]
    BY <1>5 DEF Resumed, NoWriter
  <2>3. <<>> \in Seq(Nat) /\ <<>> \in Seq(ChunkRow)
    OBVIOUS
  <2>4. QED BY <2>1, <2>2, <2>3 DEF WriterType
<1>7. writer' = IF got THEN [writer EXCEPT ![u.session] = w] ELSE writer
  BY <1>2, <1>3, <1>5 DEF TakeLock
<1>8. Resumes(p, got)
  BY <1>2, <1>3, <1>4, <1>5, <1>6, <1>7 DEF Resumes
<1>9. QED BY <1>1, <1>8

\* A process that ends takes its writers along.
LEMMA GoneFacts ==
  ASSUME Types, Own, NEW p \in Procs, Gone(p)
  PROVE  /\ writer' \in [1..MaxSessions -> WriterType]
         /\ \A s \in 1..MaxSessions :
              /\ held[s] = p => writer'[s] = NoWriter /\ ~Alive(s)'
              /\ held[s] # p => writer'[s] = writer[s] /\ (Alive(s)' <=> Alive(s))
         /\ tabs'[p] = <<>> /\ ui'[p] = NoOp /\ gc'[p] = NoGc
         /\ \A q \in Procs : q # p => tabs'[q] = tabs[q] /\ ui'[q] = ui[q] /\ gc'[q] = gc[q]
         /\ gc' = [q \in Procs |-> gc'[q]] /\ tabs' \in [Procs -> Seq(TabType)]
         /\ ui' \in [Procs -> UiType]
         /\ held' \in [1..MaxSessions -> Procs \cup {"free", "probe"}]
<1>1. /\ gc[p].probing # 0 => held[gc[p].probing] = "probe"
      /\ "free" \notin Procs /\ "probe" \notin Procs
  BY HeldFacts
<1>2. /\ writer \in [1..MaxSessions -> WriterType] /\ gc = [q \in Procs |-> gc[q]]
      /\ tabs \in [Procs -> Seq(TabType)] /\ ui \in [Procs -> UiType]
      /\ held \in [1..MaxSessions -> Procs \cup {"free", "probe"}]
  BY DEF Types, ProcTypes
<1>3. NoWriter \in WriterType
  BY DEF NoWriter, WriterType
<1>4. writer' \in [1..MaxSessions -> WriterType]
  BY <1>2, <1>3 DEF Gone
<1>5. /\ \A s \in 1..MaxSessions :
           held'[s] = IF held[s] = p \/ gc[p].probing = s THEN "free" ELSE held[s]
      /\ held' \in [1..MaxSessions -> Procs \cup {"free", "probe"}]
  BY <1>2 DEF Gone
<1>6. ASSUME NEW s \in 1..MaxSessions
      PROVE  /\ held[s] = p => writer'[s] = NoWriter /\ held'[s] \notin Procs
             /\ held[s] # p => writer'[s] = writer[s] /\ (held'[s] \in Procs <=> held[s] \in Procs)
  <2>1. writer'[s] = IF held[s] = p THEN NoWriter ELSE writer[s]
    BY DEF Gone
  <2>2. gc[p].probing = s => held[s] = "probe"
    BY <1>1
  <2>3. QED BY <2>1, <2>2, <1>1, <1>5
<1>7. /\ tabs' = [tabs EXCEPT ![p] = <<>>] /\ ui' = [ui EXCEPT ![p] = NoOp]
      /\ gc' = [gc EXCEPT ![p] = NoGc]
  BY DEF Gone
<1>8. NoOp \in UiType /\ <<>> \in Seq(TabType)
  BY DEF NoOp, UiType
<1>9. /\ tabs'[p] = <<>> /\ ui'[p] = NoOp /\ gc'[p] = NoGc
      /\ \A q \in Procs : q # p => tabs'[q] = tabs[q] /\ ui'[q] = ui[q] /\ gc'[q] = gc[q]
      /\ gc' = [q \in Procs |-> gc'[q]] /\ tabs' \in [Procs -> Seq(TabType)]
      /\ ui' \in [Procs -> UiType]
  BY <1>2, <1>7, <1>8
<1>10. QED BY <1>4, <1>5, <1>6, <1>9 DEF Alive

-----------------------------------------------------------------------------
\* Queues

SealedGrows ==
  \A b \in 1..Len(sealedIn) : b \in 1..Len(sealedIn') /\ sealedIn'[b] = sealedIn[b]

\* A writer that a step leaves alone.
LeftAlone(s) ==
  /\ writer'[s] = writer[s] /\ (Alive(s)' <=> Alive(s))
  /\ Alive(s) => sessions'[s] = sessions[s]

\* A queue left alone stays right.
LEMMA QueueSame ==
  ASSUME NEW s \in 1..MaxSessions, QueueOK(s), LeftAlone(s), SealedGrows
  PROVE  QueueOK(s)'
BY DEF QueueOK, LeftAlone, SealedGrows

SameDb == UNCHANGED <<sessions, held, sealedIn>>

\* Steps that leave sessions and locks leave the queues alone.
LEMMA SameDbFacts ==
  ASSUME SameDb
  PROVE  /\ SealedGrows
         /\ \A s \in 1..MaxSessions : /\ Alive(s)' <=> Alive(s)
                                      /\ writer'[s] = writer[s] => LeftAlone(s)
BY DEF SameDb, SealedGrows, LeftAlone, Alive

\* A writer that moves on within a message keeps its queue right.
LEMMA QueueKept ==
  ASSUME Types, QueuesOK, SameDb, NEW s \in 1..MaxSessions, NEW pc, NEW seq, NEW cursor,
         NEW id, NEW todo, WriterBecomes(s, writer[s].q, pc, seq, cursor, id, todo),
         pc # "idle" => writer[s].q # <<>>,
         pc \in {"temp", "renamed", "rowed"} => writer[s].q[1] # 0,
         pc \in {"unlink", "purge"} => writer[s].q[1] = 0
  PROVE  QueuesOK'
<1>1. \A t \in 1..MaxSessions : t # s => LeftAlone(t)
  BY SameDbFacts DEF WriterBecomes
<1>2. QueueOK(s) /\ (Alive(s)' <=> Alive(s)) /\ sealedIn' = sealedIn /\ sessions' = sessions
  BY SameDbFacts DEF QueuesOK, SameDb
<1>3. writer'[s].q = writer[s].q /\ writer'[s].pc = pc /\ writer'[s].row = writer[s].row
  BY DEF WriterBecomes
<1>4. QueueOK(s)'
  BY <1>2, <1>3 DEF QueueOK
<1>5. QED BY <1>1, <1>4, SameDbFacts, QueueSame DEF QueuesOK

\* A writer that is done with a message keeps its queue right.
LEMMA QueueShorter ==
  ASSUME Types, QueuesOK, SameDb, NEW s \in 1..MaxSessions, NEW seq, NEW cursor,
         NEW id, NEW todo, writer[s].q # <<>>, Alive(s),
         WriterBecomes(s, Tail(writer[s].q), "idle", seq, cursor, id, todo)
  PROVE  QueuesOK'
<1>1. \A t \in 1..MaxSessions : t # s => LeftAlone(t)
  BY SameDbFacts DEF WriterBecomes
<1>2. QueueOK(s) /\ (Alive(s)' <=> Alive(s)) /\ sealedIn' = sealedIn /\ sessions' = sessions
  BY SameDbFacts DEF QueuesOK, SameDb
<1>3. PICK q, v : q = writer[s].q /\ v = Tail(writer[s].q)
  OBVIOUS
<1>4. writer'[s].q = v /\ writer'[s].pc = "idle" /\ writer'[s].row = writer[s].row
  BY <1>3 DEF WriterBecomes
<1>5. \A i \in DOMAIN v : i + 1 \in DOMAIN q /\ v[i] = q[i + 1] /\ i \in Nat
  BY <1>3, HeadFacts
<1>6. \A i \in DOMAIN v : v[i] # 0 => v[i] \in 1..Len(sealedIn) /\ sealedIn[v[i]] = writer[s].row
  BY <1>2, <1>3, <1>5 DEF QueueOK
<1>7. \A i, j \in DOMAIN v : i < j /\ v[i] # 0 /\ v[j] # 0 => v[i] < v[j]
  <2>1. SUFFICES ASSUME NEW i \in DOMAIN v, NEW j \in DOMAIN v, i < j, v[i] # 0, v[j] # 0
                 PROVE  v[i] < v[j]
    OBVIOUS
  <2>2. i + 1 < j + 1
    BY <2>1, <1>5
  <2>3. QED BY <2>1, <2>2, <1>2, <1>3, <1>5 DEF QueueOK
<1>8. QueueOK(s)'
  BY <1>2, <1>4, <1>6, <1>7 DEF QueueOK
<1>9. QED BY <1>1, <1>8, SameDbFacts, QueueSame DEF QueuesOK

\* Every step of a writer keeps all queues right.
LEMMA WriterQueues ==
  ASSUME Types, Own, QueuesOK, NEW s \in 1..MaxSessions, Alive(s), WriterStep(s)
  PROVE  QueuesOK'
<1>1. QueueOK(s)
  BY DEF QueuesOK
<1>2. ASSUME writer[s].q # <<>>, SealFails(s), SameDb PROVE QueuesOK'
  BY <1>2, WriterSealFails, QueueShorter
<1>3. CASE WriteTemp(s)
  <2>1. writer[s].q # <<>> /\ Head(writer[s].q) # 0 /\ SameDb
    BY <1>3 DEF WriteTemp, W, SameDb, dbVars, ghostVars
  <2>2. writer[s].q[1] # 0
    BY <2>1, HeadFacts
  <2>3. QED BY <1>3, <2>1, <2>2, WriterTemp, QueueKept
<1>4. CASE Rename(s)
  <2>1. SameDb /\ writer[s].pc = "temp"
    BY <1>4 DEF Rename, W, SameDb, dbVars, ghostVars
  <2>2. writer[s].q # <<>> /\ writer[s].q[1] # 0
    BY <2>1, <1>1 DEF QueueOK
  <2>3. CASE SealFails(s)
    BY <2>1, <2>2, <2>3, <1>2
  <2>4. CASE writer' = [writer EXCEPT ![s].pc = "renamed"]
    BY <2>1, <2>2, <2>4, WriterRenamed, QueueKept
  <2>5. QED BY <1>4, <2>3, <2>4 DEF Rename
<1>5. CASE InsertRow(s)
  <2>1. SameDb /\ writer[s].pc = "renamed"
    BY <1>5 DEF InsertRow, W, SameDb
  <2>2. writer[s].q # <<>> /\ writer[s].q[1] # 0
    BY <2>1, <1>1 DEF QueueOK
  <2>3. QED BY <1>5, <2>1, <2>2, WriterInserts, QueueKept
<1>6. CASE InsertChips(s)
  <2>1. SameDb
    BY <1>6 DEF InsertChips, SameDb, ghostVars
  <2>2. QED BY <1>6, <2>1, WriterChips, QueueShorter
<1>7. CASE WriteFails(s)
  <2>1. SameDb /\ SealFails(s) /\ writer[s].pc # "idle"
    BY <1>7 DEF WriteFails, W, SameDb, dbVars, ghostVars
  <2>2. writer[s].q # <<>>
    BY <2>1, <1>1 DEF QueueOK
  <2>3. QED BY <2>1, <2>2, <1>2
<1>8. CASE ListForClear(s)
  <2>1. SameDb /\ writer[s].q # <<>> /\ Head(writer[s].q) = 0
    BY <1>8 DEF ListForClear, W, SameDb, dbVars, ghostVars
  <2>2. writer[s].q[1] = 0
    BY <2>1, HeadFacts
  <2>3. QED BY <1>8, <2>1, <2>2, WriterLists, QueueKept
<1>9. CASE UnlinkForClear(s)
  <2>1. SameDb /\ writer[s].pc = "unlink"
    BY <1>9 DEF UnlinkForClear, W, SameDb, dbVars, ghostVars
  <2>2. writer[s].q # <<>> /\ writer[s].q[1] = 0
    BY <2>1, <1>1 DEF QueueOK
  <2>3. CASE writer' = writer
    BY <2>1, <2>3, SameDbFacts, QueueSame DEF QueuesOK
  <2>4. CASE writer' = [writer EXCEPT ![s].pc = "purge"]
    BY <2>1, <2>2, <2>4, WriterPurges, QueueKept
  <2>5. QED BY <1>9, <2>3, <2>4 DEF UnlinkForClear
<1>10. CASE DeleteForClear(s)
  <2>1. SameDb
    BY <1>10 DEF DeleteForClear, SameDb, ghostVars
  <2>2. writer[s].pc = "purge" /\ writer[s].q # <<>> /\ writer[s].q[1] = 0
    BY <1>10, <1>1, WriterDeletes DEF QueueOK
  <2>3. CASE writer[s].todo # <<>>
    <3>1. WriterBecomes(s, writer[s].q, "purge", writer[s].seq, writer[s].cursor,
                        writer[s].id, Tail(writer[s].todo))
      BY <1>10, <2>3, WriterDeletes
    <3>2. QED BY <3>1, <2>1, <2>2, QueueKept
  <2>4. CASE writer[s].todo = <<>>
    <3>1. WriterBecomes(s, Tail(writer[s].q), "idle", 1, 0, writer[s].id, writer[s].todo)
      BY <1>10, <2>4, WriterDeletes
    <3>2. QED BY <3>1, <2>1, <2>2, QueueShorter
  <2>5. QED BY <2>3, <2>4
<1>11. QED
  BY <1>3, <1>4, <1>5, <1>6, <1>7, <1>8, <1>9, <1>10 DEF WriterStep

\* A block or a discard joins the end of a queue.
LEMMA QueueLonger ==
  ASSUME Types, QueuesOK, NEW s \in 1..MaxSessions, NEW b \in Nat, Queued(s, b), Alive(s),
         SealedGrows, UNCHANGED <<sessions, held>>,
         b # 0 => /\ b = Len(sealedIn) + 1 /\ b \in 1..Len(sealedIn')
                  /\ sealedIn'[b] = writer[s].row
  PROVE  QueuesOK'
<1>1. ASSUME NEW t \in 1..MaxSessions, t # s PROVE QueueOK(t)'
  <2>1. LeftAlone(t)
    BY <1>1 DEF Queued, WriterBecomes, LeftAlone, Alive
  <2>2. QED BY <2>1, QueueSame DEF QueuesOK
<1>2. QueueOK(s) /\ Alive(s)' /\ sessions' = sessions
  BY DEF QueuesOK, Alive
<1>3. PICK q, v : q = writer[s].q /\ v = writer'[s].q
  OBVIOUS
<1>4. /\ v \in Seq(Nat) /\ q \in Seq(Nat) /\ v[Len(q) + 1] = b
      /\ DOMAIN v = DOMAIN q \cup {Len(q) + 1}
      /\ \A i \in DOMAIN q : i < Len(q) + 1 /\ v[i] = q[i]
      /\ writer'[s].pc = writer[s].pc /\ writer'[s].row = writer[s].row
  BY <1>3, WriterRecord DEF Queued, WriterBecomes
<1>5. Len(sealedIn) \in Nat /\ Len(q) \in Nat /\ DOMAIN q = 1..Len(q)
  BY <1>4 DEF Types, FileTypes
<1>6. q # <<>> => v # <<>> /\ 1 \in DOMAIN q /\ v[1] = q[1]
  <2>1. q # <<>> => 1 \in DOMAIN q
    BY <1>4, <1>5
  <2>2. QED BY <2>1, <1>4
<1>7. \A i \in DOMAIN q : q[i] # 0 => q[i] \in 1..Len(sealedIn) /\ sealedIn[q[i]] = writer[s].row
  BY <1>2, <1>3 DEF QueueOK
<1>8. \A i \in DOMAIN v : v[i] # 0 => v[i] \in 1..Len(sealedIn') /\ sealedIn'[v[i]] = writer[s].row
  BY <1>4, <1>7 DEF SealedGrows
<1>9. \A i, j \in DOMAIN v : i < j /\ v[i] # 0 /\ v[j] # 0 => v[i] < v[j]
  <2>1. SUFFICES ASSUME NEW i \in DOMAIN v, NEW j \in DOMAIN v, i < j, v[i] # 0, v[j] # 0
                 PROVE  v[i] < v[j]
    OBVIOUS
  <2>2. i \in DOMAIN q
    BY <2>1, <1>4, <1>5
  <2>3. CASE j \in DOMAIN q
    BY <2>1, <2>2, <2>3, <1>2, <1>3, <1>4 DEF QueueOK
  <2>4. CASE j = Len(q) + 1
    <3>1. v[j] = Len(sealedIn) + 1 /\ v[i] = q[i] /\ v[i] \in 1..Len(sealedIn)
      BY <2>1, <2>2, <2>4, <1>4, <1>7
    <3>2. QED BY <3>1, <1>5
  <2>5. QED BY <2>3, <2>4, <1>4
<1>10. QueueOK(s)'
  BY <1>2, <1>3, <1>4, <1>6, <1>8, <1>9 DEF QueueOK
<1>11. QED BY <1>1, <1>10 DEF QueuesOK

\* Nothing but sessions, tabs and collectors changes.
LEMMA QueuesApart ==
  ASSUME Types, QueuesOK, UNCHANGED <<writer, sealedIn>>,
         \A s \in 1..MaxSessions : Alive(s)' <=> Alive(s),
         \A s \in 1..MaxSessions : Alive(s) => sessions'[s] = sessions[s]
  PROVE  QueuesOK'
<1>1. SealedGrows
  BY DEF SealedGrows
<1>2. QED BY <1>1, QueueSame DEF QueuesOK, LeftAlone

\* A collector leaves writers, sessions and tabs alone, and no session ends by
\* it.
LEMMA CollectorAlive ==
  ASSUME Types, Own, NEW p \in Procs, GcStep(p)
  PROVE  /\ \A s \in 1..MaxSessions : Alive(s)' <=> Alive(s)
         /\ UNCHANGED <<writer, sealedIn, sessions, panes, layout, ui, tabs>>
         /\ UNCHANGED <<durable, cleared, unsettled, launches>>
<1>0. /\ \A q \in Procs : gc[q].probing # 0 =>
           gc[q].probing \in 1..MaxSessions /\ held[gc[q].probing] = "probe"
      /\ "free" \notin Procs /\ "probe" \notin Procs
      /\ held \in [1..MaxSessions -> Procs \cup {"free", "probe"}]
  BY HeldFacts DEF Types, ProcTypes
<1>1. CASE ListChunks(p)
  BY <1>1 DEF ListChunks, Alive, dbVars, ghostVars
<1>2. CASE EndProbe(p)
  <2>1. /\ held' = [held EXCEPT ![gc[p].probing] = "free"] /\ gc[p].probing # 0
        /\ UNCHANGED <<dbVars, writer, ui, tabs, ghostVars, launches>>
    BY <1>2 DEF EndProbe
  <2>2. \A s \in 1..MaxSessions : held'[s] \in Procs <=> held[s] \in Procs
    BY <1>0, <2>1
  <2>3. QED BY <2>1, <2>2 DEF Alive, dbVars, ghostVars
<1>3. CASE ChooseDoomed(p)
  <2>1. UNCHANGED <<dbVars, held, writer, ui, tabs, ghostVars, launches>>
    BY <1>3 DEF ChooseDoomed
  <2>2. QED BY <2>1 DEF Alive, dbVars, ghostVars
<1>4. CASE DeleteFile(p)
  BY <1>4 DEF DeleteFile, Alive, dbVars
<1>5. CASE DeleteRow(p)
  BY <1>5 DEF DeleteRow, Alive, ghostVars
<1>6. CASE SweepTemps(p)
  BY <1>6 DEF SweepTemps, Alive, dbVars, ghostVars
<1>7. ASSUME NEW r \in Unprobed(p), ProbeFree(p, r)
      PROVE  /\ \A s \in 1..MaxSessions : Alive(s)' <=> Alive(s)
             /\ UNCHANGED <<writer, sealedIn, sessions, panes, layout, ui, tabs>>
             /\ UNCHANGED <<durable, cleared, unsettled, launches>>
  <2>1. PICK x : x = gc[p].latest[r]
    OBVIOUS
  <2>2. x \in 1..MaxSessions
    BY <2>1 DEF Types, ProcTypes, IsGc, Unprobed
  <2>3. /\ held' = [held EXCEPT ![x] = "probe"] /\ held[x] = "free"
        /\ UNCHANGED <<dbVars, writer, ui, tabs, ghostVars, launches>>
    BY <1>7, <2>1 DEF ProbeFree
  <2>4. \A s \in 1..MaxSessions : held'[s] \in Procs <=> held[s] \in Procs
    BY <1>0, <2>2, <2>3
  <2>5. QED BY <2>3, <2>4 DEF Alive, dbVars, ghostVars
<1>8. ASSUME NEW r \in Unprobed(p), ProbeLive(p, r)
      PROVE  /\ \A s \in 1..MaxSessions : Alive(s)' <=> Alive(s)
             /\ UNCHANGED <<writer, sealedIn, sessions, panes, layout, ui, tabs>>
             /\ UNCHANGED <<durable, cleared, unsettled, launches>>
  BY <1>8 DEF ProbeLive, Alive, dbVars, ghostVars
<1>9. QED BY <1>1, <1>2, <1>3, <1>4, <1>5, <1>6, <1>7, <1>8 DEF GcStep

\* Sessions are only added.
LEMMA BegunSessions ==
  ASSUME Types, Own, NEW p \in Procs, NEW at, NEW r, Begun(p, at, r)
  PROVE  \A s \in Sessions : s \in Sessions' /\ sessions'[s] = sessions[s]
<1>1. /\ Len(sessions') = Len(sessions) + 1 /\ Len(sessions) \in Nat
      /\ \A s \in Sessions : sessions'[s] = sessions[s]
  BY DEF Begun, Types, DbTypes
<1>2. QED BY <1>1 DEF Sessions

\* A launch starts a collector, or none; other steps leave the collectors.
GcLaunched(p) ==
  /\ gc' = [q \in Procs |-> gc'[q]] /\ \A q \in Procs : q # p => gc'[q] = gc[q]
  /\ gc'[p] \in {gc[p], NoGc, [NoGc EXCEPT !.pc = "list"]}

\* A launch starts a collector with nothing seen, or none.
LEMMA GcLaunchedWhen ==
  ASSUME Types, NEW p \in Procs, StartGc(p) \/ UNCHANGED gc
  PROVE  GcLaunched(p)
<1>1. gc = [q \in Procs |-> gc[q]]
  BY DEF Types, ProcTypes
<1>2. QED BY <1>1 DEF GcLaunched, StartGc

\* Which steps begin a session, and for what.
Begins(p) ==
  \E at, r : /\ BeginRows(p, at, r) /\ BeginsFor(p, at, r) /\ ~Starting(p)
             /\ UNCHANGED <<rows, layout, diskVars, held, writer, tabs, ghostVars>>
             /\ GcLaunched(p)

\* A fresh launch, a new tab and a restart begin a session.
LEMMA BeginsWhen ==
  ASSUME Types, Own, NEW p \in Procs,
         \/ LaunchFresh(p) \/ NewTab(p)
         \/ \E i \in 1..Len(tabs[p]) : RestartPane(p, i)
  PROVE  Begins(p)
<1>0. /\ DOMAIN tabs[p] = 1..Len(tabs[p]) /\ gc = [q \in Procs |-> gc[q]]
  BY DEF Types, ProcTypes
<1>1. CASE LaunchFresh(p)
  <2>1. BeginsFor(p, 1, 0) /\ ~Starting(p)
    BY <1>1 DEF LaunchFresh, BeginsFor, Running, Starting, NoOp
  <2>2. /\ BeginRows(p, 1, 0)
        /\ UNCHANGED <<rows, layout, diskVars, held, writer, tabs, ghostVars>>
    BY <1>1 DEF LaunchFresh
  <2>3. GcLaunched(p)
    BY <1>1, GcLaunchedWhen DEF LaunchFresh
  <2>4. QED BY <2>1, <2>2, <2>3 DEF Begins
<1>2. CASE NewTab(p)
  <2>1. BeginsFor(p, Len(tabs[p]) + 1, 0) /\ ~Starting(p)
    BY <1>2 DEF NewTab, UiIdle, BeginsFor, Starting
  <2>2. /\ BeginRows(p, Len(tabs[p]) + 1, 0)
        /\ UNCHANGED <<rows, layout, diskVars, held, writer, gc, tabs, ghostVars>>
    BY <1>2 DEF NewTab
  <2>3. QED BY <2>1, <2>2, GcLaunchedWhen DEF Begins
<1>3. ASSUME NEW i \in 1..Len(tabs[p]), RestartPane(p, i) PROVE Begins(p)
  <2>1. BeginsFor(p, i, tabs[p][i].row) /\ ~Starting(p)
    BY <1>0, <1>3 DEF RestartPane, UiIdle, BeginsFor, Starting
  <2>2. /\ BeginRows(p, i, tabs[p][i].row)
        /\ UNCHANGED <<rows, layout, diskVars, held, writer, gc, tabs, ghostVars>>
    BY <1>3 DEF RestartPane
  <2>3. QED BY <2>1, <2>2, GcLaunchedWhen DEF Begins
<1>4. QED BY <1>1, <1>2, <1>3

\* Everything a launch of a saved workspace, a save or a quit leaves alone.
Still == UNCHANGED <<sessions, panes, rows, files, held, writer, ghostVars>>

\* A restoring launch, a saved layout and the start of a quit touch no queue
\* and no file.
LEMMA StillWhen ==
  ASSUME NEW p, LaunchRestored(p) \/ SaveLayout(p) \/ BeginQuit(p)
  PROVE  Still
BY DEF LaunchRestored, SaveLayout, BeginQuit, Still, dbVars, diskVars

\* Every step keeps the queues right.
LEMMA QueuesNext ==
  ASSUME Types, Own, QueuesOK, [Next]_vars
  PROVE  QueuesOK'
<1>1. CASE UNCHANGED vars
  BY <1>1, QueuesApart DEF vars, dbVars, ghostVars, Alive
<1>2. ASSUME NEW p \in Procs, Begins(p) PROVE QueuesOK'
  <2>1. PICK at, r : /\ BeginRows(p, at, r) /\ BeginsFor(p, at, r) /\ ~Starting(p)
                     /\ UNCHANGED <<rows, layout, diskVars, held, writer, tabs, ghostVars>>
    BY <1>2 DEF Begins
  <2>2. Begun(p, at, r)
    BY <2>1, BeginFacts
  <2>3. \A s \in 1..MaxSessions : Alive(s) => sessions'[s] = sessions[s]
    BY <2>2, BegunSessions, AliveFacts
  <2>4. QED BY <2>1, <2>3, QueuesApart DEF Alive, ghostVars
<1>3. ASSUME NEW p, Still PROVE QueuesOK'
  BY <1>3, QueuesApart DEF Still, ghostVars, Alive
<1>4. ASSUME NEW p \in Procs, NEW i \in 1..Len(tabs[p]), SealBlock(p, i) PROVE QueuesOK'
  <2>1. Sealed(p, i) /\ UNCHANGED <<sessions, held>>
    BY <1>4, SealFacts DEF SealBlock, dbVars
  <2>2. PICK s, b : s = tabs[p][i].session /\ b = Len(sealedIn) + 1
    OBVIOUS
  <2>3. Len(sealedIn) \in Nat /\ b \in Nat
    BY <2>1, <2>2 DEF Sealed
  <2>4. SealedGrows
    <3>1. \A x \in 1..Len(sealedIn) : x \in 1..Len(sealedIn')
      BY <2>1, <2>3 DEF Sealed
    <3>2. QED BY <2>1, <3>1 DEF SealedGrows, Sealed
  <2>5. CASE s = 0
    <3>1. writer' = writer
      BY <2>1, <2>2, <2>5 DEF Sealed
    <3>2. QED BY <2>1, <2>4, <3>1, QueueSame DEF QueuesOK, LeftAlone, Alive
  <2>6. CASE s # 0
    <3>1. s \in 1..MaxSessions /\ Alive(s) /\ writer[s].row = tabs[p][i].row
      BY <2>2, <2>6, TabWriter DEF Types, ProcTypes
    <3>2. b \in 1..Len(sealedIn') /\ sealedIn'[b] = writer[s].row
      BY <2>1, <2>2, <2>3, <3>1 DEF Sealed
    <3>3. Queued(s, b)
      BY <2>1, <2>2, <2>6 DEF Sealed
    <3>4. QED BY <2>1, <2>2, <2>3, <2>4, <3>1, <3>2, <3>3, QueueLonger
  <2>7. QED BY <2>5, <2>6
<1>5. ASSUME NEW p \in Procs, NEW i \in 1..Len(tabs[p]), Discard(p, i),
             UNCHANGED <<sessions, held, sealedIn>>
      PROVE  QueuesOK'
  <2>1. PICK s : s = tabs[p][i].session
    OBVIOUS
  <2>2. SealedGrows /\ 0 \in Nat
    BY <1>5 DEF SealedGrows
  <2>3. CASE s = 0
    <3>1. writer' = writer
      BY <1>5, <2>1, <2>3, DiscardFacts
    <3>2. QED BY <1>5, <3>1, QueuesApart DEF Alive
  <2>4. CASE s # 0
    <3>1. s \in 1..MaxSessions /\ Alive(s)
      BY <2>1, <2>4, TabWriter DEF Types, ProcTypes
    <3>2. Queued(s, 0)
      BY <1>5, <2>1, <2>4, DiscardFacts
    <3>3. QED BY <1>5, <2>2, <3>1, <3>2, QueueLonger
  <2>5. QED BY <2>3, <2>4
<1>6. ASSUME NEW p \in Procs, NEW i \in 1..Len(tabs[p]), ClearScrollback(p, i) \/ CloseTab(p, i)
      PROVE  QueuesOK'
  <2>1. Discard(p, i) /\ UNCHANGED <<sessions, held, sealedIn>>
    BY <1>6 DEF ClearScrollback, CloseTab, dbVars
  <2>2. QED BY <2>1, <1>5
<1>7. ASSUME NEW p \in Procs, UserStep(p) PROVE QueuesOK'
  <2>1. CASE LaunchFresh(p) \/ NewTab(p) \/ \E i \in 1..Len(tabs[p]) : RestartPane(p, i)
    BY <2>1, <1>2, BeginsWhen
  <2>2. CASE LaunchRestored(p) \/ SaveLayout(p) \/ BeginQuit(p)
    BY <2>2, <1>3, StillWhen
  <2>3. QED BY <1>4, <1>6, <1>7, <2>1, <2>2 DEF UserStep
<1>8. ASSUME NEW p \in Procs, TakeLock(p) PROVE QueuesOK'
  <2>1. PICK got \in BOOLEAN : Locked(p, ui[p].at, got) /\ Resumes(p, got)
    BY <1>8, ResumeFacts
  <2>2. PICK u : u = ui[p]
    OBVIOUS
  <2>3. UNCHANGED <<sessions, sealedIn>> /\ SealedGrows
    BY <1>8 DEF TakeLock, dbVars, ghostVars, SealedGrows
  <2>4. StartOK(p)
    BY <1>8 DEF TakeLock, Own, StartsOK, Starting
  <2>5. sessions[u.session] = u.row
    BY <2>2, <2>4 DEF StartOK, SessionsOf
  <2>6. ASSUME NEW s \in 1..MaxSessions PROVE QueueOK(s)'
    <3>1. QueueOK(s)
      BY DEF QueuesOK
    <3>2. CASE s # u.session \/ ~got
      <4>1. LeftAlone(s)
        <5>1. writer'[s] = writer[s] /\ held'[s] = held[s]
          BY <2>1, <2>2, <3>2 DEF Locked, Resumes
        <5>2. QED BY <5>1, <2>3 DEF LeftAlone, Alive
      <4>2. QED BY <3>1, <4>1, <2>3, QueueSame
    <3>3. CASE s = u.session /\ got
      <4>1. /\ writer'[s].q = <<>> /\ writer'[s].pc = "idle" /\ writer'[s].row = u.row
        BY <2>1, <2>2, <3>3 DEF Resumes, Resumed, NoWriter
      <4>2. sessions'[s] = u.row
        BY <2>3, <2>5, <3>3
      <4>3. QED BY <4>1, <4>2 DEF QueueOK
    <3>4. QED BY <3>2, <3>3
  <2>7. QED BY <2>6 DEF QueuesOK
<1>9. ASSUME NEW p \in Procs, EndClose(p) PROVE QueuesOK'
  <2>1. Closed(p, ui[p].at) /\ UNCHANGED <<sessions, sealedIn, writer>> /\ SealedGrows
    BY <1>9, CloseFacts DEF EndClose, dbVars, ghostVars, SealedGrows
  <2>2. PICK x : x = tabs[p][ui[p].at].session
    OBVIOUS
  <2>3. ASSUME NEW s \in 1..MaxSessions PROVE QueueOK(s)'
    <3>1. QueueOK(s)
      BY DEF QueuesOK
    <3>2. CASE s # x
      <4>1. held'[s] = held[s]
        BY <2>1, <2>2, <3>2 DEF Closed
      <4>2. QED BY <2>1, <3>1, <4>1, QueueSame DEF LeftAlone, Alive
    <3>3. CASE s = x
      <4>1. held'[s] = "free" /\ writer[s].q = <<>>
        BY <2>1, <2>2, <3>3 DEF Closed
      <4>2. ~Alive(s)'
        BY <4>1, StoreAssumption DEF Alive
      <4>3. QED BY <2>1, <3>1, <4>1, <4>2 DEF QueueOK
    <3>4. QED BY <3>2, <3>3
  <2>4. QED BY <2>3 DEF QueuesOK
<1>10. ASSUME NEW p \in Procs, EndQuit(p) \/ Crash(p) PROVE QueuesOK'
  <2>1. Gone(p) /\ UNCHANGED <<sessions, sealedIn>> /\ SealedGrows
    BY <1>10 DEF EndQuit, Crash, dbVars, ghostVars, SealedGrows
  <2>2. \A s \in 1..MaxSessions :
          /\ held[s] = p => writer'[s] = NoWriter /\ ~Alive(s)'
          /\ held[s] # p => writer'[s] = writer[s] /\ (Alive(s)' <=> Alive(s))
    BY <2>1, GoneFacts
  <2>3. ASSUME NEW s \in 1..MaxSessions PROVE QueueOK(s)'
    <3>1. QueueOK(s)
      BY DEF QueuesOK
    <3>2. CASE held[s] # p
      BY <2>1, <2>2, <3>1, <3>2, QueueSame DEF LeftAlone
    <3>3. CASE held[s] = p
      <4>1. writer'[s].q = <<>> /\ writer'[s].pc = "idle" /\ ~Alive(s)'
        BY <2>2, <3>3 DEF NoWriter
      <4>2. QED BY <4>1 DEF QueueOK
    <3>4. QED BY <3>2, <3>3
  <2>4. QED BY <2>3 DEF QueuesOK
<1>11. ASSUME NEW p \in Procs, GcStep(p) PROVE QueuesOK'
  BY <1>11, CollectorAlive, QueuesApart
<1>12. ASSUME NEW s \in 1..Len(sessions), held[s] \in Procs, WriterStep(s) PROVE QueuesOK'
  <2>1. s \in 1..MaxSessions /\ Alive(s)
    BY <1>12, StoreAssumption DEF Types, DbTypes, Alive
  <2>2. QED BY <1>12, <2>1, WriterQueues
<1>13. QED
  BY <1>1, <1>7, <1>8, <1>9, <1>10, <1>11, <1>12 DEF Next, UiEnds

-----------------------------------------------------------------------------
\* Rows come and go

\* The chips label one row.
LEMMA ChipFacts ==
  ASSUME Types, QueuesOK, NEW s \in 1..MaxSessions, InsertChips(s)
  PROVE  Relabeled(writer[s].id, writer[s].q[1])
<1>1. writer[s].q # <<>>
  BY WriterChips
<1>2. Head(writer[s].q) = writer[s].q[1] /\ writer[s].q[1] \in Nat
  BY <1>1, HeadFacts, WriterRecord
<1>b. PICK b \in Nat : b = writer[s].q[1]
  BY <1>2
<1>i. PICK id : id = writer[s].id
  OBVIOUS
<1>3. b = writer[s].q[1] /\ id = writer[s].id
  BY <1>b, <1>i
<1>4. rows' = {IF c.id = id THEN [c EXCEPT !.label = b] ELSE c : c \in rows}
  BY <1>2, <1>3 DEF InsertChips, W
<1> DEFINE new(c) == IF c.id = id THEN [c EXCEPT !.label = b] ELSE c
<1>5. rows \subseteq ChunkRow /\ IsFiniteSet(rows)
  BY DEF Types, DbTypes
<1>6. ASSUME NEW c \in rows
      PROVE  /\ new(c) \in ChunkRow /\ SameButLabel(c, new(c))
             /\ new(c).label = IF c.id = id THEN b ELSE c.label
  <2>1. c \in ChunkRow
    BY <1>5
  <2>2. QED BY <2>1 DEF ChunkRow, SameButLabel
<1>7. rows' = {new(c) : c \in rows}
  BY <1>4
<1> DEFINE f == [c \in rows |-> new(c)]
<1>8. IsFiniteSet(rows')
  <2>1. f \in Surjection(rows, rows')
    <3> HIDE DEF new
    <3>1. QED BY <1>7 DEF Surjection
  <2> HIDE DEF f
  <2>2. QED BY <1>5, <2>1, FS_Surjection
<1> HIDE DEF new
<1>9. rows' \subseteq ChunkRow
  BY <1>6, <1>7
<1>10. \A d \in rows' : \E c \in rows :
         SameButLabel(c, d) /\ d.label = IF c.id = id THEN b ELSE c.label
  BY <1>6, <1>7
<1>11. \A c \in rows : \E d \in rows' :
         SameButLabel(c, d) /\ d.label = IF c.id = id THEN b ELSE c.label
  BY <1>6, <1>7
<1>12. QED BY <1>3, <1>8, <1>9, <1>10, <1>11 DEF Relabeled

\* An insert adds one row, of the writer's pane and path.
LEMMA InsertFacts ==
  ASSUME Types, QueuesOK, NEW s \in 1..MaxSessions, InsertRow(s)
  PROVE  \E c : Inserted(s, c)
<1>1. writer[s].q # <<>> /\ writer[s].q[1] # 0
  BY DEF InsertRow, W, QueuesOK, QueueOK
<1>2. Head(writer[s].q) = writer[s].q[1] /\ LinesOf[writer[s].q[1]] \in Nat
  BY <1>1, HeadFacts
<1>3. PICK l, start : l = LinesOf[writer[s].q[1]] /\ start = writer[s].cursor
  OBVIOUS
<1>4. PICK c : c = NewRow(s)
  OBVIOUS
<1>5. rows' = rows \cup {c} /\ durable' = durable \cup {writer[s].q[1]}
  BY <1>2, <1>4 DEF InsertRow, NewRow, W
<1>6. NextRowId \in Nat /\ \A d \in rows : d.id \in Nat /\ d.id < NextRowId
  BY NextRowIdFresh
<1>7. start \in Nat /\ l \in Nat /\ start + l \in Nat /\ start <= start + l
  <2>1. writer[s].cursor \in Nat
    BY WriterRecord
  <2>2. start \in Nat /\ l \in Nat
    BY <1>2, <1>3, <2>1
  <2>3. QED BY <2>2
<1>8. /\ c.id = NextRowId /\ c.session = s /\ c.pane = writer[s].row /\ c.seq = writer[s].seq
      /\ c.start = start /\ c.stop = start + l /\ c.label = 0
  BY <1>3, <1>4 DEF NewRow
<1>9. s \in Nat /\ writer[s].row \in Nat /\ writer[s].seq \in Nat
  <2>1. s \in Nat
    OBVIOUS
  <2>2. writer[s].row \in Nat /\ writer[s].seq \in Nat
    BY WriterRecord
  <2>3. QED BY <2>1, <2>2
<1>10. c \in ChunkRow
  <2>1. c = [id |-> NextRowId, session |-> s, pane |-> writer[s].row, seq |-> writer[s].seq,
             start |-> start, stop |-> start + l, label |-> 0]
    BY <1>3, <1>4 DEF NewRow
  <2>2. QED BY <2>1, <1>6, <1>7, <1>9 DEF ChunkRow
<1>11. \A d \in rows : d.id < c.id /\ d.id # c.id
  BY <1>6, <1>8
<1>12. Inserted(s, c)
  BY <1>1, <1>3, <1>5, <1>7, <1>8, <1>10, <1>11 DEF Inserted
<1>13. QED BY <1>12

\* The table stays well formed with that row.
LEMMA DbGrows ==
  ASSUME Types, QueuesOK, NEW s \in 1..MaxSessions, Alive(s), Own, NEW c, Inserted(s, c),
         UNCHANGED <<sessions, panes, layout>>
  PROVE  DbTypes'
<1>1. s \in Sessions /\ writer[s].row = sessions[s]
  BY AliveFacts DEF QueuesOK, QueueOK
<1>2. DbTypes
  BY DEF Types
<1>3. rows' = rows \cup {c} /\ c \in ChunkRow /\ c.session = s /\ c.pane = sessions[s]
      /\ \A d \in rows : d.id # c.id
  BY <1>1 DEF Inserted
<1>4. IsFiniteSet(rows') /\ rows' \subseteq ChunkRow
  BY <1>2, <1>3, FS_AddElement DEF DbTypes
<1>5. \A d, e \in rows' : d.id = e.id => d = e
  BY <1>2, <1>3 DEF DbTypes
<1>6. \A d \in rows' : d.session \in Sessions /\ d.pane = sessions[d.session]
  BY <1>1, <1>2, <1>3 DEF DbTypes
<1>7. QED BY <1>2, <1>4, <1>5, <1>6 DEF DbTypes, Sessions

\* It does with a label changed.
LEMMA DbRelabels ==
  ASSUME Types, NEW id, NEW b, Relabeled(id, b), UNCHANGED <<sessions, panes, layout>>
  PROVE  DbTypes'
<1>1. DbTypes
  BY DEF Types
<1>2. rows' \subseteq ChunkRow /\ IsFiniteSet(rows')
  BY DEF Relabeled
<1>3. ASSUME NEW d \in rows', NEW e \in rows', d.id = e.id PROVE d = e
  <2>1. PICK c \in rows : SameButLabel(c, d) /\ d.label = IF c.id = id THEN b ELSE c.label
    BY DEF Relabeled
  <2>2. PICK f \in rows : SameButLabel(f, e) /\ e.label = IF f.id = id THEN b ELSE f.label
    BY DEF Relabeled
  <2>3. c = f
    BY <1>1, <1>3, <2>1, <2>2 DEF SameButLabel, DbTypes
  <2>4. /\ d.id = e.id /\ d.session = e.session /\ d.pane = e.pane /\ d.seq = e.seq
        /\ d.start = e.start /\ d.stop = e.stop /\ d.label = e.label
    BY <2>1, <2>2, <2>3 DEF SameButLabel
  <2>5. d \in ChunkRow /\ e \in ChunkRow
    BY <1>2
  <2>6. QED BY <2>4, <2>5 DEF ChunkRow
<1>4. \A d \in rows' : d.session \in Sessions /\ d.pane = sessions[d.session]
  BY <1>1 DEF Relabeled, SameButLabel, DbTypes
<1>5. QED BY <1>1, <1>2, <1>3, <1>4 DEF DbTypes, Sessions

\* It does with rows gone.
LEMMA DbShrinks ==
  ASSUME DbTypes, rows' \subseteq rows, UNCHANGED <<sessions, panes>>,
         layout' \in Seq(Nat)
  PROVE  DbTypes'
<1>1. IsFiniteSet(rows')
  BY FS_Subset DEF DbTypes
<1>2. QED BY <1>1 DEF DbTypes, Sessions

\* It does after any step of a writer.
LEMMA DbWriter ==
  ASSUME Types, Own, QueuesOK, NEW s \in 1..MaxSessions, Alive(s), WriterStep(s)
  PROVE  DbTypes'
<1>1. UNCHANGED <<sessions, panes, layout>>
  BY WriterQuiet DEF Quiet
<1>2. CASE InsertRow(s)
  BY <1>1, <1>2, InsertFacts, DbGrows
<1>3. CASE InsertChips(s)
  BY <1>1, <1>3, ChipFacts, DbRelabels
<1>4. CASE rows' \subseteq rows
  BY <1>1, <1>4, DbShrinks DEF Types, DbTypes
<1>5. CASE DeleteForClear(s)
  <2>1. rows' \subseteq rows
    BY <1>5, WriterDeletes
  <2>2. QED BY <2>1, <1>4
<1>6. CASE WriteTemp(s) \/ Rename(s) \/ WriteFails(s) \/ ListForClear(s)
  BY <1>4, <1>6 DEF WriteTemp, Rename, WriteFails, ListForClear, dbVars
<1>7. CASE UnlinkForClear(s)
  BY <1>4, <1>7 DEF UnlinkForClear, dbVars
<1>8. QED BY <1>2, <1>3, <1>5, <1>6, <1>7 DEF WriterStep

\* A collector only takes rows and files away.
LEMMA CollectorTakes ==
  ASSUME NEW p \in Procs, GcStep(p)
  PROVE  /\ rows' \subseteq rows
         /\ files' = files \/ DeleteFile(p)
         /\ collected' = collected \/ DeleteFile(p)
         /\ rows' = rows \/ DeleteRow(p)
<1>1. CASE ListChunks(p) \/ EndProbe(p) \/ SweepTemps(p)
  BY <1>1 DEF ListChunks, EndProbe, SweepTemps, dbVars, diskVars, ghostVars
<1>2. CASE ChooseDoomed(p)
  <2>1. UNCHANGED <<dbVars, diskVars, ghostVars>>
    BY <1>2 DEF ChooseDoomed
  <2>2. QED BY <2>1 DEF dbVars, diskVars, ghostVars
<1>3. CASE DeleteFile(p)
  BY <1>3 DEF DeleteFile, dbVars
<1>4. CASE DeleteRow(p)
  BY <1>4 DEF DeleteRow, diskVars, ghostVars
<1>5. CASE \E r \in Unprobed(p) : ProbeFree(p, r) \/ ProbeLive(p, r)
  <2>1. PICK r \in Unprobed(p) : ProbeFree(p, r) \/ ProbeLive(p, r)
    BY <1>5
  <2>2. UNCHANGED <<dbVars, diskVars, ghostVars>>
    BY <2>1 DEF ProbeFree, ProbeLive
  <2>3. QED BY <2>2 DEF dbVars, diskVars, ghostVars
<1>6. QED BY <1>1, <1>2, <1>3, <1>4, <1>5 DEF GcStep

\* Every step keeps the tables well formed.
LEMMA DbNext ==
  ASSUME Types, Own, QueuesOK, [Next]_vars
  PROVE  DbTypes'
<1>0. DbTypes /\ layout \in Seq(Nat)
  BY DEF Types, DbTypes
<1>1. ASSUME UNCHANGED <<sessions, panes, rows>>, layout' \in Seq(Nat) PROVE DbTypes'
  BY <1>0, <1>1, DbShrinks
<1>2. CASE UNCHANGED vars
  BY <1>0, <1>1, <1>2 DEF vars, dbVars
<1>3. ASSUME NEW p \in Procs, Begins(p) PROVE DbTypes'
  <2>1. PICK at, r : /\ BeginRows(p, at, r) /\ BeginsFor(p, at, r)
                     /\ UNCHANGED <<rows, layout>>
    BY <1>3 DEF Begins
  <2>2. Begun(p, at, r)
    BY <2>1, BeginFacts
  <2>3. \A s \in Sessions : s \in Sessions' /\ sessions'[s] = sessions[s]
    BY <2>2, BegunSessions
  <2>4. \A s \in Sessions' : sessions'[s] \in 1..panes'
    <3>1. Len(sessions') = Len(sessions) + 1 /\ Len(sessions) \in Nat /\ panes \in Nat
          /\ panes' \in Nat /\ panes <= panes'
      BY <1>0, <2>2 DEF Begun, DbTypes
    <3>2. Sessions' = Sessions \cup {Len(sessions) + 1}
      BY <3>1 DEF Sessions
    <3>3. \A s \in Sessions : sessions'[s] \in 1..panes'
      BY <1>0, <2>3, <3>1 DEF DbTypes
    <3>4. sessions'[Len(sessions) + 1] \in 1..panes'
      BY <2>2 DEF Begun
    <3>5. QED BY <3>2, <3>3, <3>4
  <2>5. /\ sessions' \in Seq(Nat) /\ Len(sessions') <= MaxSessions /\ panes' \in Nat
    BY <2>2 DEF Begun
  <2>6. \A c \in rows : c.session \in Sessions' /\ c.pane = sessions'[c.session]
    BY <1>0, <2>3 DEF DbTypes
  <2>7. QED BY <1>0, <2>1, <2>4, <2>5, <2>6 DEF DbTypes
<1>4. ASSUME NEW p \in Procs, UserStep(p) PROVE DbTypes'
  <2>1. CASE LaunchFresh(p) \/ NewTab(p) \/ \E i \in 1..Len(tabs[p]) : RestartPane(p, i)
    BY <2>1, <1>3, BeginsWhen
  <2>2. CASE LaunchRestored(p) \/ BeginQuit(p)
    BY <2>2, <1>0, <1>1 DEF LaunchRestored, BeginQuit, dbVars
  <2>3. CASE SaveLayout(p)
    BY <2>3, <1>1, SavedFacts DEF SaveLayout
  <2>4. CASE \E i \in 1..Len(tabs[p]) : SealBlock(p, i) \/ ClearScrollback(p, i) \/ CloseTab(p, i)
    BY <2>4, <1>0, <1>1 DEF SealBlock, ClearScrollback, CloseTab, dbVars
  <2>5. QED BY <1>4, <2>1, <2>2, <2>3, <2>4 DEF UserStep
<1>5. ASSUME NEW p \in Procs, TakeLock(p) \/ EndClose(p) \/ Crash(p) PROVE DbTypes'
  BY <1>0, <1>1, <1>5 DEF TakeLock, EndClose, Crash, dbVars
<1>6. ASSUME NEW p \in Procs, EndQuit(p) PROVE DbTypes'
  BY <1>1, <1>6, SavedFacts DEF EndQuit
<1>7. ASSUME NEW p \in Procs, GcStep(p) PROVE DbTypes'
  BY <1>0, <1>7, CollectorTakes, CollectorAlive, DbShrinks
<1>8. ASSUME NEW s \in 1..Len(sessions), held[s] \in Procs, WriterStep(s) PROVE DbTypes'
  <2>1. s \in 1..MaxSessions /\ Alive(s)
    BY <1>8, StoreAssumption DEF Types, DbTypes, Alive
  <2>2. QED BY <1>8, <2>1, DbWriter
<1>9. QED BY <1>2, <1>4, <1>5, <1>6, <1>7, <1>8 DEF Next, UiEnds

-----------------------------------------------------------------------------
\* The threads keep their types

\* The latest session of a row, when it has one.
LEMMA LatestFacts ==
  ASSUME DbTypes, NEW r, NEW x \in SessionsOf(r)
  PROVE  Latest(r) \in SessionsOf(r) /\ \A s \in SessionsOf(r) : s <= Latest(r)
<1>1. SessionsOf(r) \in SUBSET Nat /\ Len(sessions) \in Nat
      /\ \A s \in SessionsOf(r) : s <= Len(sessions)
  BY DEF SessionsOf, Sessions, DbTypes
<1>2. Latest(r) = MaxOf(SessionsOf(r))
  BY DEF Latest, SessionsOf, Sessions
<1>3. QED BY <1>1, <1>2, MaxOfBounded

\* A collector that is off or starts is well formed.
LEMMA NoGcType ==
  MaxSessions \in Nat => IsGc(NoGc) /\ IsGc([NoGc EXCEPT !.pc = "list"])
<1>1. IsFiniteSet({})
  BY FS_EmptySet
<1>2. <<>> \in Seq(ChunkRow) /\ DOMAIN <<>> = {} /\ <<>> = [r \in DOMAIN <<>> |-> <<>>[r]]
  OBVIOUS
<1>3. SUFFICES ASSUME MaxSessions \in Nat, NEW g,
                      NEW pc \in {"off", "list"},
                      g = [pc |-> pc, rows |-> {}, latest |-> <<>>, dead |-> {}, probing |-> 0,
                           todo |-> <<>>]
               PROVE  IsGc(g)
  BY DEF NoGc
<1>4. /\ g.pc = pc /\ g.rows = {} /\ g.latest = <<>> /\ g.dead = {} /\ g.probing = 0
      /\ g.todo = <<>>
  BY <1>3
<1>5. g = [pc |-> g.pc, rows |-> g.rows, latest |-> g.latest, dead |-> g.dead,
           probing |-> g.probing, todo |-> g.todo]
  BY <1>3, <1>4
<1>6. QED BY <1>1, <1>2, <1>3, <1>4, <1>5 DEF IsGc

\* A writer's step is its own.
WriterSteps(s) ==
  /\ writer' \in [1..MaxSessions -> WriterType]
  /\ \A t \in 1..MaxSessions : t # s => writer'[t] = writer[t]
  /\ writer'[s].row = writer[s].row

\* Every step of a writer makes it a writer.
LEMMA WriterTypes ==
  ASSUME Types, QueuesOK, NEW s \in 1..MaxSessions, WriterStep(s)
  PROVE  WriterSteps(s)
<1>0. QueueOK(s) /\ writer \in [1..MaxSessions -> WriterType]
  BY DEF QueuesOK, Types, ProcTypes
<1>1. ASSUME NEW q, NEW pc, NEW seq, NEW cursor, NEW id, NEW todo,
             WriterBecomes(s, q, pc, seq, cursor, id, todo)
      PROVE  WriterSteps(s)
  BY <1>1 DEF WriterBecomes, WriterSteps
<1>2. CASE WriteTemp(s)
  BY <1>1, <1>2, WriterTemp
<1>3. ASSUME SealFails(s), writer[s].q # <<>> PROVE WriterSteps(s)
  BY <1>1, <1>3, WriterSealFails
<1>4. CASE Rename(s)
  <2>1. writer[s].pc = "temp" /\ writer[s].q # <<>>
    BY <1>4, <1>0 DEF Rename, W, QueueOK
  <2>2. CASE writer' = [writer EXCEPT ![s].pc = "renamed"]
    BY <2>2, <1>1, WriterRenamed
  <2>3. QED BY <1>3, <1>4, <2>1, <2>2 DEF Rename
<1>5. CASE InsertRow(s)
  BY <1>1, <1>5, WriterInserts
<1>6. CASE InsertChips(s)
  BY <1>1, <1>6, WriterChips
<1>7. CASE WriteFails(s)
  <2>1. writer[s].q # <<>> /\ SealFails(s)
    BY <1>7, <1>0 DEF WriteFails, W, QueueOK
  <2>2. QED BY <1>3, <2>1
<1>8. CASE ListForClear(s)
  BY <1>1, <1>8, WriterLists
<1>9. CASE UnlinkForClear(s)
  <2>1. CASE writer' = writer
    BY <2>1, <1>0 DEF WriterSteps
  <2>2. CASE writer' = [writer EXCEPT ![s].pc = "purge"]
    BY <2>2, <1>1, WriterPurges
  <2>3. QED BY <1>9, <2>1, <2>2 DEF UnlinkForClear
<1>10. CASE DeleteForClear(s)
  BY <1>1, <1>10, WriterDeletes
<1>11. QED
  BY <1>2, <1>4, <1>5, <1>6, <1>7, <1>8, <1>9, <1>10 DEF WriterStep

\* The collector's record after each kind of step.
LEMMA GcTypes ==
  ASSUME Types, NEW p \in Procs, GcStep(p)
  PROVE  gc' = [q \in Procs |-> gc'[q]] /\ \A q \in Procs : IsGc(gc'[q])
<1>0. /\ gc = [q \in Procs |-> gc[q]] /\ \A q \in Procs : IsGc(gc[q])
      /\ rows \subseteq ChunkRow /\ IsFiniteSet(rows) /\ MaxSessions \in Nat
  BY StoreAssumption DEF Types, DbTypes, ProcTypes
<1>1. gc' = [q \in Procs |-> gc'[q]]
  <2>1. CASE ListChunks(p)
    <3>1. PICK latest : gc' = [gc EXCEPT ![p].pc = "probe", ![p].rows = rows,
                                        ![p].latest = latest]
      BY <2>1 DEF ListChunks
    <3>2. QED BY <1>0, <3>1
  <2>2. CASE EndProbe(p)
    BY <1>0, <2>2 DEF EndProbe
  <2>3. CASE ChooseDoomed(p)
    <3>1. PICK todo : gc' = [gc EXCEPT ![p].pc = "apply", ![p].todo = todo]
      BY <2>3 DEF ChooseDoomed
    <3>2. QED BY <1>0, <3>1
  <2>4. CASE DeleteFile(p)
    BY <1>0, <2>4 DEF DeleteFile
  <2>5. CASE DeleteRow(p)
    BY <1>0, <2>5 DEF DeleteRow
  <2>6. CASE SweepTemps(p)
    BY <1>0, <2>6 DEF SweepTemps
  <2>7. ASSUME NEW r \in Unprobed(p), ProbeFree(p, r)
        PROVE  gc' = [q \in Procs |-> gc'[q]]
    BY <1>0, <2>7 DEF ProbeFree
  <2>8. ASSUME NEW r \in Unprobed(p), ProbeLive(p, r)
        PROVE  gc' = [q \in Procs |-> gc'[q]]
    BY <1>0, <2>8 DEF ProbeLive
  <2>9. QED BY <2>1, <2>2, <2>3, <2>4, <2>5, <2>6, <2>7, <2>8 DEF GcStep
<1>s. SUFFICES IsGc(gc'[p])
  BY <1>0, <1>1, GcOthers
<1>2. PICK g : g = gc[p]
  OBVIOUS
<1>3. IsGc(g)
  BY <1>0, <1>2
<1>f. /\ g.pc \in {"off", "list", "probe", "apply"} /\ g.rows \in SUBSET ChunkRow
      /\ IsFiniteSet(g.rows) /\ g.todo \in Seq(ChunkRow) /\ g.dead \in SUBSET Nat
      /\ g.probing \in 0..MaxSessions /\ DOMAIN g.latest \subseteq Nat
      /\ g.latest = [r \in DOMAIN g.latest |-> g.latest[r]]
      /\ \A r \in DOMAIN g.latest : g.latest[r] \in 1..MaxSessions
      /\ 0 \in 0..MaxSessions
  BY <1>0, <1>3 DEF IsGc
<1>4. ASSUME NEW pc \in {"off", "list", "probe", "apply"}, NEW seen \in SUBSET ChunkRow,
             NEW latest, NEW dead \in SUBSET Nat, NEW probing \in 0..MaxSessions,
             NEW todo \in Seq(ChunkRow), IsFiniteSet(seen), DOMAIN latest \subseteq Nat,
             latest = [r \in DOMAIN latest |-> latest[r]],
             \A r \in DOMAIN latest : latest[r] \in 1..MaxSessions,
             GcBecomes(p, pc, seen, latest, dead, probing, todo)
      PROVE  IsGc(gc'[p])
  BY <1>4 DEF GcBecomes, IsGc
<1>5. ASSUME NEW r
      PROVE  /\ DOMAIN Forget(g.latest, r) \subseteq Nat
             /\ Forget(g.latest, r) = [x \in DOMAIN Forget(g.latest, r) |-> Forget(g.latest, r)[x]]
             /\ \A x \in DOMAIN Forget(g.latest, r) : Forget(g.latest, r)[x] \in 1..MaxSessions
  BY <1>3 DEF Forget, IsGc
<1>6. CASE ListChunks(p)
  <2>1. GcBecomes(p, "probe", rows, LatestOfSeen, g.dead, g.probing, g.todo)
    BY <1>2, <1>6, GcLists
  <2>2. DOMAIN LatestOfSeen \subseteq Nat
    BY <1>0 DEF LatestOfSeen, ChunkRow
  <2>3. LatestOfSeen = [r \in DOMAIN LatestOfSeen |-> LatestOfSeen[r]]
    BY DEF LatestOfSeen
  <2>4. ASSUME NEW r \in DOMAIN LatestOfSeen PROVE LatestOfSeen[r] \in 1..MaxSessions
    <3>1. PICK c \in rows : c.pane = r
      BY <2>4 DEF LatestOfSeen
    <3>2. LatestOfSeen[r] = Latest(r)
      BY <2>4 DEF LatestOfSeen
    <3>3. c.session \in Sessions /\ sessions[c.session] = r
      BY <3>1 DEF Types, DbTypes
    <3>6. c.session \in SessionsOf(r)
      BY <3>3 DEF SessionsOf
    <3>4. Latest(r) \in SessionsOf(r)
      BY <3>6, LatestFacts DEF Types
    <3>5. QED BY <1>0, <3>2, <3>4 DEF SessionsOf, Sessions, Types, DbTypes
  <2>5. QED BY <1>0, <1>f, <1>4, <2>1, <2>2, <2>3, <2>4
<1>7. CASE EndProbe(p)
  <2>1. GcBecomes(p, g.pc, g.rows, g.latest, g.dead, 0, g.todo)
    BY <1>2, <1>7, GcEndsProbe
  <2>2. QED BY <1>f, <1>4, <2>1
<1>8. CASE ChooseDoomed(p)
  <2>1. PICK todo : Chosen(p, todo)
    BY <1>8, ChooseFacts
  <2>2. GcBecomes(p, "apply", g.rows, g.latest, g.dead, g.probing, todo)
        /\ todo \in Seq(ChunkRow)
    BY <1>2, <2>1 DEF Chosen
  <2>3. QED BY <1>f, <1>4, <2>2
<1>9. CASE DeleteFile(p)
  BY <1>0, <1>9 DEF DeleteFile
<1>10. CASE DeleteRow(p)
  <2>1. GcBecomes(p, g.pc, g.rows, g.latest, g.dead, g.probing, Tail(g.todo))
    BY <1>2, <1>10, GcDeletesRow
  <2>2. g.todo # <<>> /\ g.todo \in Seq(ChunkRow)
    BY <1>2, <1>3, <1>10 DEF DeleteRow, IsGc
  <2>3. PICK t : t = g.todo
    OBVIOUS
  <2>4. Tail(t) \in Seq(ChunkRow)
    BY <2>2, <2>3
  <2>5. Tail(g.todo) \in Seq(ChunkRow)
    BY <2>3, <2>4
  <2>6. QED BY <1>f, <1>4, <2>1, <2>5
<1>11. CASE SweepTemps(p)
  <2>1. gc'[p] = NoGc
    BY <1>11, GcSweeps
  <2>2. QED BY <1>0, <2>1, NoGcType
<1>12. ASSUME NEW r \in Unprobed(p), ProbeFree(p, r) PROVE IsGc(gc'[p])
  <2>1. GcBecomes(p, g.pc, g.rows, Forget(g.latest, r), g.dead \cup {r}, g.latest[r], g.todo)
    BY <1>2, <1>12, GcProbes
  <2>2. r \in DOMAIN g.latest
    BY <1>2 DEF Unprobed
  <2>3. g.latest[r] \in 1..MaxSessions /\ r \in Nat
    BY <1>3, <2>2 DEF IsGc
  <2>4. g.latest[r] \in 0..MaxSessions
    BY <1>0, <2>3
  <2>5. g.dead \cup {r} \in SUBSET Nat
    BY <1>3, <2>3 DEF IsGc
  <2>6. g.pc \in {"off", "list", "probe", "apply"} /\ g.rows \in SUBSET ChunkRow
        /\ IsFiniteSet(g.rows) /\ g.todo \in Seq(ChunkRow)
    BY <1>3 DEF IsGc
  <2>7. QED BY <1>4, <1>5, <2>1, <2>4, <2>5, <2>6
<1>13. ASSUME NEW r \in Unprobed(p), ProbeLive(p, r) PROVE IsGc(gc'[p])
  <2>1. GcBecomes(p, g.pc, g.rows, Forget(g.latest, r), g.dead, g.probing, g.todo)
    BY <1>2, <1>13, GcFindsLive
  <2>2. g.pc \in {"off", "list", "probe", "apply"} /\ g.rows \in SUBSET ChunkRow
        /\ IsFiniteSet(g.rows) /\ g.todo \in Seq(ChunkRow) /\ g.dead \in SUBSET Nat
        /\ g.probing \in 0..MaxSessions
    BY <1>3 DEF IsGc
  <2>3. QED BY <1>4, <1>5, <2>1, <2>2
<1>14. QED
  BY <1>6, <1>7, <1>8, <1>9, <1>10, <1>11, <1>12, <1>13 DEF GcStep

\* A writer's step keeps the processes well formed.
LEMMA ProcWriter ==
  ASSUME Types, QueuesOK, NEW s \in 1..MaxSessions, WriterStep(s)
  PROVE  ProcTypes'
<1>1. UNCHANGED <<held, ui, tabs, gc>>
  BY WriterQuiet DEF Quiet
<1>2. writer' \in [1..MaxSessions -> WriterType]
  BY WriterTypes DEF WriterSteps
<1>3. QED BY <1>1, <1>2 DEF Types, ProcTypes, IsGc

\* A collector's does.
LEMMA ProcCollector ==
  ASSUME Types, Own, NEW p \in Procs, GcStep(p)
  PROVE  ProcTypes'
<1>1. UNCHANGED <<writer, ui, tabs>>
  BY CollectorAlive
<1>2. gc' = [q \in Procs |-> gc'[q]] /\ \A q \in Procs : IsGc(gc'[q])
  BY GcTypes
<1>3. held \in [1..MaxSessions -> Procs \cup {"free", "probe"}]
  BY DEF Types, ProcTypes
<1>4. held' \in [1..MaxSessions -> Procs \cup {"free", "probe"}]
  <2>1. CASE ListChunks(p) \/ DeleteFile(p) \/ DeleteRow(p) \/ SweepTemps(p)
    BY <1>3, <2>1 DEF ListChunks, DeleteFile, DeleteRow, SweepTemps
  <2>2. CASE ChooseDoomed(p)
    <3>1. held' = held
      BY <2>2 DEF ChooseDoomed
    <3>2. QED BY <1>3, <3>1
  <2>3. CASE EndProbe(p)
    BY <1>3, <2>3 DEF EndProbe
  <2>4. ASSUME NEW r \in Unprobed(p), ProbeFree(p, r)
        PROVE  held' \in [1..MaxSessions -> Procs \cup {"free", "probe"}]
    BY <1>3, <2>4 DEF ProbeFree
  <2>5. ASSUME NEW r \in Unprobed(p), ProbeLive(p, r)
        PROVE  held' \in [1..MaxSessions -> Procs \cup {"free", "probe"}]
    BY <1>3, <2>5 DEF ProbeLive
  <2>6. QED BY <2>1, <2>2, <2>3, <2>4, <2>5 DEF GcStep
<1>5. QED BY <1>1, <1>2, <1>4 DEF Types, ProcTypes

\* Where a pane's blocks end.
LEMMA EndFacts ==
  ASSUME DbTypes, NEW r
  PROVE  MaxEndLine(r) \in Nat /\ \A c \in PaneRows(r) : c.stop <= MaxEndLine(r)
<1>1. PaneRows(r) \subseteq rows /\ IsFiniteSet(PaneRows(r))
  <2>1. PaneRows(r) \subseteq rows
    BY DEF PaneRows
  <2>2. QED BY <2>1, FS_Subset DEF DbTypes
<1>2. {c.stop : c \in PaneRows(r)} \in SUBSET Nat
  BY <1>1 DEF DbTypes, ChunkRow
<1>3. IsFiniteSet({c.stop : c \in PaneRows(r)})
  <2> DEFINE f == [c \in PaneRows(r) |-> c.stop]
  <2>1. f \in Surjection(PaneRows(r), {c.stop : c \in PaneRows(r)})
    BY DEF Surjection
  <2>2. QED BY <1>1, <2>1, FS_Surjection
<1>4. /\ MaxOf({c.stop : c \in PaneRows(r)}) \in Nat
      /\ \A k \in {c.stop : c \in PaneRows(r)} : k <= MaxOf({c.stop : c \in PaneRows(r)})
  BY <1>2, <1>3, MaxOfFinite
<1>5. QED BY <1>4 DEF MaxEndLine

\* A session that begins does.
LEMMA ProcBegins ==
  ASSUME Types, Own, NEW p \in Procs, Begins(p)
  PROVE  ProcTypes'
<1>1. PICK at, r : /\ BeginRows(p, at, r) /\ BeginsFor(p, at, r)
                   /\ UNCHANGED <<held, writer, tabs>> /\ GcLaunched(p)
  BY DEF Begins
<1>2. Begun(p, at, r)
  BY <1>1, BeginFacts
<1>3. PICK u : u = [op |-> "start", at |-> at, row |-> BegunRow(r), session |-> Len(sessions) + 1,
                    start |-> IF r = 0 THEN 0 ELSE MaxEndLine(r)]
  OBVIOUS
<1>4. u \in UiType
  <2>1. at \in Nat
    BY <1>1 DEF BeginsFor, Types, ProcTypes
  <2>2. BegunRow(r) \in Nat /\ Len(sessions) + 1 \in Nat
    BY <1>2 DEF Begun, Types, DbTypes
  <2>3. (IF r = 0 THEN 0 ELSE MaxEndLine(r)) \in Nat
    BY EndFacts DEF Types
  <2>4. QED BY <1>3, <2>1, <2>2, <2>3 DEF UiType
<1>5. ui' = [ui EXCEPT ![p] = u]
  BY <1>1, <1>3 DEF BeginRows, BegunRow
<1>6. ui' \in [Procs -> UiType]
  BY <1>4, <1>5 DEF Types, ProcTypes
<1>7. \A q \in Procs : IsGc(gc'[q])
  <2>1. MaxSessions \in Nat /\ \A q \in Procs : IsGc(gc[q])
    BY StoreAssumption DEF Types, ProcTypes
  <2>2. QED BY <1>1, <2>1, NoGcType DEF GcLaunched
<1>8. gc' = [q \in Procs |-> gc'[q]]
  BY <1>1 DEF GcLaunched
<1>9. QED BY <1>1, <1>6, <1>7, <1>8 DEF Types, ProcTypes

\* A restoring launch has a dead tab for each pane of the layout.
LEMMA LaunchedTabs ==
  ASSUME Types, Own, NEW p \in Procs, LaunchRestored(p)
  PROVE  /\ tabs' \in [Procs -> Seq(TabType)]
         /\ \A q \in Procs : q # p => tabs'[q] = tabs[q]
         /\ DOMAIN tabs'[p] = DOMAIN layout /\ Len(tabs'[p]) = Len(layout)
         /\ \A i \in DOMAIN layout :
              /\ tabs'[p][i].row = layout[i] /\ tabs'[p][i].session = 0
              /\ tabs'[p][i].live = FALSE /\ tabs'[p][i].mem = RestoredBlocks(layout[i])
<1>1. layout \in Seq(Nat) /\ tabs \in [Procs -> Seq(TabType)]
  BY DEF Types, DbTypes, ProcTypes
<1>2. \A r : RestoredBlocks(r) \in Seq(Nat)
  BY RestoreType DEF Types, RestoreOf
<1> DEFINE t == [i \in 1..Len(layout) |->
                [row |-> layout[i], session |-> 0, live |-> FALSE,
                 mem |-> RestoredBlocks(layout[i])]]
<1>3. \A i \in 1..Len(layout) : t[i] \in TabType
  BY <1>1, <1>2 DEF TabType
<1>4. tabs' = [tabs EXCEPT ![p] = t]
  BY DEF LaunchRestored
<1>5. \A i \in 1..Len(layout) : /\ t[i].row = layout[i] /\ t[i].session = 0
                                /\ t[i].live = FALSE /\ t[i].mem = RestoredBlocks(layout[i])
  OBVIOUS
<1>6. t \in [1..Len(layout) -> TabType]
  BY <1>3
<1> HIDE DEF t
<1>7. t \in Seq(TabType) /\ Len(t) = Len(layout) /\ DOMAIN t = DOMAIN layout
      /\ DOMAIN layout = 1..Len(layout)
  BY <1>1, <1>6
<1>8. QED BY <1>1, <1>4, <1>5, <1>7

\* A user's step keeps the processes well formed.
LEMMA ProcUser ==
  ASSUME Types, Own, QueuesOK, NEW p \in Procs, UserStep(p)
  PROVE  ProcTypes'
<1>0. /\ ui \in [Procs -> UiType] /\ tabs \in [Procs -> Seq(TabType)]
      /\ gc = [q \in Procs |-> gc[q]] /\ \A q \in Procs : IsGc(gc[q])
      /\ writer \in [1..MaxSessions -> WriterType]
      /\ held \in [1..MaxSessions -> Procs \cup {"free", "probe"}]
      /\ MaxSessions \in Nat
  BY StoreAssumption DEF Types, ProcTypes
<1>1. CASE LaunchRestored(p)
  <2>1. UNCHANGED <<held, writer, ui>> /\ GcLaunched(p)
    BY <1>1, GcLaunchedWhen DEF LaunchRestored
  <2>2. tabs' \in [Procs -> Seq(TabType)]
    BY <1>1, LaunchedTabs
  <2>3. \A q \in Procs : IsGc(gc'[q])
    BY <1>0, <2>1, NoGcType DEF GcLaunched
  <2>4. QED BY <1>0, <2>1, <2>2, <2>3 DEF ProcTypes, GcLaunched
<1>2. CASE LaunchFresh(p) \/ NewTab(p) \/ \E i \in 1..Len(tabs[p]) : RestartPane(p, i)
  BY <1>2, BeginsWhen, ProcBegins
<1>3. CASE SaveLayout(p)
  BY <1>0, <1>3 DEF SaveLayout, ProcTypes
<1>4. CASE BeginQuit(p)
  <2>1. [NoOp EXCEPT !.op = "quit"] \in UiType
    BY DEF NoOp, UiType
  <2>2. ui' \in [Procs -> UiType]
    BY <1>0, <1>4, <2>1 DEF BeginQuit
  <2>3. QED BY <1>0, <1>4, <2>2 DEF BeginQuit, ProcTypes
<1>5. ASSUME NEW i \in 1..Len(tabs[p]), SealBlock(p, i) PROVE ProcTypes'
  <2>4. tabs' \in [Procs -> Seq(TabType)]
    BY <1>5, SealKeepsTabs
  <2>1. tabs' \in [Procs -> Seq(TabType)] /\ UNCHANGED <<held, ui, gc>>
    BY <1>5, <2>4 DEF SealBlock
  <2>2. writer' \in [1..MaxSessions -> WriterType]
    BY <1>0, <1>5, SealFacts DEF Sealed, Queued, WriterBecomes
  <2>3. QED BY <1>0, <2>1, <2>2 DEF ProcTypes
<1>6. ASSUME NEW i \in 1..Len(tabs[p]), Discard(p, i)
      PROVE  writer' \in [1..MaxSessions -> WriterType]
  <2>1. writer' = writer \/ Queued(tabs[p][i].session, 0)
    BY <1>6, DiscardFacts
  <2>2. ASSUME NEW s, Queued(s, 0) PROVE writer' \in [1..MaxSessions -> WriterType]
    BY <2>2 DEF Queued, WriterBecomes
  <2>3. QED BY <1>0, <2>1, <2>2
<1>7. ASSUME NEW i \in 1..Len(tabs[p]), ClearScrollback(p, i) PROVE ProcTypes'
  <2>1. tabs' \in [Procs -> Seq(TabType)] /\ UNCHANGED <<held, ui, gc>> /\ Discard(p, i)
    BY <1>7, ClearKeepsTabs DEF ClearScrollback
  <2>2. QED BY <1>0, <1>6, <2>1 DEF ProcTypes
<1>8. ASSUME NEW i \in 1..Len(tabs[p]), CloseTab(p, i) PROVE ProcTypes'
  <2>1. UNCHANGED <<held, tabs, gc>> /\ Discard(p, i)
    BY <1>8 DEF CloseTab
  <2>5. i \in Nat
    BY <1>0
  <2>2. [NoOp EXCEPT !.op = "close", !.at = i] \in UiType
    BY <2>5 DEF NoOp, UiType
  <2>3. ui' \in [Procs -> UiType]
    BY <1>0, <1>8, <2>2 DEF CloseTab
  <2>4. QED BY <1>0, <1>6, <2>1, <2>3 DEF ProcTypes
<1>9. QED BY <1>1, <1>2, <1>3, <1>4, <1>5, <1>7, <1>8 DEF UserStep

\* An operation that ends, or a crash, does.
LEMMA ProcEnds ==
  ASSUME Types, Own, NEW p \in Procs, UiEnds(p) \/ Crash(p)
  PROVE  ProcTypes'
<1>0. /\ ui \in [Procs -> UiType] /\ tabs \in [Procs -> Seq(TabType)]
      /\ gc = [q \in Procs |-> gc[q]] /\ \A q \in Procs : IsGc(gc[q])
      /\ writer \in [1..MaxSessions -> WriterType]
      /\ held \in [1..MaxSessions -> Procs \cup {"free", "probe"}]
      /\ MaxSessions \in Nat
  BY StoreAssumption DEF Types, ProcTypes
<1>1. NoOp \in UiType
  BY DEF NoOp, UiType
<1>2. CASE TakeLock(p)
  <2>1. PICK got \in BOOLEAN : Locked(p, ui[p].at, got) /\ Resumes(p, got)
    BY <1>2, ResumeFacts
  <2>2. held' \in [1..MaxSessions -> Procs \cup {"free", "probe"}]
    BY <1>0, <1>2 DEF TakeLock
  <2>3. ui' \in [Procs -> UiType] /\ UNCHANGED gc
    BY <1>0, <1>1, <1>2 DEF TakeLock
  <2>4. QED BY <1>0, <2>1, <2>2, <2>3 DEF ProcTypes, Locked, Resumes
<1>3. CASE EndClose(p)
  <2>1. tabs' \in [Procs -> Seq(TabType)]
    BY <1>3, CloseFacts DEF Closed
  <2>2. held' \in [1..MaxSessions -> Procs \cup {"free", "probe"}]
    BY <1>0, <1>3 DEF EndClose
  <2>3. ui' \in [Procs -> UiType] /\ UNCHANGED <<gc, writer>>
    BY <1>0, <1>1, <1>3 DEF EndClose
  <2>4. QED BY <1>0, <2>1, <2>2, <2>3 DEF ProcTypes
<1>4. CASE EndQuit(p) \/ Crash(p)
  <2>1. Gone(p)
    BY <1>4 DEF EndQuit, Crash
  <2>2. /\ writer' \in [1..MaxSessions -> WriterType]
        /\ gc' = [q \in Procs |-> gc'[q]] /\ tabs' \in [Procs -> Seq(TabType)]
        /\ ui' \in [Procs -> UiType]
        /\ held' \in [1..MaxSessions -> Procs \cup {"free", "probe"}]
        /\ gc'[p] = NoGc /\ \A q \in Procs : q # p => gc'[q] = gc[q]
    BY <2>1, GoneFacts
  <2>3. \A q \in Procs : IsGc(gc'[q])
    BY <1>0, <2>2, NoGcType
  <2>4. QED BY <2>2, <2>3 DEF ProcTypes
<1>5. QED BY <1>2, <1>3, <1>4 DEF UiEnds

\* Every step keeps the processes well formed.
LEMMA ProcNext ==
  ASSUME Types, Own, QueuesOK, [Next]_vars
  PROVE  ProcTypes'
<1>1. CASE UNCHANGED vars
  BY <1>1 DEF vars, Types, ProcTypes
<1>2. ASSUME NEW p \in Procs, UserStep(p) \/ UiEnds(p) \/ Crash(p) \/ GcStep(p)
      PROVE  ProcTypes'
  BY <1>2, ProcUser, ProcEnds, ProcCollector
<1>3. ASSUME NEW s \in 1..Len(sessions), WriterStep(s) PROVE ProcTypes'
  <2>1. s \in 1..MaxSessions
    BY StoreAssumption DEF Types, DbTypes
  <2>2. QED BY <1>3, <2>1, ProcWriter
<1>4. QED BY <1>1, <1>2, <1>3 DEF Next

-----------------------------------------------------------------------------
\* Files come and go

\* A rename puts the block under the writer's path, or fails.
LEMMA RenameFacts ==
  ASSUME Types, QueuesOK, NEW s \in 1..MaxSessions, Rename(s)
  PROVE  Filing(s) \/ (files' = files /\ SealFails(s))
<1>1. writer[s].pc = "temp" /\ writer[s].q # <<>> /\ writer[s].q[1] # 0
  BY DEF Rename, W, QueuesOK, QueueOK
<1>2. Head(writer[s].q) = writer[s].q[1]
  BY <1>1, HeadFacts
<1>3. CASE Here(s) \in tmps
  <2>1. files' = Put(Here(s), writer[s].q[1]) /\ writer' = [writer EXCEPT ![s].pc = "renamed"]
    BY <1>2, <1>3 DEF Rename, W
  <2>2. PICK path, b : path = Here(s) /\ b = writer[s].q[1]
    OBVIOUS
  <2>3. /\ DOMAIN files' = DOMAIN files \cup {path} /\ files' = [x \in DOMAIN files' |-> files'[x]]
        /\ files'[path] = b /\ \A x \in DOMAIN files : x # path => files'[x] = files[x]
    BY <2>1, <2>2 DEF Put
  <2>4. WriterBecomes(s, writer[s].q, "renamed", writer[s].seq, writer[s].cursor,
                      writer[s].id, writer[s].todo)
    BY <2>1, WriterRenamed
  <2>5. QED BY <1>1, <2>2, <2>3, <2>4 DEF Filing
<1>4. CASE Here(s) \notin tmps
  BY <1>4 DEF Rename, diskVars
<1>5. QED BY <1>3, <1>4

\* A file removed is the only one that goes.
LEMMA UnlinkedFacts ==
  ASSUME NEW path, files' = Unlinked(path) PROVE Unfiled(path)
BY DEF Unlinked, Unfiled

\* A clear removes a file that is left, or finds none.
LEMMA UnlinkFacts ==
  ASSUME Types, NEW s \in 1..MaxSessions, UnlinkForClear(s)
  PROVE  NoneLeft(s) \/ \E i : Unlinks(s, i)
<1>1. writer[s].pc = "unlink"
  BY DEF UnlinkForClear, W
<1>2. PICK left : left = {i \in DOMAIN writer[s].todo : Path(writer[s].todo[i]) \in DOMAIN files}
  OBVIOUS
<1>3. \/ \E i \in left : files' = Unlinked(Path(writer[s].todo[i])) /\ UNCHANGED writer
      \/ left = {} /\ writer' = [writer EXCEPT ![s].pc = "purge"] /\ UNCHANGED files
  BY <1>2 DEF UnlinkForClear, W
<1>4. ASSUME NEW i \in left, files' = Unlinked(Path(writer[s].todo[i])), UNCHANGED writer
      PROVE  Unlinks(s, i)
  BY <1>1, <1>2, <1>4, UnlinkedFacts DEF Unlinks
<1>5. ASSUME left = {}, writer' = [writer EXCEPT ![s].pc = "purge"], UNCHANGED files
      PROVE  NoneLeft(s)
  BY <1>1, <1>2, <1>5, WriterPurges DEF NoneLeft
<1>6. QED BY <1>3, <1>4, <1>5

\* Every other step leaves the files.
LEMMA FilesStay ==
  ASSUME NEW p, UserStep(p) \/ UiEnds(p) \/ Crash(p) \/ GcStep(p)
  PROVE  files' = files \/ (GcStep(p) /\ DeleteFile(p))
<1>1. CASE UserStep(p)
  <2>1. ASSUME NEW i \in 1..Len(tabs[p]),
               RestartPane(p, i) \/ SealBlock(p, i) \/ ClearScrollback(p, i) \/ CloseTab(p, i)
        PROVE  files' = files
    BY <2>1 DEF RestartPane, SealBlock, ClearScrollback, CloseTab, diskVars
  <2>2. CASE LaunchRestored(p) \/ LaunchFresh(p) \/ NewTab(p) \/ SaveLayout(p) \/ BeginQuit(p)
    BY <2>2 DEF LaunchRestored, LaunchFresh, NewTab, SaveLayout, BeginQuit, diskVars
  <2>3. QED BY <1>1, <2>1, <2>2 DEF UserStep
<1>2. CASE UiEnds(p) \/ Crash(p)
  BY <1>2 DEF UiEnds, TakeLock, EndClose, EndQuit, Crash, diskVars
<1>3. CASE ListChunks(p) \/ EndProbe(p) \/ DeleteRow(p) \/ SweepTemps(p)
  BY <1>3 DEF ListChunks, EndProbe, DeleteRow, SweepTemps, diskVars
<1>4. CASE ChooseDoomed(p)
  <2>1. UNCHANGED diskVars
    BY <1>4 DEF ChooseDoomed
  <2>2. QED BY <2>1 DEF diskVars
<1>5. ASSUME NEW r \in Unprobed(p), ProbeFree(p, r) \/ ProbeLive(p, r) PROVE files' = files
  BY <1>5 DEF ProbeFree, ProbeLive, diskVars
<1>6. CASE GcStep(p)
  BY <1>3, <1>4, <1>5, <1>6 DEF GcStep
<1>7. QED BY <1>1, <1>2, <1>6

\* A writer touches files only to rename or to clear.
LEMMA WriterFilesStay ==
  ASSUME NEW s, WriterStep(s), ~Rename(s), ~UnlinkForClear(s)
  PROVE  files' = files
BY DEF WriterStep, WriteTemp, InsertRow, InsertChips, WriteFails, ListForClear, DeleteForClear,
       diskVars

\* Only a seal adds to the blocks.
LEMMA BlocksStay ==
  ASSUME NEW p, UserStep(p) \/ UiEnds(p) \/ Crash(p) \/ GcStep(p)
  PROVE  \/ sealedIn' = sealedIn
         \/ \E i \in 1..Len(tabs[p]) : SealBlock(p, i)
<1>1. CASE UserStep(p)
  <2>1. ASSUME NEW i \in 1..Len(tabs[p]),
               RestartPane(p, i) \/ ClearScrollback(p, i) \/ CloseTab(p, i)
        PROVE  sealedIn' = sealedIn
    BY <2>1 DEF RestartPane, ClearScrollback, CloseTab, ghostVars
  <2>2. CASE LaunchRestored(p) \/ LaunchFresh(p) \/ NewTab(p) \/ SaveLayout(p) \/ BeginQuit(p)
    BY <2>2 DEF LaunchRestored, LaunchFresh, NewTab, SaveLayout, BeginQuit, ghostVars
  <2>3. QED BY <1>1, <2>1, <2>2 DEF UserStep
<1>2. CASE UiEnds(p) \/ Crash(p)
  BY <1>2 DEF UiEnds, TakeLock, EndClose, EndQuit, Crash, ghostVars
<1>3. CASE ListChunks(p) \/ EndProbe(p) \/ DeleteRow(p) \/ SweepTemps(p) \/ DeleteFile(p)
  BY <1>3 DEF ListChunks, EndProbe, DeleteRow, SweepTemps, DeleteFile, ghostVars
<1>4. CASE ChooseDoomed(p)
  <2>1. UNCHANGED ghostVars
    BY <1>4 DEF ChooseDoomed
  <2>2. QED BY <2>1 DEF ghostVars
<1>5. ASSUME NEW r \in Unprobed(p), ProbeFree(p, r) \/ ProbeLive(p, r) PROVE sealedIn' = sealedIn
  BY <1>5 DEF ProbeFree, ProbeLive, ghostVars
<1>6. CASE GcStep(p)
  BY <1>3, <1>4, <1>5, <1>6 DEF GcStep
<1>7. QED BY <1>1, <1>2, <1>6

\* A writer seals, discards and collects nothing.
LEMMA WriterBlocksStay ==
  ASSUME NEW s, WriterStep(s)
  PROVE  UNCHANGED <<sealedIn, cleared, unsettled, collected, launches>>
<1>1. CASE UnlinkForClear(s)
  <2>1. UNCHANGED <<ghostVars, launches>>
    BY <1>1 DEF UnlinkForClear
  <2>2. QED BY <2>1 DEF ghostVars
<1>2. QED BY <1>1 DEF WriterStep, WriteTemp, Rename, InsertRow, InsertChips, WriteFails,
                     ListForClear, DeleteForClear, ghostVars

\* Sessions and panes are added only where a session begins.
LEMMA SessionsMove ==
  ASSUME Types, Own, [Next]_vars
  PROVE  UNCHANGED <<sessions, panes>> \/ \E p \in Procs : Begins(p)
<1>3. ASSUME NEW p \in Procs, UserStep(p)
      PROVE  UNCHANGED <<sessions, panes>> \/ Begins(p)
  <2>1. CASE LaunchFresh(p) \/ NewTab(p) \/ \E i \in 1..Len(tabs[p]) : RestartPane(p, i)
    BY <2>1, BeginsWhen
  <2>2. CASE LaunchRestored(p) \/ SaveLayout(p) \/ BeginQuit(p)
    BY <2>2, StillWhen DEF Still
  <2>3. ASSUME NEW i \in 1..Len(tabs[p]), SealBlock(p, i) \/ ClearScrollback(p, i) \/ CloseTab(p, i)
        PROVE  UNCHANGED <<sessions, panes>>
    BY <2>3 DEF SealBlock, ClearScrollback, CloseTab, dbVars
  <2>4. QED BY <1>3, <2>1, <2>2, <2>3 DEF UserStep
<1>4. ASSUME NEW p \in Procs, UiEnds(p) \/ Crash(p) PROVE UNCHANGED <<sessions, panes>>
  BY <1>4 DEF UiEnds, TakeLock, EndClose, EndQuit, Crash, dbVars
<1>5. ASSUME NEW p \in Procs, GcStep(p) PROVE UNCHANGED <<sessions, panes>>
  BY <1>5, CollectorAlive
<1>6. ASSUME NEW s, WriterStep(s) PROVE UNCHANGED <<sessions, panes>>
  BY <1>6, WriterQuiet DEF Quiet
<1>7. CASE UNCHANGED vars
  BY <1>7 DEF vars, dbVars
<1>8. QED BY <1>3, <1>4, <1>5, <1>6, <1>7 DEF Next

\* Sessions are only added, by any step.
LEMMA SessionsStay ==
  ASSUME Types, Own, [Next]_vars
  PROVE  /\ Len(sessions') \in Nat /\ Len(sessions) <= Len(sessions')
         /\ \A s \in Sessions : s \in Sessions' /\ sessions'[s] = sessions[s]
         /\ panes' \in Nat /\ panes <= panes'
<1>0. Len(sessions) \in Nat /\ panes \in Nat
  BY DEF Types, DbTypes
<1>1. CASE UNCHANGED <<sessions, panes>>
  BY <1>0, <1>1 DEF Sessions
<1>2. ASSUME NEW p \in Procs, Begins(p)
      PROVE  /\ Len(sessions') \in Nat /\ Len(sessions) <= Len(sessions')
             /\ \A s \in Sessions : s \in Sessions' /\ sessions'[s] = sessions[s]
             /\ panes' \in Nat /\ panes <= panes'
  <2>1. PICK at, r : BeginRows(p, at, r) /\ BeginsFor(p, at, r)
    BY <1>2 DEF Begins
  <2>2. Begun(p, at, r)
    BY <2>1, BeginFacts
  <2>3. \A s \in Sessions : s \in Sessions' /\ sessions'[s] = sessions[s]
    BY <2>2, BegunSessions
  <2>4. QED BY <1>0, <2>2, <2>3 DEF Begun
<1>3. QED BY <1>1, <1>2, SessionsMove

\* Blocks are only added, by any step.
LEMMA SealedStay ==
  ASSUME Types, Own, QueuesOK, [Next]_vars
  PROVE  /\ SealedGrows /\ sealedIn' \in Seq(Nat) /\ Len(sealedIn') <= Len(LinesOf)
         /\ Len(sealedIn) <= Len(sealedIn')
<1>0. sealedIn \in Seq(Nat) /\ Len(sealedIn) \in Nat /\ Len(sealedIn) <= Len(LinesOf)
  BY DEF Types, FileTypes
<1>1. CASE sealedIn' = sealedIn
  BY <1>0, <1>1 DEF SealedGrows
<1>2. ASSUME NEW p \in Procs, NEW i \in 1..Len(tabs[p]), SealBlock(p, i)
      PROVE  /\ SealedGrows /\ sealedIn' \in Seq(Nat) /\ Len(sealedIn') <= Len(LinesOf)
             /\ Len(sealedIn) <= Len(sealedIn')
  <2>1. Sealed(p, i)
    BY <1>2, SealFacts
  <2>2. \A b \in 1..Len(sealedIn) : b \in 1..Len(sealedIn')
    BY <1>0, <2>1 DEF Sealed
  <2>3. QED BY <1>0, <2>1, <2>2 DEF Sealed, SealedGrows
<1>3. ASSUME NEW p \in Procs, UserStep(p) \/ UiEnds(p) \/ Crash(p) \/ GcStep(p)
      PROVE  sealedIn' = sealedIn \/ \E i \in 1..Len(tabs[p]) : SealBlock(p, i)
  BY <1>3, BlocksStay
<1>4. ASSUME NEW s, WriterStep(s) PROVE sealedIn' = sealedIn
  BY <1>4, WriterBlocksStay
<1>5. CASE UNCHANGED vars
  BY <1>1, <1>5 DEF vars, ghostVars
<1>6. QED BY <1>1, <1>2, <1>3, <1>4, <1>5 DEF Next

\* Every step keeps the files well formed.
LEMMA FileNext ==
  ASSUME Types, Own, QueuesOK, [Next]_vars
  PROVE  FileTypes'
<1>0. /\ files = [x \in DOMAIN files |-> files[x]] /\ DOMAIN files \subseteq Sessions \X Nat
      /\ \A x \in DOMAIN files : files[x] \in 1..Len(sealedIn)
      /\ sealedIn' \in Seq(Nat) /\ Len(sealedIn') <= Len(LinesOf)
      /\ \A b \in 1..Len(sealedIn) : b \in 1..Len(sealedIn')
      /\ \A s \in Sessions : s \in Sessions'
  BY SealedStay, SessionsStay DEF Types, FileTypes, SealedGrows
<1>1. CASE files' = files
  BY <1>0, <1>1 DEF FileTypes
<1>2. ASSUME NEW path, Unfiled(path) PROVE FileTypes'
  BY <1>0, <1>2 DEF FileTypes, Unfiled
<1>3. ASSUME NEW s \in 1..MaxSessions, Alive(s), Filing(s) PROVE FileTypes'
  <2>1. s \in Sessions /\ writer[s].seq \in Nat
    BY <1>3, AliveFacts, WriterRecord
  <2>2. writer[s].q[1] \in 1..Len(sealedIn) /\ Here(s) \in Sessions \X Nat
    BY <1>3, <2>1, HeadFacts DEF Here, W, Filing
  <2>3. QED BY <1>0, <1>3, <2>2 DEF FileTypes, Filing
<1>4. ASSUME NEW p \in Procs, UserStep(p) \/ UiEnds(p) \/ Crash(p) \/ GcStep(p)
      PROVE  FileTypes'
  <2>1. CASE DeleteFile(p)
    BY <1>2, <2>1, UnlinkedFacts DEF DeleteFile
  <2>2. QED BY <1>1, <1>4, <2>1, FilesStay
<1>5. ASSUME NEW s \in 1..Len(sessions), held[s] \in Procs, WriterStep(s) PROVE FileTypes'
  <2>1. s \in 1..MaxSessions /\ Alive(s)
    BY <1>5, StoreAssumption DEF Types, DbTypes, Alive
  <2>2. CASE Rename(s)
    BY <1>1, <1>3, <2>1, <2>2, RenameFacts
  <2>3. CASE UnlinkForClear(s)
    BY <1>1, <1>2, <2>1, <2>3, UnlinkFacts DEF Unlinks, NoneLeft
  <2>4. QED BY <1>1, <1>5, <2>2, <2>3, WriterFilesStay
<1>6. CASE UNCHANGED vars
  BY <1>1, <1>6 DEF vars, diskVars
<1>7. QED BY <1>4, <1>5, <1>6 DEF Next

\* Every step keeps the types.
LEMMA TypesNext ==
  ASSUME Types, Own, QueuesOK, [Next]_vars
  PROVE  Types'
BY DbNext, ProcNext, FileNext DEF Types

-----------------------------------------------------------------------------
\* Which steps start a collection, a discard or a session

\* A collector at work was so before or has just been launched.
LEMMA GcOnly ==
  ASSUME Types, Own, [Next]_vars, NEW q \in Procs, Collects(q)'
  PROVE  Collects(q) \/ LaunchRestored(q) \/ LaunchFresh(q)
<1>1. ASSUME gc'[q] = gc[q] PROVE Collects(q)
  BY <1>1 DEF Collects
<1>2. CASE UNCHANGED vars
  BY <1>1, <1>2 DEF vars
<1>3. ASSUME NEW p \in Procs, UserStep(p)
      PROVE  Collects(q) \/ LaunchRestored(q) \/ LaunchFresh(q)
  <2>1. CASE LaunchRestored(p) \/ LaunchFresh(p)
    <3>1. CASE q # p
      <4>1. GcLaunched(p)
        BY <2>1, GcLaunchedWhen DEF LaunchRestored, LaunchFresh
      <4>2. QED BY <1>1, <3>1, <4>1 DEF GcLaunched
    <3>2. QED BY <2>1, <3>1
  <2>2. CASE NewTab(p) \/ SaveLayout(p) \/ BeginQuit(p)
    BY <1>1, <2>2 DEF NewTab, SaveLayout, BeginQuit
  <2>3. ASSUME NEW i \in 1..Len(tabs[p]),
               RestartPane(p, i) \/ SealBlock(p, i) \/ ClearScrollback(p, i) \/ CloseTab(p, i)
        PROVE  gc'[q] = gc[q]
    BY <2>3 DEF RestartPane, SealBlock, ClearScrollback, CloseTab
  <2>4. QED BY <1>1, <1>3, <2>1, <2>2, <2>3 DEF UserStep
<1>4. ASSUME NEW p \in Procs, TakeLock(p) \/ EndClose(p) PROVE Collects(q)
  BY <1>1, <1>4 DEF TakeLock, EndClose
<1>5. ASSUME NEW p \in Procs, EndQuit(p) \/ Crash(p) PROVE Collects(q)
  <2>1. Gone(p)
    BY <1>5 DEF EndQuit, Crash
  <2>2. gc'[p] = NoGc /\ (q # p => gc'[q] = gc[q])
    BY <2>1, GoneFacts
  <2>3. QED BY <1>1, <2>2 DEF Collects, NoGc
<1>6. ASSUME NEW p \in Procs, GcStep(p) PROVE Collects(q)
  <2>1. CASE q # p
    BY <1>1, <1>6, <2>1, GcOthers
  <2>2. gc[p].pc # "off"
    <3>1. CASE ChooseDoomed(p)
      <4>1. gc[p].pc = "probe"
        BY <3>1 DEF ChooseDoomed
      <4>2. QED BY <4>1
    <3>2. ASSUME NEW r \in Unprobed(p), ProbeFree(p, r) \/ ProbeLive(p, r)
          PROVE  gc[p].pc = "probe"
      BY <3>2 DEF ProbeFree, ProbeLive
    <3>3. CASE ListChunks(p) \/ EndProbe(p) \/ DeleteFile(p) \/ DeleteRow(p) \/ SweepTemps(p)
      BY <3>3 DEF ListChunks, EndProbe, DeleteFile, DeleteRow, SweepTemps
    <3>4. QED BY <1>6, <3>1, <3>2, <3>3 DEF GcStep
  <2>3. QED BY <2>1, <2>2 DEF Collects
<1>7. ASSUME NEW s, WriterStep(s) PROVE Collects(q)
  BY <1>1, <1>7, WriterQuiet
<1>8. QED BY <1>2, <1>3, <1>4, <1>5, <1>6, <1>7 DEF Next, UiEnds

\* A queue that a writer's step has touched holds nothing new.
LEMMA QueueOnly ==
  ASSUME Types, QueuesOK, NEW s \in 1..MaxSessions, WriterStep(s)
  PROVE  writer'[s].q = writer[s].q \/ (writer[s].q # <<>> /\ writer'[s].q = Tail(writer[s].q))
<1>0. QueueOK(s)
  BY DEF QueuesOK
<1>1. ASSUME NEW pc, NEW seq, NEW cursor, NEW id, NEW todo,
             WriterBecomes(s, writer[s].q, pc, seq, cursor, id, todo)
      PROVE  writer'[s].q = writer[s].q
  BY <1>1 DEF WriterBecomes
<1>2. ASSUME NEW pc, NEW seq, NEW cursor, NEW id, NEW todo,
             WriterBecomes(s, Tail(writer[s].q), pc, seq, cursor, id, todo)
      PROVE  writer'[s].q = Tail(writer[s].q)
  BY <1>2 DEF WriterBecomes
<1>3. CASE WriteTemp(s)
  BY <1>1, <1>3, WriterTemp
<1>4. CASE InsertRow(s)
  BY <1>1, <1>4, WriterInserts
<1>5. CASE ListForClear(s)
  BY <1>1, <1>5, WriterLists
<1>6. CASE InsertChips(s)
  BY <1>2, <1>6, WriterChips
<1>7. ASSUME SealFails(s), writer[s].pc \in {"temp", "renamed", "rowed"}
      PROVE  writer[s].q # <<>> /\ writer'[s].q = Tail(writer[s].q)
  <2>1. writer[s].q # <<>>
    BY <1>0, <1>7 DEF QueueOK
  <2>2. QED BY <1>2, <1>7, <2>1, WriterSealFails
<1>8. CASE WriteFails(s)
  BY <1>7, <1>8 DEF WriteFails, W
<1>9. CASE Rename(s)
  <2>1. writer[s].pc = "temp"
    BY <1>9 DEF Rename, W
  <2>2. QED BY <1>1, <1>7, <1>9, <2>1, RenameFacts DEF Filing
<1>10. CASE UnlinkForClear(s)
  <2>1. ASSUME NoneLeft(s) PROVE writer'[s].q = writer[s].q
    BY <1>1, <2>1 DEF NoneLeft
  <2>2. ASSUME NEW i, Unlinks(s, i) PROVE writer'[s].q = writer[s].q
    BY <2>2 DEF Unlinks
  <2>3. QED BY <1>10, <2>1, <2>2, UnlinkFacts
<1>11. CASE DeleteForClear(s)
  BY <1>1, <1>2, <1>11, WriterDeletes
<1>12. QED
  BY <1>3, <1>4, <1>5, <1>6, <1>8, <1>9, <1>10, <1>11 DEF WriterStep

\* A clear that is queued was so before or has just been asked for.
LEMMA ClearsOnly ==
  ASSUME Types, Own, QueuesOK, [Next]_vars, NEW s \in 1..MaxSessions, Clears(s)'
  PROVE  \/ Clears(s)
         \/ \E p \in Procs : \E i \in 1..Len(tabs[p]) : ClearScrollback(p, i) \/ CloseTab(p, i)
<1>0. ASSUME writer'[s] = writer[s] PROVE Clears(s)
  BY <1>0 DEF Clears
<1>1. CASE UNCHANGED vars
  BY <1>0, <1>1 DEF vars
<1>2. ASSUME NEW p \in Procs, UserStep(p)
      PROVE  \/ Clears(s)
             \/ \E i \in 1..Len(tabs[p]) : ClearScrollback(p, i) \/ CloseTab(p, i)
  <2>1. CASE LaunchRestored(p) \/ LaunchFresh(p) \/ NewTab(p) \/ SaveLayout(p) \/ BeginQuit(p)
    BY <1>0, <2>1 DEF LaunchRestored, LaunchFresh, NewTab, SaveLayout, BeginQuit
  <2>2. ASSUME NEW i \in 1..Len(tabs[p]), RestartPane(p, i) PROVE Clears(s)
    BY <1>0, <2>2 DEF RestartPane
  <2>3. ASSUME NEW i \in 1..Len(tabs[p]), SealBlock(p, i) PROVE Clears(s)
    <3>1. PICK x, b : x = tabs[p][i].session /\ b = Len(sealedIn) + 1
      OBVIOUS
    <3>2. Len(sealedIn) \in Nat /\ (x # 0 => Queued(x, b)) /\ (x = 0 => writer' = writer)
      BY <2>3, <3>1, SealFacts DEF Sealed
    <3>3. b # 0
      BY <3>1, <3>2
    <3>4. CASE x = s
      <4>1. Queued(s, b)
        BY <3>2, <3>4
      <4>2. /\ \A j \in DOMAIN writer'[s].q :
                 j \in DOMAIN writer[s].q \/ j = Len(writer[s].q) + 1
            /\ \A j \in DOMAIN writer[s].q : writer'[s].q[j] = writer[s].q[j]
            /\ writer'[s].q[Len(writer[s].q) + 1] = b
        BY <4>1 DEF Queued
      <4>3. QED BY <3>3, <4>2 DEF Clears
    <3>5. CASE x # s
      <4>1. x # 0 => writer'[s] = writer[s]
        BY <3>2, <3>5 DEF Queued, WriterBecomes
      <4>2. QED BY <1>0, <3>2, <4>1
    <3>6. QED BY <3>4, <3>5
  <2>4. QED BY <1>2, <2>1, <2>2, <2>3 DEF UserStep
<1>3. ASSUME NEW p \in Procs, TakeLock(p) PROVE Clears(s)
  <2>1. PICK got \in BOOLEAN : Resumes(p, got)
    BY <1>3, ResumeFacts
  <2>2. CASE s = ui[p].session /\ got
    <3>1. writer'[s] = Resumed(ui[p])
      BY <2>1, <2>2 DEF Resumes
    <3>2. writer'[s].q = <<>>
      BY <3>1 DEF Resumed, NoWriter
    <3>3. \A i \in DOMAIN writer'[s].q : FALSE
      BY <3>2
    <3>4. QED BY <3>3 DEF Clears
  <2>3. CASE ~(s = ui[p].session /\ got)
    BY <1>0, <2>1, <2>3 DEF Resumes
  <2>4. QED BY <2>2, <2>3
<1>4. ASSUME NEW p \in Procs, EndClose(p) PROVE Clears(s)
  BY <1>0, <1>4 DEF EndClose
<1>5. ASSUME NEW p \in Procs, EndQuit(p) \/ Crash(p) PROVE Clears(s)
  <2>1. Gone(p)
    BY <1>5 DEF EndQuit, Crash
  <2>2. writer'[s] = NoWriter \/ writer'[s] = writer[s]
    BY <2>1, GoneFacts
  <2>3. writer'[s] # NoWriter
    BY DEF NoWriter, Clears
  <2>4. QED BY <1>0, <2>2, <2>3
<1>6. ASSUME NEW p \in Procs, GcStep(p) PROVE Clears(s)
  BY <1>0, <1>6, CollectorAlive
<1>7. ASSUME NEW t \in 1..Len(sessions), WriterStep(t) PROVE Clears(s)
  <2>1. t \in 1..MaxSessions
    BY StoreAssumption DEF Types, DbTypes
  <2>2. CASE t # s
    BY <1>0, <1>7, <2>1, <2>2, WriterTypes DEF WriterSteps
  <2>3. CASE t = s
    <3>1. CASE writer'[s].q = writer[s].q
      BY <3>1 DEF Clears
    <3>2. CASE writer[s].q # <<>> /\ writer'[s].q = Tail(writer[s].q)
      <4>1. \A i \in DOMAIN writer'[s].q :
              i + 1 \in DOMAIN writer[s].q /\ writer'[s].q[i] = writer[s].q[i + 1]
        BY <3>2, HeadFacts
      <4>2. QED BY <4>1 DEF Clears
    <3>3. QED BY <1>7, <2>3, <3>1, <3>2, QueueOnly
  <2>4. QED BY <2>2, <2>3
<1>8. QED BY <1>1, <1>2, <1>3, <1>4, <1>5, <1>6, <1>7 DEF Next, UiEnds

\* A session half begun was so before or begins now.
LEMMA StartsOnly ==
  ASSUME Types, Own, [Next]_vars, NEW q \in Procs, Starting(q)'
  PROVE  \/ Starting(q) /\ ui'[q] = ui[q] /\ tabs'[q] = tabs[q]
         \/ LaunchFresh(q) \/ NewTab(q) \/ \E i \in 1..Len(tabs[q]) : RestartPane(q, i)
<1>0. ASSUME ui'[q] = ui[q], tabs'[q] = tabs[q]
      PROVE  Starting(q) /\ ui'[q] = ui[q] /\ tabs'[q] = tabs[q]
  BY <1>0 DEF Starting
<1>1. CASE UNCHANGED vars
  BY <1>0, <1>1 DEF vars
<1>t. tabs \in [Procs -> Seq(TabType)] /\ ui \in [Procs -> UiType]
  BY DEF Types, ProcTypes
<1>2. ASSUME NEW p \in Procs, Begins(p), p # q PROVE ui'[q] = ui[q] /\ tabs'[q] = tabs[q]
  <2>1. PICK at, r : BeginRows(p, at, r) /\ UNCHANGED tabs
    BY <1>2 DEF Begins
  <2>2. QED BY <1>2, <2>1, <1>t DEF BeginRows
<1>3. ASSUME NEW p \in Procs, UserStep(p)
      PROVE  \/ ui'[q] = ui[q] /\ tabs'[q] = tabs[q]
             \/ LaunchFresh(q) \/ NewTab(q) \/ \E i \in 1..Len(tabs[q]) : RestartPane(q, i)
  <2>1. CASE LaunchFresh(p) \/ NewTab(p) \/ \E i \in 1..Len(tabs[p]) : RestartPane(p, i)
    <3>1. CASE p = q
      BY <2>1, <3>1
    <3>2. CASE p # q
      BY <2>1, <3>2, <1>2, BeginsWhen
    <3>3. QED BY <3>1, <3>2
  <2>2. CASE LaunchRestored(p)
    <3>1. ui' = ui /\ ui[p] = NoOp /\ \A o \in Procs : o # p => tabs'[o] = tabs[o]
      BY <2>2, <1>t DEF LaunchRestored
    <3>2. q # p
      BY <3>1 DEF Starting, NoOp
    <3>3. QED BY <3>1, <3>2
  <2>3. CASE SaveLayout(p)
    BY <2>3 DEF SaveLayout
  <2>4. CASE BeginQuit(p)
    <3>1. ui'[p].op = "quit" /\ tabs' = tabs /\ \A o \in Procs : o # p => ui'[o] = ui[o]
      BY <2>4, <1>t DEF BeginQuit, NoOp
    <3>2. q # p
      BY <3>1 DEF Starting
    <3>3. QED BY <3>1, <3>2
  <2>5. ASSUME NEW i \in 1..Len(tabs[p]), SealBlock(p, i) \/ ClearScrollback(p, i)
        PROVE  ui'[q] = ui[q] /\ tabs'[q] = tabs[q]
    <3>1. ui' = ui /\ ui[p].op = "idle"
      BY <2>5 DEF SealBlock, ClearScrollback, UiIdle
    <3>2. q # p
      BY <3>1 DEF Starting
    <3>3. PICK v : tabs' = [tabs EXCEPT ![p] = v]
      <4>1. CASE SealBlock(p, i)
        BY <4>1 DEF SealBlock
      <4>2. CASE ClearScrollback(p, i)
        BY <4>2 DEF ClearScrollback
      <4>3. QED BY <2>5, <4>1, <4>2
    <3>4. tabs'[q] = tabs[q]
      BY <3>2, <3>3, <1>t
    <3>5. QED BY <3>1, <3>4
  <2>6. ASSUME NEW i \in 1..Len(tabs[p]), CloseTab(p, i)
        PROVE  ui'[q] = ui[q] /\ tabs'[q] = tabs[q]
    <3>1. ui'[p].op = "close" /\ tabs' = tabs /\ \A o \in Procs : o # p => ui'[o] = ui[o]
      BY <2>6, <1>t DEF CloseTab, NoOp
    <3>2. q # p
      BY <3>1 DEF Starting
    <3>3. QED BY <3>1, <3>2
  <2>7. QED BY <1>3, <2>1, <2>2, <2>3, <2>4, <2>5, <2>6 DEF UserStep
<1>4. ASSUME NEW p \in Procs, UiEnds(p) \/ Crash(p)
      PROVE  ui'[q] = ui[q] /\ tabs'[q] = tabs[q]
  <2>1. CASE TakeLock(p)
    <3>1. PICK got \in BOOLEAN : Locked(p, ui[p].at, got)
      BY <2>1, LockFacts
    <3>2. ui'[p] = NoOp
      BY <3>1 DEF Locked
    <3>3. q # p
      BY <3>2 DEF Starting, NoOp
    <3>4. QED BY <3>1, <3>3 DEF Locked
  <2>2. CASE EndClose(p)
    <3>1. Closed(p, ui[p].at)
      BY <2>2, CloseFacts
    <3>2. q # p
      BY <3>1 DEF Starting, NoOp, Closed
    <3>3. QED BY <3>1, <3>2 DEF Closed
  <2>3. CASE EndQuit(p) \/ Crash(p)
    <3>1. Gone(p)
      BY <2>3 DEF EndQuit, Crash
    <3>2. ui'[p] = NoOp /\ \A o \in Procs : o # p => ui'[o] = ui[o] /\ tabs'[o] = tabs[o]
      BY <3>1, GoneFacts
    <3>3. q # p
      BY <3>2 DEF Starting, NoOp
    <3>4. QED BY <3>2, <3>3
  <2>4. QED BY <1>4, <2>1, <2>2, <2>3 DEF UiEnds
<1>5. ASSUME NEW p \in Procs, GcStep(p) PROVE ui'[q] = ui[q] /\ tabs'[q] = tabs[q]
  BY <1>5, CollectorAlive
<1>6. ASSUME NEW s, WriterStep(s) PROVE ui'[q] = ui[q] /\ tabs'[q] = tabs[q]
  BY <1>6, WriterQuiet DEF Quiet
<1>7. QED BY <1>0, <1>1, <1>3, <1>4, <1>5, <1>6 DEF Next

\* A session that comes alive was being started.
LEMMA AliveOnly ==
  ASSUME Types, Own, [Next]_vars, NEW s \in 1..MaxSessions, Alive(s)'
  PROVE  \/ Alive(s) /\ held'[s] = held[s]
         \/ \E p \in Procs : /\ TakeLock(p) /\ ui[p].session = s /\ Starting(p)
                             /\ held[s] = "free" /\ held'[s] = p
<1>0. /\ "free" \notin Procs /\ "probe" \notin Procs
      /\ held \in [1..MaxSessions -> Procs \cup {"free", "probe"}]
      /\ held'[s] \in Procs
  BY StoreAssumption DEF Types, ProcTypes, Alive
<1>1. ASSUME held'[s] = held[s] PROVE Alive(s) /\ held'[s] = held[s]
  BY <1>0, <1>1 DEF Alive
<1>2. CASE UNCHANGED vars
  BY <1>1, <1>2 DEF vars
<1>3. ASSUME NEW p \in Procs, UserStep(p) PROVE held'[s] = held[s]
  <2>1. CASE LaunchRestored(p) \/ LaunchFresh(p) \/ NewTab(p) \/ SaveLayout(p) \/ BeginQuit(p)
    BY <2>1 DEF LaunchRestored, LaunchFresh, NewTab, SaveLayout, BeginQuit
  <2>2. ASSUME NEW i \in 1..Len(tabs[p]),
               RestartPane(p, i) \/ SealBlock(p, i) \/ ClearScrollback(p, i) \/ CloseTab(p, i)
        PROVE  held'[s] = held[s]
    BY <2>2 DEF RestartPane, SealBlock, ClearScrollback, CloseTab
  <2>3. QED BY <1>3, <2>1, <2>2 DEF UserStep
<1>4. ASSUME NEW p \in Procs, TakeLock(p)
      PROVE  held'[s] = held[s] \/ (/\ ui[p].session = s /\ held[s] = "free" /\ held'[s] = p
                                    /\ Starting(p))
  <2>1. PICK got \in BOOLEAN : Locked(p, ui[p].at, got)
    BY <1>4, LockFacts
  <2>2. Starting(p)
    BY <1>4 DEF TakeLock, Starting
  <2>3. QED BY <2>1, <2>2 DEF Locked
<1>5. ASSUME NEW p \in Procs, EndClose(p) PROVE held'[s] = held[s]
  <2>1. Closed(p, ui[p].at)
    BY <1>5, CloseFacts
  <2>2. PICK x : x = tabs[p][ui[p].at].session
    OBVIOUS
  <2>3. CASE s = x
    <3>1. s # 0
      OBVIOUS
    <3>2. held'[s] = "free"
      BY <2>1, <2>2, <2>3, <3>1 DEF Closed
    <3>3. QED BY <1>0, <3>2
  <2>4. CASE s # x
    BY <2>1, <2>2, <2>4 DEF Closed
  <2>5. QED BY <2>3, <2>4
<1>6. ASSUME NEW p \in Procs, EndQuit(p) \/ Crash(p) PROVE held'[s] = held[s]
  <2>1. held'[s] = IF held[s] = p \/ gc[p].probing = s THEN "free" ELSE held[s]
    BY <1>6 DEF EndQuit, Crash, Gone
  <2>2. QED BY <1>0, <2>1
<1>7. ASSUME NEW p \in Procs, GcStep(p) PROVE held'[s] = held[s]
  <2>1. CASE EndProbe(p)
    <3>1. held' = [held EXCEPT ![gc[p].probing] = "free"]
      BY <2>1 DEF EndProbe
    <3>2. QED BY <1>0, <3>1
  <2>2. ASSUME NEW r \in Unprobed(p), ProbeFree(p, r) PROVE held'[s] = held[s]
    <3>1. PICK x : held' = [held EXCEPT ![x] = "probe"]
      BY <2>2 DEF ProbeFree
    <3>2. QED BY <1>0, <3>1
  <2>3. ASSUME NEW r \in Unprobed(p), ProbeLive(p, r) PROVE held'[s] = held[s]
    BY <2>3 DEF ProbeLive
  <2>4. CASE ChooseDoomed(p)
    <3>1. held' = held
      BY <2>4 DEF ChooseDoomed
    <3>2. QED BY <3>1
  <2>5. CASE ListChunks(p) \/ DeleteFile(p) \/ DeleteRow(p) \/ SweepTemps(p)
    BY <2>5 DEF ListChunks, DeleteFile, DeleteRow, SweepTemps
  <2>6. QED BY <1>7, <2>1, <2>2, <2>3, <2>4, <2>5 DEF GcStep
<1>8. ASSUME NEW t, WriterStep(t) PROVE held'[s] = held[s]
  BY <1>8, WriterQuiet DEF Quiet
<1>9. QED BY <1>1, <1>2, <1>3, <1>4, <1>5, <1>6, <1>7, <1>8 DEF Next, UiEnds

-----------------------------------------------------------------------------
\* What a collector goes by

\* A collector changes by its own steps, a launch or its end.
LEMMA GcMoves ==
  ASSUME Types, Own, [Next]_vars, NEW q \in Procs
  PROVE  \/ gc'[q] = gc[q]
         \/ GcStep(q)
         \/ gc'[q] \in {NoGc, [NoGc EXCEPT !.pc = "list"]}
<1>1. CASE UNCHANGED vars
  BY <1>1 DEF vars
<1>2. ASSUME NEW p \in Procs, UserStep(p)
      PROVE  gc'[q] = gc[q] \/ gc'[q] \in {NoGc, [NoGc EXCEPT !.pc = "list"]}
  <2>1. CASE LaunchRestored(p) \/ LaunchFresh(p)
    <3>1. GcLaunched(p)
      BY <2>1, GcLaunchedWhen DEF LaunchRestored, LaunchFresh
    <3>2. QED BY <3>1 DEF GcLaunched
  <2>2. CASE NewTab(p) \/ SaveLayout(p) \/ BeginQuit(p)
    BY <2>2 DEF NewTab, SaveLayout, BeginQuit
  <2>3. ASSUME NEW i \in 1..Len(tabs[p]),
               RestartPane(p, i) \/ SealBlock(p, i) \/ ClearScrollback(p, i) \/ CloseTab(p, i)
        PROVE  gc'[q] = gc[q]
    BY <2>3 DEF RestartPane, SealBlock, ClearScrollback, CloseTab
  <2>4. QED BY <1>2, <2>1, <2>2, <2>3 DEF UserStep
<1>3. ASSUME NEW p \in Procs, TakeLock(p) \/ EndClose(p) PROVE gc'[q] = gc[q]
  BY <1>3 DEF TakeLock, EndClose
<1>4. ASSUME NEW p \in Procs, EndQuit(p) \/ Crash(p) PROVE gc'[q] \in {gc[q], NoGc}
  <2>1. Gone(p)
    BY <1>4 DEF EndQuit, Crash
  <2>2. QED BY <2>1, GoneFacts
<1>5. ASSUME NEW p \in Procs, GcStep(p) PROVE gc'[q] = gc[q] \/ GcStep(q)
  BY <1>5, GcOthers
<1>6. ASSUME NEW s, WriterStep(s) PROVE gc'[q] = gc[q]
  BY <1>6, WriterQuiet
<1>7. QED BY <1>1, <1>2, <1>3, <1>4, <1>5, <1>6 DEF Next, UiEnds

\* A collector that starts has seen nothing.
LEMMA BlankStarts ==
  ASSUME NEW g \in {NoGc, [NoGc EXCEPT !.pc = "list"]}
  PROVE  BlankGc(g) /\ DOMAIN g.todo = {}
BY DEF BlankGc, NoGc

\* What a collector's own step makes of it.
GcGoes(q) ==
  \/ gc'[q] = NoGc
  \/ /\ ListChunks(q)
     /\ GcBecomes(q, "probe", rows, LatestOfSeen, gc[q].dead, gc[q].probing, gc[q].todo)
  \/ /\ gc[q].pc = "probe"
     /\ GcBecomes(q, "probe", gc[q].rows, gc[q].latest, gc[q].dead, 0, gc[q].todo)
  \/ gc[q].pc = "apply" /\ gc'[q] = gc[q]
  \/ gc[q].pc = "apply" /\ gc[q].todo # <<>>
     /\ GcBecomes(q, "apply", gc[q].rows, gc[q].latest, gc[q].dead, gc[q].probing,
                  Tail(gc[q].todo))
  \/ \E todo : Chosen(q, todo)
  \/ \E r \in Unprobed(q) :
       /\ ProbeFree(q, r)
       /\ GcBecomes(q, "probe", gc[q].rows, Forget(gc[q].latest, r), gc[q].dead \cup {r},
                    gc[q].latest[r], gc[q].todo)
  \/ \E r \in Unprobed(q) :
       /\ gc[q].pc = "probe"
       /\ GcBecomes(q, "probe", gc[q].rows, Forget(gc[q].latest, r), gc[q].dead,
                    gc[q].probing, gc[q].todo)

\* The steps of a collector, by what they leave of what it saw.
LEMMA GcGoesWhen == ASSUME Types, NEW q \in Procs, GcStep(q) PROVE GcGoes(q)
<1>1. CASE ListChunks(q)
  BY <1>1, GcLists DEF GcGoes
<1>2. CASE EndProbe(q)
  <2>1. gc[q].pc = "probe"
    BY <1>2 DEF EndProbe
  <2>2. QED BY <1>2, <2>1, GcEndsProbe DEF GcGoes
<1>3. CASE ChooseDoomed(q)
  BY <1>3, ChooseFacts DEF GcGoes
<1>4. CASE DeleteFile(q)
  BY <1>4 DEF DeleteFile, GcGoes
<1>5. CASE DeleteRow(q)
  <2>1. gc[q].pc = "apply" /\ gc[q].todo # <<>>
    BY <1>5 DEF DeleteRow
  <2>2. QED BY <1>5, <2>1, GcDeletesRow DEF GcGoes
<1>6. CASE SweepTemps(q)
  BY <1>6, GcSweeps DEF GcGoes
<1>7. ASSUME NEW r \in Unprobed(q), ProbeFree(q, r) PROVE GcGoes(q)
  <2>1. gc[q].pc = "probe"
    BY <1>7 DEF ProbeFree
  <2>2. QED BY <1>7, <2>1, GcProbes DEF GcGoes
<1>8. ASSUME NEW r \in Unprobed(q), ProbeLive(q, r) PROVE GcGoes(q)
  <2>1. gc[q].pc = "probe"
    BY <1>8 DEF ProbeLive
  <2>2. QED BY <1>8, <2>1, GcFindsLive DEF GcGoes
<1>9. QED BY <1>1, <1>2, <1>3, <1>4, <1>5, <1>6, <1>7, <1>8 DEF GcStep

\* A collector has seen nothing until it lists.
LEMMA GcStartsNext ==
  ASSUME Types, Own, GcStarts, [Next]_vars
  PROVE  GcStarts'
<1> SUFFICES ASSUME NEW q \in Procs, gc'[q].pc \in {"off", "list"} PROVE BlankGc(gc'[q])
  BY DEF GcStarts
<1>1. CASE gc'[q] = gc[q]
  BY <1>1 DEF GcStarts
<1>2. CASE gc'[q] \in {NoGc, [NoGc EXCEPT !.pc = "list"]}
  BY <1>2, BlankStarts
<1>3. CASE GcStep(q)
  <2>1. ASSUME NEW pc \in {"probe", "apply"}, NEW a, NEW b, NEW c, NEW d, NEW e,
               GcBecomes(q, pc, a, b, c, d, e)
        PROVE  FALSE
    BY <2>1 DEF GcBecomes
  <2>2. ASSUME NEW todo, Chosen(q, todo) PROVE FALSE
    BY <2>1, <2>2 DEF Chosen
  <2>3. GcGoes(q)
    BY <1>3, GcGoesWhen
  <2>4. gc'[q] = NoGc
    BY <2>1, <2>2, <2>3 DEF GcGoes
  <2>5. QED BY <1>2, <2>4
<1>4. QED BY <1>1, <1>2, <1>3, GcMoves

\* What a collector saw and chose were chunks of sessions.
LEMMA GcSeenNext ==
  ASSUME Types, Own, GcSeen, [Next]_vars
  PROVE  GcSeen'
<1>0. \A c : SeenChunk(c) => SeenChunk(c)'
  BY SessionsStay DEF SeenChunk
<1> SUFFICES ASSUME NEW q \in Procs
             PROVE  /\ \A c \in gc'[q].rows : SeenChunk(c)
                    /\ \A i \in DOMAIN gc'[q].todo :
                         SeenChunk(gc'[q].todo[i]) /\ gc'[q].todo[i].pane \in gc'[q].dead
  <2>1. PICK g : g = gc'
    OBVIOUS
  <2>2. ASSUME NEW p \in Procs
        PROVE  /\ \A c \in g[p].rows : SeenChunk(c)'
               /\ \A i \in DOMAIN g[p].todo :
                    SeenChunk(g[p].todo[i])' /\ g[p].todo[i].pane \in g[p].dead
    BY <1>0, <2>1
  <2>3. QED BY <2>1, <2>2 DEF GcSeen
<1>t. gc[q].todo \in Seq(ChunkRow)
  BY DEF Types, ProcTypes, IsGc
<1>s. /\ \A c \in gc[q].rows : SeenChunk(c)
      /\ \A i \in DOMAIN gc[q].todo :
           SeenChunk(gc[q].todo[i]) /\ gc[q].todo[i].pane \in gc[q].dead
      /\ \A c \in rows : SeenChunk(c)
  BY DEF GcSeen, Types, DbTypes, SeenChunk
<1>1. CASE gc'[q] = gc[q]
  BY <1>1, <1>s
<1>2. CASE gc'[q] \in {NoGc, [NoGc EXCEPT !.pc = "list"]}
  BY <1>2, BlankStarts DEF BlankGc
<1>3. CASE GcStep(q)
  <2>1. ASSUME NEW pc, NEW seen, NEW latest, NEW dead, NEW probing, NEW todo,
               GcBecomes(q, pc, seen, latest, dead, probing, todo),
               seen \in {gc[q].rows, rows}, gc[q].dead \subseteq dead,
               \A i \in DOMAIN todo : SeenChunk(todo[i]) /\ todo[i].pane \in gc[q].dead
        PROVE  /\ \A c \in gc'[q].rows : SeenChunk(c)
               /\ \A i \in DOMAIN gc'[q].todo :
                    SeenChunk(gc'[q].todo[i]) /\ gc'[q].todo[i].pane \in gc'[q].dead
    BY <1>s, <2>1 DEF GcBecomes
  <2>2. ASSUME gc[q].todo # <<>>
        PROVE  \A i \in DOMAIN Tail(gc[q].todo) :
                 i + 1 \in DOMAIN gc[q].todo /\ Tail(gc[q].todo)[i] = gc[q].todo[i + 1]
    BY <1>t, <2>2
  <2>3. ASSUME NEW todo, Chosen(q, todo)
        PROVE  \A i \in DOMAIN todo : SeenChunk(todo[i]) /\ todo[i].pane \in gc[q].dead
    <3>1. DOMAIN todo = 1..Len(todo)
      BY <2>3 DEF Chosen
    <3>2. QED BY <1>s, <2>3, <3>1 DEF Chosen
  <2>4. GcGoes(q)
    BY <1>3, GcGoesWhen
  <2>5. ASSUME NEW todo, Chosen(q, todo)
        PROVE  /\ \A c \in gc'[q].rows : SeenChunk(c)
               /\ \A i \in DOMAIN gc'[q].todo :
                    SeenChunk(gc'[q].todo[i]) /\ gc'[q].todo[i].pane \in gc'[q].dead
    <3>1. GcBecomes(q, "apply", gc[q].rows, gc[q].latest, gc[q].dead, gc[q].probing, todo)
      BY <2>5 DEF Chosen
    <3>2. QED BY <2>1, <2>3, <2>5, <3>1
  <2>6. CASE gc[q].todo # <<>> /\
             GcBecomes(q, "apply", gc[q].rows, gc[q].latest, gc[q].dead, gc[q].probing,
                       Tail(gc[q].todo))
    <3>1. \A i \in DOMAIN Tail(gc[q].todo) :
            SeenChunk(Tail(gc[q].todo)[i]) /\ Tail(gc[q].todo)[i].pane \in gc[q].dead
      BY <1>s, <2>2, <2>6
    <3>2. QED BY <2>1, <2>6, <3>1
  <2>7. QED BY <1>1, <1>2, <1>s, <2>1, <2>4, <2>5, <2>6 DEF GcGoes
<1>4. QED BY <1>1, <1>2, <1>3, GcMoves

\* A launch starts its collector by the rule of StartGc.
LEMMA LaunchStartsGc ==
  ASSUME NEW p, LaunchRestored(p) \/ LaunchFresh(p)
  PROVE  StartGc(p) /\ UNCHANGED writer
BY DEF LaunchRestored, LaunchFresh

\* With no discard queued no writer has one.
LEMMA NoDiscardsClear ==
  ASSUME Types, NoDiscards, NEW s \in 1..MaxSessions
  PROVE  ~Clears(s)
<1>1. ~Contains(writer[s].q, 0) /\ writer[s].q \in Seq(Nat)
  BY WriterRecord DEF NoDiscards
<1>2. \A i \in DOMAIN writer[s].q : i \in 1..Len(writer[s].q)
  BY <1>1
<1>3. QED BY <1>1, <1>2 DEF Contains, Clears

\* One collector at a time; nothing is discarded or restarted while it works.
LEMMA CollectorsNext ==
  ASSUME Types, Own, QueuesOK, CollectorsOK, ~Can("hasty"), ~Can("overlap"), [Next]_vars
  PROVE  CollectorsOK'
<1> SUFFICES ASSUME NEW p \in Procs, Collects(p)'
             PROVE  /\ \A q \in Procs : Collects(q)' => q = p
                    /\ \A s \in 1..MaxSessions : ~Clears(s)'
                    /\ \A q \in Procs : Starting(q)' => FreshStart(q)'
  BY DEF CollectorsOK
<1>f. ASSUME NEW q \in Procs, LaunchFresh(q) \/ NewTab(q) PROVE FreshStart(q)'
  <2>t. /\ UNCHANGED tabs /\ ui \in [Procs -> UiType] /\ Len(tabs[q]) \in Nat
        /\ tabs[q] = <<>> => Len(tabs[q]) = 0
    BY <1>f DEF LaunchFresh, NewTab, Types, ProcTypes
  <2>1. CASE LaunchFresh(q)
    <3>1. tabs[q] = <<>> /\ BeginRows(q, 1, 0)
      BY <2>1 DEF LaunchFresh, Running
    <3>2. ui'[q].at = 1
      BY <3>1, <2>t DEF BeginRows
    <3>3. QED BY <3>1, <3>2, <2>t DEF FreshStart
  <2>2. CASE NewTab(q)
    <3>1. BeginRows(q, Len(tabs[q]) + 1, 0)
      BY <2>2 DEF NewTab
    <3>2. ui'[q].at = Len(tabs[q]) + 1
      BY <3>1, <2>t DEF BeginRows
    <3>3. QED BY <3>2, <2>t DEF FreshStart
  <2>3. QED BY <1>f, <2>1, <2>2
<1>1. CASE Collects(p)
  <2>c. Collecting
    BY <1>1 DEF Collecting, Collects
  <2>1. /\ \A q \in Procs : Collects(q) => q = p
        /\ \A s \in 1..MaxSessions : ~Clears(s)
        /\ \A q \in Procs : Starting(q) => FreshStart(q)
    BY <1>1 DEF CollectorsOK
  <2>2. ASSUME NEW q \in Procs, Collects(q)' PROVE q = p
    <3>1. ~LaunchRestored(q) /\ ~LaunchFresh(q)
      BY <2>c, LaunchStartsGc DEF StartGc
    <3>2. Collects(q)
      BY <2>2, <3>1, GcOnly
    <3>3. QED BY <2>1, <3>2
  <2>3. ASSUME NEW s \in 1..MaxSessions, Clears(s)' PROVE FALSE
    <3>1. ASSUME NEW o \in Procs, NEW i \in 1..Len(tabs[o]),
                 ClearScrollback(o, i) \/ CloseTab(o, i)
          PROVE  FALSE
      BY <2>c, <3>1 DEF ClearScrollback, CloseTab, Calm
    <3>2. Clears(s)
      BY <2>3, <3>1, ClearsOnly
    <3>3. QED BY <2>1, <3>2
  <2>4. ASSUME NEW q \in Procs, Starting(q)' PROVE FreshStart(q)'
    <3>1. ASSUME NEW i \in 1..Len(tabs[q]), RestartPane(q, i) PROVE FALSE
      BY <2>c, <3>1 DEF RestartPane, Calm
    <3>2. CASE Starting(q) /\ ui'[q] = ui[q] /\ tabs'[q] = tabs[q]
      BY <2>1, <3>2 DEF FreshStart
    <3>3. QED BY <2>4, <3>1, <3>2, <1>f, StartsOnly
  <2>5. QED BY <2>2, <2>3, <2>4
<1>2. CASE ~Collects(p)
  <2>1. LaunchRestored(p) \/ LaunchFresh(p)
    BY <1>2, GcOnly
  <2>2. StartGc(p) /\ UNCHANGED writer
    BY <2>1, LaunchStartsGc
  <2>3. NoDiscards /\ NoStarts /\ ~Collecting
    BY <2>2 DEF StartGc
  <2>4. ASSUME NEW q \in Procs, Collects(q)' PROVE q = p
    <3>1. GcLaunched(p)
      BY <2>2, GcLaunchedWhen
    <3>2. gc[q].pc = "off"
      BY <2>3 DEF Collecting
    <3>3. QED BY <2>4, <3>1, <3>2 DEF GcLaunched, Collects
  <2>5. ASSUME NEW s \in 1..MaxSessions PROVE ~Clears(s)'
    <3>1. ~Clears(s)
      BY <2>3, NoDiscardsClear
    <3>2. QED BY <2>2, <3>1 DEF Clears
  <2>6. ASSUME NEW q \in Procs, Starting(q)' PROVE FreshStart(q)'
    <3>1. ~Starting(q)
      BY <2>3 DEF NoStarts, Starting
    <3>2. ASSUME NEW i \in 1..Len(tabs[q]), RestartPane(q, i) PROVE FALSE
      <4>1. tabs' = tabs /\ Running(q) /\ ui[q].op = "idle" /\ UNCHANGED gc
        BY <3>2 DEF RestartPane, UiIdle
      <4>2. QED BY <1>2, <4>1 DEF Collects
    <3>3. QED BY <2>6, <3>1, <3>2, <1>f, StartsOnly
  <2>7. QED BY <2>4, <2>5, <2>6
<1>3. QED BY <1>1, <1>2

\* A row that a step adds is of a live session; its pane has a tab.
LEMMA RowsOnly ==
  ASSUME Types, Own, QueuesOK, [Next]_vars, NEW d \in rows'
  PROVE  \/ \E c \in rows : c.pane = d.pane
         \/ \E s \in 1..MaxSessions : Alive(s) /\ d.pane = sessions[s] /\ UNCHANGED <<ui, tabs>>
<1>0. ASSUME rows' \subseteq rows PROVE \E c \in rows : c.pane = d.pane
  BY <1>0
<1>1. CASE UNCHANGED vars
  BY <1>0, <1>1 DEF vars, dbVars
<1>2. ASSUME NEW p \in Procs, UserStep(p) PROVE \E c \in rows : c.pane = d.pane
  <2>1. CASE LaunchRestored(p) \/ LaunchFresh(p) \/ NewTab(p) \/ SaveLayout(p) \/ BeginQuit(p)
    BY <1>0, <2>1 DEF LaunchRestored, LaunchFresh, NewTab, SaveLayout, BeginQuit, dbVars
  <2>2. ASSUME NEW i \in 1..Len(tabs[p]),
               RestartPane(p, i) \/ SealBlock(p, i) \/ ClearScrollback(p, i) \/ CloseTab(p, i)
        PROVE  rows' = rows
    BY <2>2 DEF RestartPane, SealBlock, ClearScrollback, CloseTab, dbVars
  <2>3. QED BY <1>0, <1>2, <2>1, <2>2 DEF UserStep
<1>3. ASSUME NEW p \in Procs, UiEnds(p) \/ Crash(p) PROVE \E c \in rows : c.pane = d.pane
  BY <1>0, <1>3 DEF UiEnds, TakeLock, EndClose, EndQuit, Crash, dbVars
<1>4. ASSUME NEW p \in Procs, GcStep(p) PROVE \E c \in rows : c.pane = d.pane
  BY <1>0, <1>4, CollectorTakes
<1>5. ASSUME NEW s \in 1..Len(sessions), Alive(s), WriterStep(s)
      PROVE  \/ \E c \in rows : c.pane = d.pane
             \/ /\ s \in 1..MaxSessions /\ Alive(s) /\ d.pane = sessions[s]
                /\ UNCHANGED <<ui, tabs>>
  <2>0. s \in 1..MaxSessions /\ writer[s].row = sessions[s]
    <3>1. s \in 1..MaxSessions
      BY StoreAssumption DEF Types, DbTypes
    <3>2. QED BY <1>5, <3>1 DEF QueuesOK, QueueOK
  <2>1. CASE InsertRow(s)
    <3>1. PICK c : Inserted(s, c)
      BY <2>0, <2>1, InsertFacts
    <3>2. CASE d = c
      BY <1>5, <2>0, <3>1, <3>2, WriterQuiet DEF Inserted, Quiet
    <3>3. CASE d # c
      BY <3>1, <3>3 DEF Inserted
    <3>4. QED BY <3>2, <3>3
  <2>2. CASE InsertChips(s)
    <3>1. Relabeled(writer[s].id, writer[s].q[1])
      BY <2>0, <2>2, ChipFacts
    <3>2. QED BY <3>1 DEF Relabeled, SameButLabel
  <2>3. CASE DeleteForClear(s)
    <3>1. rows' \subseteq rows
      BY <2>3 DEF DeleteForClear
    <3>2. QED BY <1>0, <3>1
  <2>4. CASE WriteTemp(s) \/ Rename(s) \/ WriteFails(s) \/ ListForClear(s) \/ UnlinkForClear(s)
    <3>1. rows' = rows
      BY <2>4 DEF WriteTemp, Rename, WriteFails, ListForClear, UnlinkForClear, dbVars
    <3>2. QED BY <1>0, <3>1
  <2>5. QED BY <1>5, <2>1, <2>2, <2>3, <2>4 DEF WriterStep
<1>6. QED BY <1>1, <1>2, <1>3, <1>4, <1>5 DEF Next, Alive

\* A pane that is new has no chunks until its writer writes.
LEMMA FreshRowsNext ==
  ASSUME Types, Own, QueuesOK, FreshRows, [Next]_vars
  PROVE  FreshRows'
<1> SUFFICES ASSUME NEW p \in Procs, Starting(p)', FreshStart(p)', NEW d \in rows'
             PROVE  d.pane # ui'[p].row
  BY DEF FreshRows
<1>1. CASE Starting(p) /\ ui'[p] = ui[p] /\ tabs'[p] = tabs[p]
  <2>1. FreshStart(p)
    BY <1>1 DEF FreshStart
  <2>2. CASE \E c \in rows : c.pane = d.pane
    BY <1>1, <2>1, <2>2 DEF FreshRows
  <2>3. ASSUME NEW s \in 1..MaxSessions, Alive(s), d.pane = sessions[s]
        PROVE  d.pane # ui[p].row
    <3>1. PICK i \in DOMAIN tabs[held[s]] : tabs[held[s]][i].session = s
      BY <2>3 DEF Own, HeldOK
    <3>2. sessions[s] = tabs[held[s]][i].row
      BY <2>3, <3>1, AliveFacts, TabWriter
    <3>3. StartOK(p)
      BY <1>1 DEF Own, StartsOK
    <3>4. tabs[held[s]][i].row # ui[p].row
      BY <2>1, <2>3, <3>1, <3>3, AliveFacts DEF StartOK
    <3>5. QED BY <2>3, <3>2, <3>4
  <2>4. QED BY <1>1, <2>2, <2>3, RowsOnly
<1>2. CASE LaunchFresh(p) \/ NewTab(p) \/ \E i \in 1..Len(tabs[p]) : RestartPane(p, i)
  <2>1. Begins(p)
    BY <1>2, BeginsWhen
  <2>2. PICK at, r : /\ BeginRows(p, at, r) /\ BeginsFor(p, at, r)
                     /\ UNCHANGED <<rows, tabs>>
    BY <2>1 DEF Begins
  <2>3. Begun(p, at, r)
    BY <2>2, BeginFacts
  <2>4. ui'[p].at = at /\ ui'[p].row = BegunRow(r)
    BY <2>3 DEF Begun
  <2>5. at = Len(tabs[p]) + 1
    BY <2>2, <2>4 DEF FreshStart
  <2>6. r = 0
    BY <2>2, <2>5 DEF BeginsFor, Types, ProcTypes
  <2>7. BegunRow(r) = panes + 1
    BY <2>3, <2>6 DEF Begun
  <2>8. d.pane \in 1..panes /\ panes \in Nat
    BY <2>2 DEF Types, DbTypes
  <2>9. QED BY <2>4, <2>7, <2>8
<1>3. QED BY <1>1, <1>2, StartsOnly

\* The files of a session hold its pane's blocks.
LEMMA FilesOwnNext ==
  ASSUME Types, Own, QueuesOK, FilesOwn, [Next]_vars
  PROVE  FilesOwn'
<1>0. /\ \A x \in DOMAIN files : x[1] \in Sessions /\ files[x] \in 1..Len(sealedIn)
      /\ \A s \in Sessions : sessions'[s] = sessions[s]
      /\ \A b \in 1..Len(sealedIn) : sealedIn'[b] = sealedIn[b]
  BY SessionsStay, SealedStay DEF SealedGrows, Types, FileTypes
<1>1. ASSUME NEW x \in DOMAIN files, NEW g, g[x] = files[x]
      PROVE  sealedIn'[g[x]] = sessions'[x[1]]
  BY <1>0, <1>1 DEF FilesOwn
<1>2. ASSUME DOMAIN files' \subseteq DOMAIN files,
             \A x \in DOMAIN files' : files'[x] = files[x]
      PROVE  FilesOwn'
  BY <1>1, <1>2 DEF FilesOwn
<1>3. ASSUME files' = files PROVE FilesOwn'
  BY <1>2, <1>3
<1>4. ASSUME NEW path, Unfiled(path) PROVE FilesOwn'
  BY <1>2, <1>4 DEF Unfiled
<1>5. CASE UNCHANGED vars
  BY <1>3, <1>5 DEF vars, diskVars
<1>6. ASSUME NEW p \in Procs, UserStep(p) \/ UiEnds(p) \/ Crash(p) \/ GcStep(p)
      PROVE  FilesOwn'
  <2>1. CASE DeleteFile(p)
    BY <1>4, <2>1, UnlinkedFacts DEF DeleteFile
  <2>2. QED BY <1>3, <1>6, <2>1, FilesStay
<1>7. ASSUME NEW s \in 1..Len(sessions), Alive(s), WriterStep(s) PROVE FilesOwn'
  <2>0. s \in 1..MaxSessions /\ s \in Sessions /\ writer[s].row = sessions[s]
    <3>1. s \in 1..MaxSessions
      BY StoreAssumption DEF Types, DbTypes
    <3>2. QED BY <1>7, <3>1 DEF QueuesOK, QueueOK, Sessions
  <2>1. CASE Rename(s)
    <3>1. CASE Filing(s)
      <4>1. sealedIn[writer[s].q[1]] = sessions[s] /\ writer[s].q[1] \in 1..Len(sealedIn)
        BY <2>0, <3>1, HeadFacts DEF Filing
      <4>2. sealedIn'[files'[Here(s)]] = sessions'[s]
        BY <1>0, <2>0, <3>1, <4>1 DEF Filing
      <4>3. Here(s)[1] = s
        BY DEF Here
      <4>4. QED BY <1>1, <3>1, <4>2, <4>3 DEF Filing, FilesOwn
    <3>2. QED BY <1>3, <2>0, <2>1, <3>1, RenameFacts
  <2>2. CASE UnlinkForClear(s)
    BY <1>3, <1>4, <2>0, <2>2, UnlinkFacts DEF NoneLeft, Unlinks
  <2>3. QED BY <1>3, <1>7, <2>1, <2>2, WriterFilesStay
<1>8. QED BY <1>5, <1>6, <1>7 DEF Next, Alive

\* A pane that a step begins a session for is not watched.
LEMMA StartsUnwatched ==
  ASSUME Types, Own, CollectorsOK, GcStarts, GcDead, ~Can("hasty"), [Next]_vars,
         NEW p \in Procs, NEW q \in Procs, Starting(q)'
  PROVE  ui'[q].row \notin Watched(p)
<1>0. Watched(p) \subseteq 1..panes /\ panes \in Nat
  BY DEF GcDead, Types, DbTypes
<1>1. CASE Starting(q) /\ ui'[q] = ui[q]
  BY <1>1 DEF GcDead
<1>2. CASE LaunchFresh(q) \/ NewTab(q)
  <2>1. PICK at : BeginRows(q, at, 0)
    BY <1>2 DEF LaunchFresh, NewTab
  <2>2. ui \in [Procs -> UiType]
    BY DEF Types, ProcTypes
  <2>3. ui'[q].row = panes + 1
    BY <2>1, <2>2 DEF BeginRows
  <2>4. QED BY <1>0, <2>3
<1>3. ASSUME NEW i \in 1..Len(tabs[q]), RestartPane(q, i) PROVE Watched(p) = {}
  <2>1. ~Collecting
    BY <1>3 DEF RestartPane, Calm
  <2>2. gc[p].pc = "off"
    BY <2>1 DEF Collecting
  <2>3. QED BY <2>2 DEF GcStarts, BlankGc, Watched
<1>4. QED BY <1>1, <1>2, <1>3, StartsOnly

\* A watched pane gets no session, and its dead sessions stay dead.
LEMMA WatchedStay ==
  ASSUME Types, Own, CollectorsOK, GcStarts, GcDead, ~Can("hasty"), [Next]_vars,
         NEW p \in Procs, NEW r \in Watched(p)
  PROVE  /\ SessionsOf(r)' = SessionsOf(r)
         /\ (\A s \in SessionsOf(r) : ~Alive(s)) => \A s \in SessionsOf(r) : ~Alive(s)'
<1>1. SessionsOf(r)' = SessionsOf(r)
  <2>1. CASE sessions' = sessions
    BY <2>1 DEF SessionsOf, Sessions
  <2>2. ASSUME NEW q \in Procs, Begins(q) PROVE SessionsOf(r)' = SessionsOf(r)
    <3>1. PICK at, x : BeginRows(q, at, x) /\ BeginsFor(q, at, x)
      BY <2>2 DEF Begins
    <3>2. Begun(q, at, x)
      BY <3>1, BeginFacts
    <3>3. ui'[q].op = "start" /\ ui'[q].row = BegunRow(x)
      BY <3>2 DEF Begun
    <3>4. r # BegunRow(x)
      BY <3>3, StartsUnwatched DEF Starting
    <3>5. QED BY <3>2, <3>4 DEF Begun
  <2>3. QED BY <2>1, <2>2, SessionsMove
<1>2. ASSUME NEW s \in SessionsOf(r), ~Alive(s), Alive(s)' PROVE FALSE
  <2>1. s \in 1..MaxSessions
    BY StoreAssumption DEF SessionsOf, Sessions, Types, DbTypes
  <2>2. PICK q \in Procs : ui[q].session = s /\ Starting(q)
    BY <1>2, <2>1, AliveOnly
  <2>3. ui[q].session \in SessionsOf(ui[q].row)
    BY <2>2 DEF Own, StartsOK, StartOK
  <2>4. ui[q].row = r
    BY <2>2, <2>3 DEF SessionsOf
  <2>5. QED BY <2>2, <2>4 DEF GcDead
<1>3. QED BY <1>1, <1>2

\* A lock that is free is of a row with no session alive, if it is the latest's.
LEMMA FreeIsDead ==
  ASSUME Types, Own, NEW r, NEW x \in SessionsOf(r), held[x] = "free",
         \A s \in SessionsOf(r) : s <= x
  PROVE  \A s \in SessionsOf(r) : ~Alive(s)
<1> SUFFICES ASSUME NEW s \in SessionsOf(r), Alive(s) PROVE FALSE
  OBVIOUS
<1>1. /\ s \in 1..MaxSessions /\ s \in Nat /\ x \in Nat /\ s <= x
      /\ "free" \notin Procs /\ held[s] \in Procs
  BY StoreAssumption DEF SessionsOf, Sessions, Types, DbTypes, Alive
<1>2. PICK i \in DOMAIN tabs[held[s]] : tabs[held[s]][i].session = s
  BY <1>1 DEF Own, HeldOK
<1>3. TabOK(held[s], i) /\ s # 0
  BY <1>1, <1>2 DEF Own, TabsOK
<1>4. s \in SessionsOf(tabs[held[s]][i].row) /\
      \A t \in SessionsOf(tabs[held[s]][i].row) : t <= s
  BY <1>2, <1>3 DEF TabOK
<1>5. tabs[held[s]][i].row = r
  BY <1>4 DEF SessionsOf
<1>6. x = s
  BY <1>1, <1>4, <1>5
<1>7. QED BY <1>1, <1>6

GcDeadOf(p) ==
  /\ \A r \in DOMAIN gc[p].latest :
       gc[p].latest[r] \in SessionsOf(r) /\ \A s \in SessionsOf(r) : s <= gc[p].latest[r]
  /\ \A r \in gc[p].dead : \A s \in SessionsOf(r) : ~Alive(s)

\* A pane found dead has no session alive as long as the collector works.
LEMMA GcDeadStays ==
  ASSUME Types, Own, CollectorsOK, GcStarts, GcDead, ~Can("hasty"), [Next]_vars,
         NEW p \in Procs, DOMAIN gc'[p].latest \subseteq DOMAIN gc[p].latest,
         \A r \in DOMAIN gc'[p].latest : gc'[p].latest[r] = gc[p].latest[r],
         \A r \in gc'[p].dead \ gc[p].dead :
           r \in DOMAIN gc[p].latest /\ \A s \in SessionsOf(r) : ~Alive(s)
  PROVE  Watched(p)' \subseteq Watched(p) /\ GcDeadOf(p)'
<1>1. Watched(p)' \subseteq Watched(p)
  BY DEF Watched
<1>2. \A r \in DOMAIN gc'[p].latest :
        /\ gc'[p].latest[r] \in SessionsOf(r)'
        /\ \A s \in SessionsOf(r)' : s <= gc'[p].latest[r]
  <2> TAKE r \in DOMAIN gc'[p].latest
  <2>1. SessionsOf(r)' = SessionsOf(r)
    BY WatchedStay DEF Watched
  <2>2. /\ gc[p].latest[r] \in SessionsOf(r)
        /\ \A s \in SessionsOf(r) : s <= gc[p].latest[r]
    BY DEF GcDead
  <2>3. QED BY <2>1, <2>2
<1>3. \A r \in gc'[p].dead : \A s \in SessionsOf(r)' : ~Alive(s)'
  <2> TAKE r \in gc'[p].dead
  <2>1. r \in Watched(p) /\ \A s \in SessionsOf(r) : ~Alive(s)
    BY DEF GcDead, Watched
  <2>2. SessionsOf(r)' = SessionsOf(r) /\ \A s \in SessionsOf(r) : ~Alive(s)'
    BY <2>1, WatchedStay
  <2>3. QED BY <2>2
<1>4. QED BY <1>1, <1>2, <1>3 DEF GcDeadOf

\* A collector that has seen nothing watches no pane.
LEMMA GcDeadBlank ==
  ASSUME NEW p \in Procs, BlankGc(gc[p]) PROVE Watched(p) = {} /\ GcDeadOf(p)
BY DEF BlankGc, Watched, GcDeadOf

\* What a collector lists.
LEMMA GcDeadLists ==
  ASSUME Types, Own, CollectorsOK, GcStarts, FreshRows, NEW p \in Procs, ListChunks(p),
         GcBecomes(p, "probe", rows, LatestOfSeen, gc[p].dead, gc[p].probing, gc[p].todo)
  PROVE  /\ Watched(p)' \subseteq 1..panes /\ GcDeadOf(p)'
         /\ \A q \in Procs : Starting(q) => ui[q].row \notin Watched(p)'
<1>0. gc[p].pc = "list" /\ UNCHANGED <<sessions, panes, held>> /\ BlankGc(gc[p])
  BY DEF ListChunks, dbVars, GcStarts
<1>1. gc'[p].dead = {} /\ gc'[p].latest = LatestOfSeen
  BY <1>0 DEF GcBecomes, BlankGc
<1>2. DOMAIN LatestOfSeen = {c.pane : c \in rows}
  BY DEF LatestOfSeen
<1>3. Watched(p)' = {c.pane : c \in rows}
  BY <1>1, <1>2 DEF Watched
<1>4. {c.pane : c \in rows} \subseteq 1..panes
  BY DEF Types, DbTypes
<1>5. ASSUME NEW q \in Procs, Starting(q) PROVE ui[q].row \notin Watched(p)'
  <2>1. FreshStart(q)
    BY <1>0, <1>5 DEF CollectorsOK, Collects
  <2>2. QED BY <1>3, <1>5, <2>1 DEF FreshRows
<1>6. ASSUME NEW c \in rows
      PROVE  /\ LatestOfSeen[c.pane] \in SessionsOf(c.pane)
             /\ \A s \in SessionsOf(c.pane) : s <= LatestOfSeen[c.pane]
  <2>1. c.session \in SessionsOf(c.pane)
    BY DEF Types, DbTypes, SessionsOf
  <2>2. Latest(c.pane) \in SessionsOf(c.pane) /\ \A s \in SessionsOf(c.pane) : s <= Latest(c.pane)
    BY <2>1, LatestFacts DEF Types
  <2>3. LatestOfSeen[c.pane] = Latest(c.pane)
    BY DEF LatestOfSeen
  <2>4. QED BY <2>2, <2>3
<1>7. \A r : SessionsOf(r)' = SessionsOf(r)
  BY <1>0 DEF SessionsOf, Sessions
<1>8. GcDeadOf(p)'
  BY <1>1, <1>2, <1>6, <1>7 DEF GcDeadOf
<1>9. QED BY <1>3, <1>4, <1>5, <1>8

\* A pane forgotten leaves the others.
LEMMA ForgetFacts ==
  ASSUME NEW f, NEW r
  PROVE  DOMAIN Forget(f, r) \subseteq DOMAIN f /\ \A x \in DOMAIN Forget(f, r) : Forget(f, r)[x] = f[x]
BY DEF Forget

GcDeadFor(p) ==
  /\ Watched(p) \subseteq 1..panes /\ GcDeadOf(p)
  /\ \A q \in Procs : Starting(q) => ui[q].row \notin Watched(p)

\* A collector that watches no more panes than before is still right about
\* them.
LEMMA GcDeadKeeps ==
  ASSUME Types, Own, CollectorsOK, GcStarts, GcDead, ~Can("hasty"), [Next]_vars,
         NEW p \in Procs, Watched(p)' \subseteq Watched(p), GcDeadOf(p)'
  PROVE  GcDeadFor(p)'
<1>1. Watched(p) \subseteq 1..panes /\ panes \in Nat /\ panes' \in Nat /\ panes <= panes'
  BY SessionsStay DEF GcDead, Types, DbTypes
<1>2. Watched(p)' \subseteq 1..panes'
  BY <1>1
<1>3. ASSUME NEW q \in Procs, Starting(q)' PROVE ui'[q].row \notin Watched(p)'
  BY <1>3, StartsUnwatched
<1>4. QED BY <1>2, <1>3 DEF GcDeadFor

\* What a collector takes for dead is dead, and stays dead while it works.
LEMMA GcDeadNext ==
  ASSUME Types, Own, QueuesOK, CollectorsOK, GcStarts, GcDead, FreshRows,
         ~Can("hasty"), [Next]_vars
  PROVE  GcDead'
<1> SUFFICES ASSUME NEW p \in Procs PROVE GcDeadFor(p)'
  <2>1. \A p \in Procs : GcDeadFor(p)'
    OBVIOUS
  <2>2. QED BY <2>1 DEF GcDead, GcDeadFor, GcDeadOf
<1>1. ASSUME NEW latest, gc'[p].latest = latest, gc'[p].dead = gc[p].dead,
             DOMAIN latest \subseteq DOMAIN gc[p].latest,
             \A r \in DOMAIN latest : latest[r] = gc[p].latest[r]
      PROVE  GcDeadFor(p)'
  BY <1>1, GcDeadStays, GcDeadKeeps
<1>2. CASE gc'[p] = gc[p]
  BY <1>1, <1>2
<1>3. ASSUME gc'[p] \in {NoGc, [NoGc EXCEPT !.pc = "list"]} PROVE GcDeadFor(p)'
  <2>1. BlankGc(gc'[p])
    BY <1>3, BlankStarts
  <2>2. Watched(p)' = {} /\ GcDeadOf(p)'
    BY <2>1 DEF BlankGc, Watched, GcDeadOf
  <2>3. QED BY <2>2, GcDeadKeeps
<1>4. CASE GcStep(p)
  <2>0. GcGoes(p) /\ UNCHANGED <<sessions, panes, ui>>
    BY <1>4, GcGoesWhen, CollectorAlive
  <2>1. CASE gc'[p] = NoGc
    BY <1>3, <2>1
  <2>2. CASE /\ ListChunks(p)
             /\ GcBecomes(p, "probe", rows, LatestOfSeen, gc[p].dead, gc[p].probing, gc[p].todo)
    <3>1. /\ Watched(p)' \subseteq 1..panes /\ GcDeadOf(p)'
          /\ \A q \in Procs : Starting(q) => ui[q].row \notin Watched(p)'
      BY <2>2, GcDeadLists
    <3>2. QED BY <2>0, <3>1 DEF GcDeadFor, Starting
  <2>3. ASSUME NEW pc, NEW seen, NEW probing, NEW todo,
               GcBecomes(p, pc, seen, gc[p].latest, gc[p].dead, probing, todo)
        PROVE  GcDeadFor(p)'
    BY <1>1, <2>3 DEF GcBecomes
  <2>4. ASSUME NEW todo, Chosen(p, todo) PROVE GcDeadFor(p)'
    BY <2>3, <2>4 DEF Chosen
  <2>5. ASSUME NEW r \in Unprobed(p), NEW pc, NEW seen, NEW probing, NEW todo,
               GcBecomes(p, pc, seen, Forget(gc[p].latest, r), gc[p].dead, probing, todo)
        PROVE  GcDeadFor(p)'
    BY <1>1, <2>5, ForgetFacts DEF GcBecomes
  <2>6. ASSUME NEW r \in Unprobed(p), ProbeFree(p, r),
               GcBecomes(p, "probe", gc[p].rows, Forget(gc[p].latest, r), gc[p].dead \cup {r},
                         gc[p].latest[r], gc[p].todo)
        PROVE  GcDeadFor(p)'
    <3>1. held[gc[p].latest[r]] = "free" /\ r \in DOMAIN gc[p].latest
      BY <2>6 DEF ProbeFree, Unprobed
    <3>2. /\ gc[p].latest[r] \in SessionsOf(r)
          /\ \A s \in SessionsOf(r) : s <= gc[p].latest[r]
      BY <3>1 DEF GcDead
    <3>3. \A s \in SessionsOf(r) : ~Alive(s)
      BY <3>1, <3>2, FreeIsDead
    <3>4. /\ gc'[p].latest = Forget(gc[p].latest, r) /\ gc'[p].dead = gc[p].dead \cup {r}
      BY <2>6 DEF GcBecomes
    <3>5. Watched(p)' \subseteq Watched(p) /\ GcDeadOf(p)'
      BY <3>1, <3>3, <3>4, ForgetFacts, GcDeadStays
    <3>6. QED BY <3>5, GcDeadKeeps
  <2>7. QED BY <1>2, <2>0, <2>1, <2>2, <2>3, <2>4, <2>5, <2>6 DEF GcGoes
<1>5. QED BY <1>2, <1>3, <1>4, GcMoves

-----------------------------------------------------------------------------
\* The collector's invariant

\* At first nothing is owned or queued.
LEMMA InitFacts ==
  ASSUME Init
  PROVE  Types /\ Own /\ QueuesOK
<1>0. /\ MaxSessions \in Nat /\ LinesOf \in Seq(Nat) /\ "free" \notin Procs /\ "probe" \notin Procs
      /\ Len(LinesOf) \in Nat
  BY StoreAssumption
<1>1. DbTypes
  BY <1>0, FS_EmptySet DEF Init, DbTypes, Sessions
<1>2. IsGc(NoGc)
  BY <1>0, NoGcType
<1>3. NoWriter \in WriterType /\ NoOp \in UiType /\ <<>> \in Seq(TabType)
  BY DEF NoWriter, WriterType, NoOp, UiType
<1>4. ProcTypes
  BY <1>2, <1>3 DEF Init, ProcTypes
<1>5. FileTypes
  BY <1>0 DEF Init, FileTypes
<1>6. \A s \in 1..MaxSessions : ~Alive(s) /\ writer[s] = NoWriter
  BY <1>0 DEF Init, Alive
<1>7. \A p \in Procs : DOMAIN tabs[p] = {} /\ gc[p].probing = 0 /\ ui[p].op = "idle"
  BY DEF Init, NoGc, NoOp
<1>8. Own
  BY <1>6, <1>7 DEF Init, Own, TabsOK, HeldOK, RowsApart, LayoutOK, StartsOK, Starting, ClosesOK,
                    ProbesOK
<1>9. QueuesOK
  BY <1>6 DEF QueuesOK, QueueOK, NoWriter
<1>10. QED BY <1>1, <1>4, <1>5, <1>8, <1>9 DEF Types

\* The collectors' invariant holds at first.
LEMMA GcInvInit == ASSUME Init PROVE GcInv
<1>1. \A p \in Procs : gc[p] = NoGc /\ ui[p].op = "idle"
  BY DEF Init, NoOp
<1>2. \A p \in Procs : BlankGc(gc[p]) /\ DOMAIN gc[p].todo = {}
  BY <1>1, BlankStarts
<1>3. CollectorsOK /\ GcStarts /\ GcSeen /\ FreshRows
  BY <1>1, <1>2 DEF CollectorsOK, Collects, NoGc, GcStarts, GcSeen, BlankGc, FreshRows, Starting
<1>4. GcDead
  BY <1>1, <1>2, GcDeadBlank DEF GcDead, GcDeadOf, Starting
<1>5. FilesOwn
  BY DEF Init, FilesOwn
<1>6. QED BY <1>3, <1>4, <1>5, InitFacts DEF GcInv

\* Every step keeps it.
LEMMA GcInvNext ==
  ASSUME ~Can("hasty"), ~Can("overlap"), ~Can("dual"), GcInv, [Next]_vars
  PROVE  GcInv'
<1> USE DEF GcInv
<1>1. Types' /\ Own' /\ QueuesOK'
  BY TypesNext, OwnNext, QueuesNext
<1>2. CollectorsOK' /\ GcStarts' /\ GcSeen'
  BY CollectorsNext, GcStartsNext, GcSeenNext
<1>3. GcDead' /\ FreshRows' /\ FilesOwn'
  BY GcDeadNext, FreshRowsNext, FilesOwnNext
<1>4. QED BY <1>1, <1>2, <1>3

\* A block is collected only with its file.
LEMMA CollectedOnly ==
  ASSUME Types, [Next]_vars
  PROVE  collected' = collected \/ \E p \in Procs : DeleteFile(p)
<1>1. CASE UNCHANGED vars
  BY <1>1 DEF vars, ghostVars
<1>2. ASSUME NEW p \in Procs, UserStep(p) PROVE collected' = collected
  <2>1. CASE LaunchRestored(p) \/ LaunchFresh(p) \/ NewTab(p) \/ SaveLayout(p) \/ BeginQuit(p)
    BY <2>1 DEF LaunchRestored, LaunchFresh, NewTab, SaveLayout, BeginQuit, ghostVars
  <2>2. ASSUME NEW i \in 1..Len(tabs[p]),
               RestartPane(p, i) \/ SealBlock(p, i) \/ ClearScrollback(p, i) \/ CloseTab(p, i)
        PROVE  collected' = collected
    BY <2>2 DEF RestartPane, SealBlock, ClearScrollback, CloseTab, ghostVars
  <2>3. QED BY <1>2, <2>1, <2>2 DEF UserStep
<1>3. ASSUME NEW p \in Procs, UiEnds(p) \/ Crash(p) PROVE collected' = collected
  BY <1>3 DEF UiEnds, TakeLock, EndClose, EndQuit, Crash, ghostVars
<1>4. ASSUME NEW p \in Procs, GcStep(p) PROVE collected' = collected \/ DeleteFile(p)
  BY <1>4, CollectorTakes
<1>5. ASSUME NEW s, WriterStep(s) PROVE collected' = collected
  BY <1>5, WriterBlocksStay
<1>6. QED BY <1>1, <1>2, <1>3, <1>4, <1>5 DEF Next

\* A collection never takes a block of a pane that a process has open and live:
\* for any number of processes, panes and sessions, if one collector works at a
\* time and no dead pane is restarted, cleared or closed while it does.
THEOREM CollectorSparesTheLiving ==
  ASSUME ~Can("hasty"), ~Can("overlap"), ~Can("dual")
  PROVE  Spec => CollectsNoneAlive
<1> DEFINE Spares == \A b \in collected' \ collected :
                       \A p \in Procs : \A i \in DOMAIN tabs[p] :
                         tabs[p][i].live => tabs[p][i].row # sealedIn[b]
<1>1. Init => GcInv
  BY GcInvInit
<1>2. GcInv /\ [Next]_vars => GcInv'
  BY GcInvNext
<1>3. GcInv /\ [Next]_vars => Spares
  <2> SUFFICES ASSUME GcInv, [Next]_vars, NEW b \in collected' \ collected, NEW q \in Procs,
                      NEW i \in DOMAIN tabs[q], tabs[q][i].live, tabs[q][i].row = sealedIn[b]
               PROVE  FALSE
    OBVIOUS
  <2>1. PICK p \in Procs : DeleteFile(p)
    BY CollectedOnly DEF GcInv
  <2>2. PICK c : c = Head(gc[p].todo)
    OBVIOUS
  <2>3. b = files[Path(c)] /\ Path(c) \in DOMAIN files /\ gc[p].todo # <<>>
    BY <2>1, <2>2 DEF DeleteFile
  <2>4. gc[p].todo \in Seq(ChunkRow)
    BY DEF GcInv, Types, ProcTypes, IsGc
  <2>5. 1 \in DOMAIN gc[p].todo /\ c = gc[p].todo[1]
    BY <2>2, <2>3, <2>4
  <2>6. SeenChunk(c) /\ c.pane \in gc[p].dead
    BY <2>5 DEF GcInv, GcSeen
  <2>7. Path(c)[1] = c.session
    BY DEF Path
  <2>8. sealedIn[b] = c.pane
    BY <2>3, <2>6, <2>7 DEF GcInv, FilesOwn, SeenChunk
  <2>9. \A s \in SessionsOf(c.pane) : ~Alive(s)
    BY <2>6 DEF GcInv, GcDead
  <2>10. c.pane # 0
    BY <2>6 DEF GcInv, GcDead, Watched
  <2>11. TabOK(q, i)
    BY DEF GcInv, Own, TabsOK
  <2>12. tabs[q][i].session # 0
    BY <2>8, <2>10, <2>11 DEF TabOK
  <2>13. tabs[q][i].session \in SessionsOf(c.pane) /\ Alive(tabs[q][i].session)
    BY <2>8, <2>11, <2>12 DEF TabOK, Alive
  <2>14. QED BY <2>9, <2>13
<1>4. QED BY <1>1, <1>2, <1>3, PTL DEF Spec, CollectsNoneAlive

-----------------------------------------------------------------------------
\* A pane's blocks pass through one writer

\* A pane has at most one session alive.
LEMMA AliveApart ==
  ASSUME Types, Own, NEW s \in 1..MaxSessions, NEW t \in 1..MaxSessions,
         Alive(s), Alive(t), sessions[s] = sessions[t]
  PROVE  s = t
<1>1. ASSUME NEW x \in 1..MaxSessions, Alive(x)
      PROVE  x \in SessionsOf(sessions[x]) /\ \A y \in SessionsOf(sessions[x]) : y <= x
  <2>1. PICK i \in DOMAIN tabs[held[x]] : tabs[held[x]][i].session = x
    BY <1>1 DEF Own, HeldOK
  <2>2. TabOK(held[x], i) /\ x # 0
    BY <1>1, <2>1, AliveFacts DEF Own, TabsOK
  <2>3. /\ x \in SessionsOf(tabs[held[x]][i].row)
        /\ \A y \in SessionsOf(tabs[held[x]][i].row) : y <= x
    BY <2>1, <2>2 DEF TabOK
  <2>4. sessions[x] = tabs[held[x]][i].row
    BY <2>3 DEF SessionsOf
  <2>5. QED BY <2>3, <2>4
<1>2. /\ s \in SessionsOf(sessions[s]) /\ t \in SessionsOf(sessions[s])
      /\ s <= t /\ t <= s
  BY <1>1
<1>3. QED BY <1>2

\* A queue with something in it is of a live session.
LEMMA QueueAlive ==
  ASSUME Types, Own, QueuesOK, NEW s \in 1..MaxSessions
  PROVE  /\ writer[s].q # <<>> => Alive(s)
         /\ \A i \in DOMAIN writer[s].q : Alive(s)
         /\ writer[s].pc # "idle" => Alive(s)
         /\ Alive(s) => writer[s].row = sessions[s] /\ s \in Sessions /\ sessions[s] \in 1..panes
<1>1. QueueOK(s)
  BY DEF QueuesOK
<1>2. DOMAIN <<>> = {}
  OBVIOUS
<1>3. QED BY <1>1, <1>2, AliveFacts DEF QueueOK, Types, DbTypes

\* A pane has at most one writer with anything to do.
LEMMA WritersApart ==
  ASSUME Types, Own, QueuesOK, NEW s \in 1..MaxSessions, NEW t \in 1..MaxSessions,
         Alive(s), writer[t].q # <<>>, writer[t].row = sessions[s]
  PROVE  s = t
BY QueueAlive, AliveApart

\* A block waits in one place of one queue.
LEMMA QueuedOnce ==
  ASSUME Types, Own, QueuesOK, NEW s \in 1..MaxSessions, NEW t \in 1..MaxSessions,
         NEW i \in DOMAIN writer[s].q, NEW j \in DOMAIN writer[t].q,
         writer[s].q[i] # 0, writer[s].q[i] = writer[t].q[j]
  PROVE  s = t /\ i = j
<1>1. /\ Alive(s) /\ Alive(t) /\ QueueOK(s) /\ QueueOK(t)
      /\ writer[s].row = sessions[s] /\ writer[t].row = sessions[t]
  BY QueueAlive DEF QueuesOK
<1>2. sealedIn[writer[s].q[i]] = writer[s].row /\ sealedIn[writer[t].q[j]] = writer[t].row
  BY <1>1 DEF QueueOK
<1>3. s = t
  BY <1>1, <1>2, AliveApart
<1>4. /\ i < j => writer[s].q[i] < writer[s].q[j]
      /\ j < i => writer[s].q[j] < writer[s].q[i]
  BY <1>1, <1>3 DEF QueueOK
<1>5. writer[s].q[i] \in Nat /\ i \in Nat /\ j \in Nat
  <2>1. PICK q \in Seq(Nat) : q = writer[s].q
    BY WriterRecord
  <2>2. i \in DOMAIN q /\ j \in DOMAIN q
    BY <1>3, <2>1
  <2>3. q[i] \in Nat /\ i \in Nat /\ j \in Nat
    BY <2>2
  <2>4. QED BY <2>1, <2>3
<1>6. i = j
  BY <1>3, <1>4, <1>5
<1>7. QED BY <1>3, <1>6

\* The tab of a pane with a live session is that session's.
LEMMA TabOfPane ==
  ASSUME Types, Own, NEW s \in 1..MaxSessions, Alive(s), NEW p \in Procs,
         NEW i \in DOMAIN tabs[p], tabs[p][i].row = sessions[s]
  PROVE  held[s] = p /\ tabs[p][i].session = s
<1>1. PICK j \in DOMAIN tabs[held[s]] : tabs[held[s]][j].session = s
  BY DEF Own, HeldOK
<1>2. held[s] \in Procs /\ s # 0
  BY DEF Alive
<1>3. TabOK(held[s], j)
  BY <1>1, <1>2 DEF Own, TabsOK
<1>4. s \in SessionsOf(tabs[held[s]][j].row)
  BY <1>1, <1>2, <1>3 DEF TabOK
<1>5. tabs[held[s]][j].row = sessions[s] /\ sessions[s] # 0
  BY <1>4 DEF SessionsOf, Types, DbTypes
<1>6. p = held[s] /\ i = j
  BY <1>1, <1>2, <1>5 DEF Own, RowsApart
<1>7. QED BY <1>1, <1>6

\* A pane that a session is begun for has none alive.
LEMMA StartingAlone ==
  ASSUME Types, Own, NEW p \in Procs, Starting(p), NEW s \in 1..MaxSessions, Alive(s)
  PROVE  sessions[s] # ui[p].row
<1> SUFFICES ASSUME sessions[s] = ui[p].row PROVE FALSE
  OBVIOUS
<1>0. StartOK(p)
  BY DEF Own, StartsOK
<1>1. PICK j \in DOMAIN tabs[held[s]] : tabs[held[s]][j].session = s
  BY DEF Own, HeldOK
<1>2. held[s] \in Procs /\ s # 0
  BY DEF Alive
<1>3. TabOK(held[s], j)
  BY <1>1, <1>2 DEF Own, TabsOK
<1>4. tabs[held[s]][j].row = sessions[s]
  BY <1>1, <1>2, <1>3 DEF TabOK, SessionsOf
<1>5. CASE FreshStart(p)
  BY <1>0, <1>2, <1>4, <1>5 DEF StartOK
<1>6. CASE ~FreshStart(p)
  <2>1. ui[p].at \in 1..Len(tabs[p]) /\ tabs[p][ui[p].at].row = ui[p].row /\ ~tabs[p][ui[p].at].live
    BY <1>0, <1>6 DEF StartOK, FreshStart, Types, ProcTypes
  <2>2. ui[p].at \in DOMAIN tabs[p]
    BY <2>1 DEF Types, ProcTypes
  <2>3. tabs[p][ui[p].at].session = s
    BY <2>1, <2>2, TabOfPane
  <2>4. TabOK(p, ui[p].at)
    BY <2>2 DEF Own, TabsOK
  <2>5. QED BY <1>2, <2>1, <2>3, <2>4 DEF TabOK
<1>7. QED BY <1>5, <1>6

-----------------------------------------------------------------------------
\* What a step does to the disk and to the queues

\* What a writer's step does to files, rows and queue.
LEMMA WriterShapes ==
  ASSUME Types, Own, QueuesOK, CalmUser, NEW s \in 1..MaxSessions, Alive(s), WriterStep(s)
  PROVE  WriterShape(s)
<1>0. Writes(s)
  BY WriterQuiet, WriterBlocksStay DEF Writes, Quiet
<1>q. QueueOK(s)
  BY DEF QueuesOK
<1>1. CASE WriteTemp(s)
  <2>1. /\ UNCHANGED <<files, rows, durable>> /\ writer[s].pc = "idle" /\ writer[s].q # <<>>
        /\ Head(writer[s].q) # 0
    BY <1>1 DEF WriteTemp, W, dbVars, ghostVars
  <2>2. writer[s].q[1] # 0
    BY <2>1, HeadFacts
  <2>3. QED BY <1>0, <1>1, <2>1, <2>2, WriterTemp DEF Temps, WriterShape
<1>f. ASSUME SealFails(s), UNCHANGED <<files, rows, durable>>, writer[s].pc \in {"temp", "renamed"}
      PROVE  WriterShape(s)
  <2>1. writer[s].q # <<>>
    BY <1>f, <1>q DEF QueueOK
  <2>2. QED BY <1>0, <1>f, <2>1, WriterSealFails DEF Fails, WriterShape
<1>2. CASE Rename(s)
  <2>1. UNCHANGED <<rows, durable>> /\ writer[s].pc = "temp"
    BY <1>2 DEF Rename, W, dbVars, ghostVars
  <2>2. CASE Filing(s)
    BY <1>0, <2>1, <2>2 DEF Renames, WriterShape
  <2>3. QED BY <1>2, <1>f, <2>1, <2>2, RenameFacts
<1>3. CASE InsertRow(s)
  <2>1. files' = files /\ writer[s].pc = "renamed"
    BY <1>3 DEF InsertRow, W, diskVars
  <2>2. PICK c : Inserted(s, c)
    BY <1>3, InsertFacts
  <2>3. Inserts(s, c)
    BY <1>0, <1>3, <2>1, <2>2, WriterInserts DEF Inserts
  <2>4. QED BY <2>3 DEF WriterShape
<1>4. CASE InsertChips(s)
  <2>1. UNCHANGED <<files, durable>> /\ writer[s].pc = "rowed"
    BY <1>4 DEF InsertChips, W, diskVars, ghostVars
  <2>2. QED BY <1>0, <1>4, <2>1, ChipFacts, WriterChips DEF Chips, WriterShape
<1>5. CASE WriteFails(s)
  <2>1. /\ SealFails(s) /\ UNCHANGED <<files, rows, durable>>
        /\ writer[s].pc \in {"temp", "renamed"}
    BY <1>5 DEF WriteFails, W, CalmUser, diskVars, dbVars, ghostVars
  <2>2. QED BY <1>f, <2>1
<1>6. CASE ListForClear(s)
  <2>1. /\ UNCHANGED <<files, rows, durable>> /\ writer[s].pc = "idle" /\ writer[s].q # <<>>
        /\ Head(writer[s].q) = 0
    BY <1>6 DEF ListForClear, W, dbVars, diskVars, ghostVars
  <2>2. writer[s].q[1] = 0
    BY <2>1, HeadFacts
  <2>3. QED BY <1>0, <1>6, <2>1, <2>2, WriterLists DEF ListsAll, WriterShape
<1>7. CASE UnlinkForClear(s)
  <2>1. UNCHANGED <<rows, durable>>
    BY <1>7 DEF UnlinkForClear, dbVars, ghostVars
  <2>2. QED BY <1>0, <1>7, <2>1, UnlinkFacts DEF UnlinksOne, UnlinkedAll, WriterShape
<1>8. CASE DeleteForClear(s)
  <2>1. UNCHANGED <<files, durable>>
    BY <1>8 DEF DeleteForClear, diskVars, ghostVars
  <2>2. CASE writer[s].todo = <<>>
    BY <1>0, <1>8, <2>1, <2>2, WriterDeletes DEF Purged, WriterShape
  <2>3. CASE writer[s].todo # <<>>
    BY <1>0, <1>8, <2>1, <2>3, WriterDeletes DEF Purges, WriterShape
  <2>4. QED BY <2>2, <2>3
<1>9. QED BY <1>1, <1>2, <1>3, <1>4, <1>5, <1>6, <1>7, <1>8 DEF WriterStep

\* A clear or a close queues a discard, or the pane has no row.
LEMMA DiscardShape ==
  ASSUME Types, Own, QueuesOK, CalmUser, NEW p \in Procs, NEW i \in 1..Len(tabs[p]),
         ClearScrollback(p, i) \/ CloseTab(p, i)
  PROVE  Rests \/ (tabs[p][i].session # 0 /\ Discards(tabs[p][i].session))
<1>0. i \in DOMAIN tabs[p]
  BY DEF Types, ProcTypes
<1>1. /\ tabs[p][i].live /\ Discard(p, i)
      /\ UNCHANGED <<files, rows, sessions, held, sealedIn, durable, unsettled, collected>>
  BY DEF ClearScrollback, CloseTab, CalmUser, dbVars, diskVars
<1>2. cleared' = cleared \cup SealedUnder(tabs[p][i].row)
  BY <1>1 DEF Discard
<1>3. CASE tabs[p][i].session = 0
  <2>1. writer' = writer
    BY <1>1, <1>3, DiscardFacts
  <2>2. tabs[p][i].row = 0
    BY <1>0, <1>1, <1>3, TabWriter
  <2>3. SealedUnder(tabs[p][i].row) = {}
    BY <2>2 DEF SealedUnder
  <2>4. QED BY <1>1, <1>2, <2>1, <2>3 DEF Rests, SameGhosts, Alive
<1>4. CASE tabs[p][i].session # 0
  <2>1. Queued(tabs[p][i].session, 0)
    BY <1>1, <1>4, DiscardFacts
  <2>2. /\ tabs[p][i].session \in 1..MaxSessions /\ Alive(tabs[p][i].session)
        /\ writer[tabs[p][i].session].row = tabs[p][i].row
    BY <1>0, <1>4, TabWriter
  <2>3. QED BY <1>1, <1>2, <1>4, <2>1, <2>2 DEF Discards
<1>5. QED BY <1>3, <1>4

\* What a user's step does to files, rows and queues.
LEMMA UserShape ==
  ASSUME Types, Own, QueuesOK, CalmUser, NEW p \in Procs, UserStep(p)
  PROVE  Shape
<1>1. CASE LaunchRestored(p) \/ SaveLayout(p) \/ BeginQuit(p)
  BY <1>1, StillWhen DEF Still, Rests, SameGhosts, Alive, ghostVars, Shape
<1>2. CASE LaunchFresh(p) \/ NewTab(p) \/ \E i \in 1..Len(tabs[p]) : RestartPane(p, i)
  <2>1. Begins(p)
    BY <1>2, BeginsWhen
  <2>2. UNCHANGED <<rows, diskVars, held, writer, ghostVars>>
    BY <2>1 DEF Begins
  <2>3. QED BY <2>2 DEF Rests, SameGhosts, Alive, ghostVars, diskVars, Shape
<1>3. ASSUME NEW i \in 1..Len(tabs[p]), SealBlock(p, i) PROVE Shape
  <2>1. /\ UNCHANGED <<files, rows, sessions, held, durable, cleared, unsettled, collected>>
        /\ i \in DOMAIN tabs[p]
    BY <1>3 DEF SealBlock, dbVars, diskVars, Types, ProcTypes
  <2>2. Seals(p, i)
    BY <1>3, <2>1, SealFacts DEF Seals
  <2>3. QED BY <2>2 DEF Shape
<1>4. ASSUME NEW i \in 1..Len(tabs[p]), ClearScrollback(p, i) \/ CloseTab(p, i) PROVE Shape
  BY <1>4, DiscardShape DEF Shape
<1>5. QED BY <1>1, <1>2, <1>3, <1>4 DEF UserStep

\* What taking a lock does to them.
LEMMA WakeShape ==
  ASSUME Types, Own, NEW p \in Procs, TakeLock(p)
  PROVE  Rests \/ Wakes(p)
<1>0. /\ Starting(p) /\ UNCHANGED <<files, rows, sessions>> /\ SameGhosts
      /\ "free" \notin Procs /\ "probe" \notin Procs
  BY StoreAssumption DEF TakeLock, Starting, dbVars, diskVars, ghostVars, SameGhosts
<1>1. PICK got \in BOOLEAN : Locked(p, ui[p].at, got) /\ Resumes(p, got)
  BY ResumeFacts
<1>2. /\ \A s \in 1..MaxSessions : s # ui[p].session => held'[s] = held[s]
      /\ held'[ui[p].session] = IF got THEN p ELSE held[ui[p].session]
      /\ got <=> held[ui[p].session] = "free"
      /\ ui[p].session \in 1..MaxSessions
  BY <1>1 DEF Locked
<1>3. CASE got = FALSE
  <2>1. \A s \in 1..MaxSessions : held'[s] = held[s]
    BY <1>2, <1>3
  <2>2. writer' = writer
    BY <1>1, <1>3 DEF Resumes
  <2>3. QED BY <1>0, <2>1, <2>2 DEF Rests, Alive
<1>4. CASE got = TRUE
  <2>1. ~Alive(ui[p].session)
    BY <1>0, <1>2, <1>4 DEF Alive
  <2>2. \A s \in 1..MaxSessions : s # ui[p].session => (Alive(s)' <=> Alive(s))
    BY <1>2 DEF Alive
  <2>3. QED BY <1>0, <1>1, <1>2, <1>4, <2>1, <2>2 DEF Wakes
<1>5. QED BY <1>3, <1>4

\* What a quit or a crash does to them.
LEMMA LeaveShape ==
  ASSUME Types, Own, QueuesOK, NEW p \in Procs, EndQuit(p) \/ Crash(p)
  PROVE  Leaves(p)
<1>0. Gone(p) /\ UNCHANGED <<files, rows, sessions, sealedIn, durable, collected>>
  BY DEF EndQuit, Crash, dbVars, diskVars, ghostVars
<1>1. \A s \in 1..MaxSessions :
        /\ held[s] = p => writer'[s] = NoWriter /\ ~Alive(s)'
        /\ held[s] # p => writer'[s] = writer[s] /\ (Alive(s)' <=> Alive(s))
  BY <1>0, GoneFacts
<1>2. \A s \in 1..MaxSessions : held[s] = p => s \in Owned(p)
  BY AliveFacts DEF Alive, Owned, Sessions
<1>3. CASE EndQuit(p)
  <2>1. ASSUME NEW s \in 1..MaxSessions, held[s] = p PROVE ~Clears(s)
    <3>1. writer[s].q = <<>>
      BY <1>2, <1>3, <2>1 DEF EndQuit, Drained
    <3>2. DOMAIN <<>> = {}
      OBVIOUS
    <3>3. QED BY <3>1, <3>2 DEF Clears
  <2>2. cleared' = cleared /\ unsettled' = unsettled
    BY <1>3 DEF EndQuit, ghostVars
  <2>3. QED BY <1>0, <1>1, <2>1, <2>2 DEF Leaves
<1>4. CASE Crash(p)
  <2>1. PICK broken : broken = {s \in Owned(p) : \E i \in 1..Len(writer[s].q) : writer[s].q[i] = 0}
    OBVIOUS
  <2>2. PICK lost : lost = UNION {SealedUnder(sessions[s]) : s \in broken}
    OBVIOUS
  <2>3. cleared' = cleared \ lost /\ unsettled' = unsettled \cup lost
    BY <1>4, <2>1, <2>2 DEF Crash
  <2>4. \A s \in 1..MaxSessions : DOMAIN writer[s].q = 1..Len(writer[s].q)
    <3> TAKE s \in 1..MaxSessions
    <3>1. writer[s].q \in Seq(Nat)
      BY WriterRecord
    <3>2. QED BY <3>1
  <2>5. broken = {s \in Owned(p) : Clears(s)} /\ Owned(p) \subseteq 1..MaxSessions
    <3>1. Owned(p) \subseteq 1..MaxSessions
      BY StoreAssumption DEF Owned, Types, DbTypes
    <3>2. QED BY <2>1, <2>4, <3>1 DEF Clears
  <2>6. ASSUME NEW s \in 1..MaxSessions, held[s] = p, Clears(s)
        PROVE  SealedUnder(sessions[s]) \cap cleared' = {}
    <3>1. s \in broken
      BY <1>2, <2>5, <2>6
    <3>2. SealedUnder(sessions[s]) \subseteq lost
      BY <2>2, <3>1
    <3>3. QED BY <2>3, <3>2
  <2>7. ASSUME NEW b \in cleared \ cleared'
        PROVE  \E s \in 1..MaxSessions : held[s] = p /\ Clears(s) /\ b \in SealedUnder(sessions[s])
    <3>1. b \in lost
      BY <2>3
    <3>2. PICK s \in broken : b \in SealedUnder(sessions[s])
      BY <2>2, <3>1
    <3>3. QED BY <2>5, <3>2 DEF Owned
  <2>8. /\ cleared' \subseteq cleared /\ unsettled \subseteq unsettled'
        /\ cleared \subseteq cleared' \cup unsettled'
    BY <2>3
  <2>9. QED BY <1>0, <1>1, <2>6, <2>7, <2>8 DEF Leaves
<1>5. QED BY <1>3, <1>4

\* What a collector's step does to them.
LEMMA CollectorShape ==
  ASSUME Types, Own, NEW p \in Procs, GcStep(p)
  PROVE  Shape
<1>0. /\ \A s \in 1..MaxSessions : Alive(s)' <=> Alive(s)
      /\ UNCHANGED <<writer, sealedIn, sessions, durable, cleared, unsettled>>
  BY CollectorAlive
<1>1. gc[p].todo \in Seq(ChunkRow)
  BY DEF Types, ProcTypes, IsGc
<1>2. ASSUME gc[p].pc = "apply", gc[p].todo # <<>>
      PROVE  Takes(p) /\ Head(gc[p].todo) = gc[p].todo[1]
  BY <1>0, <1>1, <1>2 DEF Takes
<1>3. CASE DeleteFile(p)
  <2>1. PICK x : x = Path(Head(gc[p].todo))
    OBVIOUS
  <2>2. /\ gc[p].pc = "apply" /\ gc[p].todo # <<>> /\ x \in DOMAIN files
        /\ files' = Unlinked(x) /\ collected' = collected \cup {files[x]} /\ rows' = rows
    BY <1>3, <2>1 DEF DeleteFile, dbVars
  <2>3. TakesFile(p, x)
    BY <1>2, <2>1, <2>2, UnlinkedFacts DEF TakesFile
  <2>4. QED BY <2>3 DEF Shape
<1>4. CASE DeleteRow(p)
  <2>1. /\ gc[p].pc = "apply" /\ gc[p].todo # <<>> /\ Path(Head(gc[p].todo)) \notin DOMAIN files
        /\ rows' = {c \in rows : c.id # Head(gc[p].todo).id} /\ UNCHANGED <<files, collected>>
    BY <1>4 DEF DeleteRow, diskVars, ghostVars
  <2>2. TakesRow(p)
    BY <1>2, <1>4, <2>1, GcDeletesRow DEF TakesRow
  <2>3. QED BY <2>2 DEF Shape
<1>5. CASE ~DeleteFile(p) /\ ~DeleteRow(p)
  BY <1>0, <1>5, CollectorTakes DEF Rests, SameGhosts, Shape
<1>6. QED BY <1>3, <1>4, <1>5

\* Every step has one of the shapes.
LEMMA ShapeWhen ==
  ASSUME Types, Own, QueuesOK, CalmUser, [Next]_vars
  PROVE  Shape
<1>1. CASE UNCHANGED vars
  <2>1. UNCHANGED <<files, rows, writer, held>> /\ SameGhosts
    BY <1>1 DEF vars, dbVars, diskVars, ghostVars, SameGhosts
  <2>2. QED BY <2>1 DEF Rests, Alive, Shape
<1>2. ASSUME NEW p \in Procs, EndClose(p) PROVE Shape
  <2>1. /\ UNCHANGED <<files, rows, writer>> /\ SameGhosts
        /\ \A s \in 1..MaxSessions : held'[s] \in {held[s], "free"}
    <3>1. /\ UNCHANGED <<files, rows, writer>> /\ SameGhosts
      BY <1>2 DEF EndClose, dbVars, diskVars, ghostVars, SameGhosts
    <3>2. PICK x : held' = held \/ held' = [held EXCEPT ![x] = "free"]
      BY <1>2 DEF EndClose
    <3>3. held \in [1..MaxSessions -> Procs \cup {"free", "probe"}]
      BY DEF Types, ProcTypes
    <3>4. QED BY <3>1, <3>2, <3>3
  <2>2. QED BY <2>1, StoreAssumption DEF Rests, Alive, Shape
<1>3. ASSUME NEW s \in 1..Len(sessions), Alive(s), WriterStep(s) PROVE Shape
  <2>1. s \in 1..MaxSessions
    BY StoreAssumption DEF Types, DbTypes
  <2>2. QED BY <1>3, <2>1, WriterShapes DEF Shape
<1>4. ASSUME NEW p \in Procs, UserStep(p) \/ UiEnds(p) \/ Crash(p) \/ GcStep(p) PROVE Shape
  <2>1. CASE TakeLock(p)
    BY <2>1, WakeShape DEF Shape
  <2>2. CASE EndQuit(p) \/ Crash(p)
    BY <2>2, LeaveShape DEF Shape
  <2>3. QED BY <1>2, <1>4, <2>1, <2>2, UserShape, CollectorShape DEF UiEnds
<1>5. QED BY <1>1, <1>3, <1>4 DEF Next, Alive

-----------------------------------------------------------------------------
\* What a step does to a queue

Keeps(s) ==
  /\ writer'[s].q = writer[s].q /\ writer'[s].row = writer[s].row
  /\ writer'[s].seq = writer[s].seq
  /\ writer'[s].pc \in {"renamed", "rowed"} <=> writer[s].pc \in {"renamed", "rowed"}
  /\ writer'[s].pc = "rowed" <=> writer[s].pc = "rowed" \/ \E c : Inserts(s, c)
  /\ writer[s].pc = "rowed" => writer'[s].id = writer[s].id

Advances(s) ==
  /\ WriterShape(s) /\ writer[s].q # <<>> /\ writer'[s].q = Tail(writer[s].q)
  /\ writer'[s].pc = "idle" /\ writer'[s].row = writer[s].row
  /\ Len(writer'[s].q) = Len(writer[s].q) - 1 /\ 1 \in DOMAIN writer[s].q
  /\ \A i \in DOMAIN writer'[s].q : /\ i + 1 \in DOMAIN writer[s].q /\ i + 1 # 1
                                    /\ writer'[s].q[i] = writer[s].q[i + 1]
  /\ \A i \in DOMAIN writer[s].q : i # 1 =>
       i - 1 \in DOMAIN writer'[s].q /\ writer'[s].q[i - 1] = writer[s].q[i]

SealsInto(s) ==
  \E p \in Procs : \E i : /\ Seals(p, i) /\ tabs[p][i].session = s
                          /\ Queued(s, Len(sealedIn) + 1)

QueueStep(s) ==
  \/ Keeps(s) \/ Renames(s) \/ Advances(s) \/ writer'[s].q = <<>> \/ Discards(s)
  \/ SealsInto(s)

\* A queue without its head.
LEMMA TailFacts ==
  ASSUME NEW q \in Seq(Nat), q # <<>>
  PROVE  /\ Len(Tail(q)) = Len(q) - 1 /\ 1 \in DOMAIN q
         /\ \A i \in DOMAIN Tail(q) : i + 1 \in DOMAIN q /\ i + 1 # 1 /\ Tail(q)[i] = q[i + 1]
         /\ \A i \in DOMAIN q : i # 1 => i - 1 \in DOMAIN Tail(q) /\ Tail(q)[i - 1] = q[i]
<1>1. /\ Len(Tail(q)) = Len(q) - 1 /\ DOMAIN Tail(q) = 1..(Len(q) - 1) /\ DOMAIN q = 1..Len(q)
      /\ \A i \in 1..(Len(q) - 1) : Tail(q)[i] = q[i + 1]
      /\ Len(q) \in Nat /\ Len(q) # 0
  OBVIOUS
<1>2. \A i \in 2..Len(q) : i - 1 \in 1..(Len(q) - 1) /\ (i - 1) + 1 = i
  BY <1>1
<1>3. \A i \in 2..Len(q) : Tail(q)[i - 1] = q[i]
  BY <1>1, <1>2
<1>4. QED BY <1>1, <1>2, <1>3

\* A writer that drops its head advances.
LEMMA WriterAdvances ==
  ASSUME Types, NEW s \in 1..MaxSessions, WriterShape(s), writer[s].q # <<>>,
         NEW seq, NEW cursor, NEW id, NEW todo,
         WriterBecomes(s, Tail(writer[s].q), "idle", seq, cursor, id, todo)
  PROVE  Advances(s)
<1>1. PICK q \in Seq(Nat) : q = writer[s].q
  BY WriterRecord
<1>2. writer'[s].q = Tail(q) /\ writer'[s].pc = "idle" /\ writer'[s].row = writer[s].row
  BY <1>1 DEF WriterBecomes
<1>3. QED BY <1>1, <1>2, TailFacts DEF Advances

\* A writer keeps its queue, files its head or advances.
LEMMA WriterQueueStep ==
  ASSUME Types, NEW s \in 1..MaxSessions, WriterShape(s)
  PROVE  Keeps(s) \/ Renames(s) \/ Advances(s)
<1>0. ASSUME NEW c, Inserts(s, c) PROVE Keeps(s)
  BY <1>0 DEF Inserts, Keeps, WriterBecomes
<1>1. CASE \E c : Inserts(s, c)
  BY <1>0, <1>1
<1>2. ASSUME NEW pc \in {"temp", "unlink", "purge"}, NEW cursor, NEW id, NEW todo,
             writer[s].pc \notin {"renamed", "rowed"},
             WriterBecomes(s, writer[s].q, pc, writer[s].seq, cursor, id, todo)
      PROVE  Keeps(s)
  <2>1. ASSUME NEW c, Inserts(s, c) PROVE FALSE
    BY <1>2, <2>1 DEF Inserts
  <2>2. QED BY <1>2, <2>1 DEF Keeps, WriterBecomes
<1>3. CASE Temps(s)
  BY <1>2, <1>3 DEF Temps
<1>4. CASE ListsAll(s)
  BY <1>2, <1>4 DEF ListsAll
<1>5. CASE UnlinkedAll(s)
  BY <1>2, <1>5 DEF UnlinkedAll, NoneLeft
<1>6. CASE Purges(s)
  BY <1>2, <1>6 DEF Purges
<1>7. ASSUME NEW i, UnlinksOne(s, i) PROVE Keeps(s)
  <2>1. writer'[s] = writer[s] /\ writer[s].pc = "unlink"
    BY <1>7 DEF UnlinksOne, Unlinks
  <2>2. ASSUME NEW c, Inserts(s, c) PROVE FALSE
    BY <2>1, <2>2 DEF Inserts
  <2>3. QED BY <2>1, <2>2 DEF Keeps
<1>8. CASE Fails(s) \/ Chips(s) \/ Purged(s)
  BY <1>8, WriterAdvances DEF Fails, Chips, Purged
<1>9. QED BY <1>1, <1>3, <1>4, <1>5, <1>6, <1>7, <1>8 DEF WriterShape

\* A writer leaves the other writers alone.
LEMMA WriterLeavesOthers ==
  ASSUME NEW t, WriterShape(t), NEW s \in 1..MaxSessions, s # t
  PROVE  writer'[s] = writer[s]
<1>1. ASSUME NEW i, UnlinksOne(t, i) PROVE writer'[s] = writer[s]
  BY <1>1 DEF UnlinksOne, Unlinks
<1>2. ASSUME NEW c, Inserts(t, c) PROVE writer'[s] = writer[s]
  BY <1>2 DEF Inserts, WriterBecomes
<1>3. QED BY <1>1, <1>2 DEF WriterShape, Temps, Renames, Filing, Fails, Chips, ListsAll, UnlinkedAll,
              NoneLeft, Purges, Purged, WriterBecomes

\* A writer's step changes no other writer.
LEMMA ShapeWriter == ASSUME NEW s, WriterShape(s) PROVE Writes(s)
<1>1. ASSUME NEW i, UnlinksOne(s, i) PROVE Writes(s)
  BY <1>1 DEF UnlinksOne
<1>2. ASSUME NEW c, Inserts(s, c) PROVE Writes(s)
  BY <1>2 DEF Inserts
<1>3. QED BY <1>1, <1>2 DEF WriterShape, Temps, Renames, Fails, Chips, ListsAll, UnlinkedAll,
              Purges, Purged

\* A writer left alone keeps its queue.
LEMMA QueueStays == ASSUME NEW s, writer'[s] = writer[s] PROVE Keeps(s)
<1>1. ASSUME NEW c, Inserts(s, c) PROVE FALSE
  BY <1>1 DEF Inserts, WriterBecomes
<1>2. QED BY <1>1 DEF Keeps

\* What a step can do to a queue.
LEMMA QueueSteps ==
  ASSUME Types, Shape, NEW s \in 1..MaxSessions
  PROVE  QueueStep(s)
<1>1. ASSUME writer'[s] = writer[s] PROVE QueueStep(s)
  BY <1>1, QueueStays DEF QueueStep
<1>2. CASE Rests
  BY <1>1, <1>2 DEF Rests
<1>3. ASSUME NEW p \in Procs, NEW i, Seals(p, i) PROVE QueueStep(s)
  <2>1. PICK x : x = tabs[p][i].session
    OBVIOUS
  <2>2. (x = 0 => writer' = writer) /\ (x # 0 => Queued(x, Len(sealedIn) + 1))
    BY <1>3, <2>1 DEF Seals, Sealed
  <2>3. CASE x = s
    <3>1. Queued(s, Len(sealedIn) + 1)
      BY <2>2, <2>3
    <3>2. QED BY <1>3, <2>1, <2>3, <3>1 DEF QueueStep, SealsInto
  <2>4. CASE x # s
    BY <1>1, <2>2, <2>4 DEF Queued, WriterBecomes
  <2>5. QED BY <2>3, <2>4
<1>4. ASSUME NEW p \in Procs, Wakes(p) PROVE QueueStep(s)
  <2>1. CASE s = ui[p].session
    <3>1. writer'[s] = Resumed(ui[p])
      BY <1>4, <2>1 DEF Wakes, Resumes
    <3>2. QED BY <3>1 DEF Resumed, NoWriter, QueueStep
  <2>2. CASE s # ui[p].session
    BY <1>1, <1>4, <2>2 DEF Wakes, Resumes
  <2>3. QED BY <2>1, <2>2
<1>5. ASSUME NEW p \in Procs, Leaves(p) PROVE QueueStep(s)
  <2>1. writer'[s] = writer[s] \/ writer'[s] = NoWriter
    BY <1>5 DEF Leaves
  <2>2. QED BY <1>1, <2>1 DEF NoWriter, QueueStep
<1>6. ASSUME NEW p \in Procs, (\E x : TakesFile(p, x)) \/ TakesRow(p) PROVE QueueStep(s)
  BY <1>1, <1>6 DEF TakesFile, TakesRow, Takes
<1>7. ASSUME NEW t, Discards(t) PROVE QueueStep(s)
  <2>1. t # s => writer'[s] = writer[s]
    BY <1>7 DEF Discards, Queued, WriterBecomes
  <2>2. QED BY <1>1, <1>7, <2>1 DEF QueueStep
<1>8. ASSUME NEW t, WriterShape(t) PROVE QueueStep(s)
  <2>1. t # s => writer'[s] = writer[s]
    BY <1>8, WriterLeavesOthers
  <2>2. QED BY <1>1, <1>8, <2>1, WriterQueueStep DEF QueueStep
<1>9. QED BY <1>2, <1>3, <1>4, <1>5, <1>6, <1>7, <1>8 DEF Shape

-----------------------------------------------------------------------------
\* Files

\* What a step can do to the files.
LEMMA FilesShape ==
  ASSUME Shape
  PROVE  \/ files' = files
         \/ \E s : Renames(s) \/ \E i : UnlinksOne(s, i)
         \/ \E p \in Procs : \E x : TakesFile(p, x)
<1>1. ASSUME NEW s, WriterShape(s) PROVE files' = files \/ Renames(s) \/ \E i : UnlinksOne(s, i)
  <2>1. ASSUME NEW c, Inserts(s, c) PROVE files' = files
    BY <2>1 DEF Inserts
  <2>2. QED BY <1>1, <2>1 DEF WriterShape, Temps, Fails, Chips, ListsAll, UnlinkedAll, NoneLeft,
                             Purges, Purged
<1>2. ASSUME NEW p \in Procs, NEW i, Seals(p, i) PROVE files' = files
  BY <1>2 DEF Seals
<1>3. QED BY <1>1, <1>2 DEF Shape, Rests, Discards, Wakes, Leaves, TakesRow

\* The files of a live session go when it clears, and only then.
LEMMA LiveFilesStay ==
  ASSUME GcInv, ClearRows, Shape, NEW s \in 1..MaxSessions, Alive(s),
         writer[s].pc # "unlink", NEW x \in DOMAIN files, x[1] = s
  PROVE  x \in DOMAIN files'
<1> USE DEF GcInv
<1>1. ASSUME NEW t, Renames(t) PROVE x \in DOMAIN files'
  BY <1>1 DEF Renames, Filing
<1>2. ASSUME NEW t, NEW i, UnlinksOne(t, i) PROVE x \in DOMAIN files'
  <2>1. /\ t \in 1..MaxSessions /\ Alive(t) /\ writer[t].pc = "unlink"
        /\ i \in DOMAIN writer[t].todo /\ Unfiled(Path(writer[t].todo[i]))
    BY <1>2 DEF UnlinksOne, Writes, Unlinks
  <2>2. writer[t].todo[i] \in PaneRows(sessions[t])
    BY <2>1 DEF ClearRows
  <2>3. PICK c : c = writer[t].todo[i]
    OBVIOUS
  <2>4. c \in rows /\ c.pane = sessions[t] /\ c.pane = sessions[c.session]
    BY <2>2, <2>3 DEF PaneRows, Types, DbTypes
  <2>5. c.session # s
    BY <2>1, <2>4, AliveApart
  <2>6. Path(c) # x
    <3>1. Path(c)[1] = c.session
      BY DEF Path
    <3>2. QED BY <2>5, <3>1
  <2>7. QED BY <2>1, <2>3, <2>6 DEF Unfiled
<1>3. ASSUME NEW p \in Procs, NEW y, TakesFile(p, y) PROVE x \in DOMAIN files'
  <2>1. PICK c : c = gc[p].todo[1]
    OBVIOUS
  <2>2. gc[p].todo # <<>> /\ y = Path(c) /\ Unfiled(y)
    BY <1>3, <2>1 DEF TakesFile, Takes
  <2>3. 1 \in DOMAIN gc[p].todo
    <3>1. PICK t \in Seq(ChunkRow) : t = gc[p].todo
      BY DEF Types, ProcTypes, IsGc
    <3>2. t # <<>> => 1 \in DOMAIN t
      OBVIOUS
    <3>3. QED BY <2>2, <3>1, <3>2
  <2>4. SeenChunk(c) /\ c.pane \in gc[p].dead
    BY <2>1, <2>3 DEF GcSeen
  <2>5. c.session \in SessionsOf(c.pane)
    BY <2>4 DEF SeenChunk, SessionsOf
  <2>6. ~Alive(c.session)
    BY <2>4, <2>5 DEF GcDead
  <2>7. Path(c)[1] = c.session
    BY DEF Path
  <2>8. QED BY <2>2, <2>6, <2>7 DEF Unfiled
<1>4. QED BY <1>1, <1>2, <1>3, FilesShape

\* A block waits for its file only once it has been sealed.
LEMMA WaitsNext ==
  ASSUME Types, Shape, NEW s \in 1..MaxSessions, NEW b, Waits(s, b)'
  PROVE  \/ Waits(s, b)
         \/ b = Len(sealedIn) + 1 /\ SealsInto(s)
<1>1. PICK i \in DOMAIN writer'[s].q : writer'[s].q[i] = b /\ b # 0 /\ ~Filed(s, i)'
  BY DEF Waits
<1>2. CASE Keeps(s)
  BY <1>1, <1>2 DEF Keeps, Waits, Filed
<1>3. CASE Renames(s)
  <2>1. writer'[s].q = writer[s].q /\ writer[s].pc = "temp"
    BY <1>3 DEF Renames, Filing, WriterBecomes
  <2>2. QED BY <1>1, <2>1 DEF Waits, Filed
<1>4. CASE Advances(s)
  BY <1>1, <1>4 DEF Advances, Waits, Filed
<1>5. CASE writer'[s].q = <<>>
  BY <1>1, <1>5
<1>6. ASSUME NEW n, Queued(s, n), b = n PROVE n # 0
  BY <1>1, <1>6
<1>7. ASSUME NEW n, Queued(s, n) PROVE Waits(s, b) \/ b = n
  <2>1. i \in DOMAIN writer[s].q \/ i = Len(writer[s].q) + 1
    BY <1>1, <1>7 DEF Queued
  <2>2. writer'[s].pc = writer[s].pc
    BY <1>7 DEF Queued, WriterBecomes
  <2>3. i = Len(writer[s].q) + 1 => b = n
    BY <1>1, <1>7 DEF Queued
  <2>4. i \in DOMAIN writer[s].q => writer[s].q[i] = b /\ ~Filed(s, i)
    BY <1>1, <1>7, <2>2 DEF Queued, Filed
  <2>5. QED BY <1>1, <2>1, <2>3, <2>4 DEF Waits
<1>8. CASE Discards(s)
  BY <1>6, <1>7, <1>8 DEF Discards
<1>9. CASE SealsInto(s)
  BY <1>7, <1>9 DEF SealsInto
<1>10. QED BY <1>2, <1>3, <1>4, <1>5, <1>8, <1>9, QueueSteps DEF QueueStep

\* No block comes into two files.
LEMMA FilesApartNext ==
  ASSUME Types, Own, QueuesOK, FilesOK, Shape
  PROVE  FilesApart'
<1> SUFFICES ASSUME NEW x \in DOMAIN files', NEW y \in DOMAIN files', files'[x] = files'[y]
             PROVE  x = y
  BY DEF FilesApart
<1>1. ASSUME x \in DOMAIN files, y \in DOMAIN files, files'[x] = files[x], files'[y] = files[y]
      PROVE  x = y
  BY <1>1 DEF FilesOK, FilesApart
<1>2. ASSUME NEW z, Unfiled(z) PROVE x = y
  BY <1>1, <1>2 DEF Unfiled
<1>3. ASSUME NEW s, Renames(s) PROVE x = y
  <2>1. /\ s \in 1..MaxSessions /\ Filing(s) /\ writer[s].pc = "temp"
    BY <1>3 DEF Renames, Writes
  <2>2. Waits(s, writer[s].q[1])
    <3>1. 1 \in DOMAIN writer[s].q /\ writer[s].q[1] # 0
      BY <2>1, HeadFacts DEF Filing
    <3>2. QED BY <2>1, <3>1 DEF Waits, Filed
  <2>3. \A z \in DOMAIN files : files[z] # writer[s].q[1]
    BY <2>1, <2>2 DEF FilesOK, WaitingUnfiled
  <2>4. /\ DOMAIN files' = DOMAIN files \cup {Here(s)} /\ files'[Here(s)] = writer[s].q[1]
        /\ \A z \in DOMAIN files : z # Here(s) => files'[z] = files[z]
    BY <2>1 DEF Filing
  <2>5. QED BY <1>1, <2>3, <2>4
<1>4. QED BY <1>1, <1>2, <1>3, FilesShape DEF UnlinksOne, Unlinks, TakesFile

\* A block that waits has no file yet.
LEMMA WaitingUnfiledNext ==
  ASSUME Types, Own, QueuesOK, FilesOK, Shape
  PROVE  WaitingUnfiled'
<1> SUFFICES ASSUME NEW s \in 1..MaxSessions, NEW b, Waits(s, b)', NEW x \in DOMAIN files'
             PROVE  files'[x] # b
  BY DEF WaitingUnfiled
<1>1. ASSUME x \in DOMAIN files, files'[x] = files[x] PROVE files'[x] # b
  <2>1. CASE Waits(s, b)
    BY <1>1, <2>1 DEF FilesOK, WaitingUnfiled
  <2>2. CASE b = Len(sealedIn) + 1
    <3>1. files[x] \in 1..Len(sealedIn) /\ Len(sealedIn) \in Nat
      BY <1>1 DEF Types, FileTypes
    <3>2. QED BY <1>1, <2>2, <3>1
  <2>3. QED BY <2>1, <2>2, WaitsNext
<1>2. ASSUME NEW z, Unfiled(z) PROVE files'[x] # b
  BY <1>1, <1>2 DEF Unfiled
<1>3. ASSUME NEW t, Renames(t) PROVE files'[x] # b
  <2>1. /\ t \in 1..MaxSessions /\ Filing(t) /\ Writes(t)
    BY <1>3 DEF Renames, Writes
  <2>2. CASE x # Here(t)
    BY <1>1, <2>1, <2>2 DEF Filing
  <2>3. CASE x = Here(t)
    <3>1. files'[x] = writer[t].q[1] /\ 1 \in DOMAIN writer[t].q
      BY <2>1, <2>3, HeadFacts DEF Filing
    <3>2. SUFFICES ASSUME b = writer[t].q[1] PROVE FALSE
      BY <3>1
    <3>3. PICK i \in DOMAIN writer'[s].q : writer'[s].q[i] = b /\ b # 0 /\ ~Filed(s, i)'
      BY DEF Waits
    <3>4. writer'[s].q = writer[s].q
      <4>1. CASE s = t
        BY <2>1, <4>1 DEF Filing, WriterBecomes
      <4>2. CASE s # t
        BY <2>1, <4>2 DEF Filing, WriterBecomes
      <4>3. QED BY <4>1, <4>2
    <3>5. i \in DOMAIN writer[s].q /\ writer[s].q[i] = writer[t].q[1] /\ writer[s].q[i] # 0
      BY <3>2, <3>3, <3>4
    <3>6. s = t /\ i = 1
      BY <2>1, <3>1, <3>5, QueuedOnce
    <3>7. Filed(s, i)'
      BY <2>1, <3>6 DEF Filing, WriterBecomes, Filed
    <3>8. QED BY <3>3, <3>7
  <2>4. QED BY <2>2, <2>3
<1>4. QED BY <1>1, <1>2, <1>3, FilesShape DEF UnlinksOne, Unlinks, TakesFile

\* A writer between rename and chips has its block under its path.
LEMMA FiledHereNext ==
  ASSUME GcInv, ClearRows, FilesOK, Shape, QueuesOK'
  PROVE  FiledHere'
<1> USE DEF GcInv
<1> SUFFICES ASSUME NEW s \in 1..MaxSessions, writer'[s].pc \in {"renamed", "rowed"}
             PROVE  Here(s)' \in DOMAIN files' /\ files'[Here(s)'] = writer'[s].q[1]
  BY DEF FiledHere
<1>0. Here(s) = <<s, writer[s].seq>> /\ Here(s)' = <<s, writer'[s].seq>>
  BY DEF Here, W
<1>1. ASSUME writer[s].pc \in {"renamed", "rowed"}, writer'[s].seq = writer[s].seq,
             writer'[s].q[1] = writer[s].q[1], ~Renames(s)
      PROVE  Here(s)' \in DOMAIN files' /\ files'[Here(s)'] = writer'[s].q[1]
  <2>1. Here(s)' = Here(s) /\ Here(s) \in DOMAIN files /\ files[Here(s)] = writer[s].q[1]
    BY <1>0, <1>1 DEF FilesOK, FiledHere
  <2>2. Here(s)[1] = s
    BY <1>0
  <2>3. Here(s) \in DOMAIN files'
    BY <1>1, <2>1, <2>2, QueueAlive, LiveFilesStay
  <2>4. files'[Here(s)] = files[Here(s)]
    <3>1. ASSUME NEW t, Renames(t) PROVE files'[Here(s)] = files[Here(s)]
      <4>1. t # s /\ t \in 1..MaxSessions
        BY <1>1, <3>1 DEF Renames, Writes
      <4>2. Here(t) # Here(s)
        BY <1>0, <4>1 DEF Here
      <4>3. QED BY <2>1, <3>1, <4>2 DEF Renames, Filing
    <3>2. ASSUME NEW z, Unfiled(z) PROVE files'[Here(s)] = files[Here(s)]
      BY <2>3, <3>2 DEF Unfiled
    <3>3. QED BY <3>1, <3>2, FilesShape DEF UnlinksOne, Unlinks, TakesFile
  <2>5. QED BY <1>1, <2>1, <2>3, <2>4
<1>2. CASE Renames(s)
  <2>1. Filing(s)
    BY <1>2 DEF Renames
  <2>2. Here(s)' = Here(s) /\ writer'[s].q = writer[s].q
    BY <1>0, <2>1 DEF Filing, WriterBecomes
  <2>3. QED BY <2>1, <2>2 DEF Filing
<1>3. CASE Keeps(s) /\ ~Renames(s)
  BY <1>1, <1>3 DEF Keeps
<1>4. CASE Advances(s)
  BY <1>4 DEF Advances
<1>5. CASE writer'[s].q = <<>>
  <2>1. writer'[s].pc = "idle"
    BY <1>5 DEF QueuesOK, QueueOK
  <2>2. QED BY <2>1
<1>6. ASSUME NEW b, Queued(s, b), ~Renames(s)
      PROVE  Here(s)' \in DOMAIN files' /\ files'[Here(s)'] = writer'[s].q[1]
  <2>1. writer'[s].pc = writer[s].pc /\ writer'[s].seq = writer[s].seq
    BY <1>6 DEF Queued, WriterBecomes
  <2>2. writer[s].q # <<>>
    BY <2>1 DEF QueuesOK, QueueOK
  <2>3. 1 \in DOMAIN writer[s].q
    BY <2>2, HeadFacts
  <2>4. writer'[s].q[1] = writer[s].q[1]
    BY <1>6, <2>3 DEF Queued
  <2>5. QED BY <1>1, <1>6, <2>1, <2>4
<1>7. CASE (Discards(s) \/ SealsInto(s)) /\ ~Renames(s)
  BY <1>6, <1>7 DEF Discards, SealsInto
<1>8. QED BY <1>2, <1>3, <1>4, <1>5, <1>7, QueueSteps DEF QueueStep

\* Every step keeps the files and their queues apart.
LEMMA FilesOKNext ==
  ASSUME GcInv, ClearRows, FilesOK, Shape, QueuesOK'
  PROVE  FilesOK'
BY FilesApartNext, WaitingUnfiledNext, FiledHereNext DEF GcInv, FilesOK

-----------------------------------------------------------------------------
\* Rows

\* What a step can do to the rows.
LEMMA RowsShape ==
  ASSUME Shape
  PROVE  \/ rows' = rows
         \/ \E s : (\E c : Inserts(s, c)) \/ Chips(s) \/ Purges(s)
         \/ \E p \in Procs : TakesRow(p)
<1>1. ASSUME NEW s, WriterShape(s)
      PROVE  rows' = rows \/ (\E c : Inserts(s, c)) \/ Chips(s) \/ Purges(s)
  <2>1. ASSUME NEW i, UnlinksOne(s, i) PROVE rows' = rows
    BY <2>1 DEF UnlinksOne
  <2>2. QED BY <1>1, <2>1 DEF WriterShape, Temps, Renames, Fails, ListsAll, UnlinkedAll, Purged
<1>2. ASSUME NEW p \in Procs, NEW i, Seals(p, i) PROVE rows' = rows
  BY <1>2 DEF Seals
<1>3. ASSUME NEW p \in Procs, NEW x, TakesFile(p, x) PROVE rows' = rows
  BY <1>3 DEF TakesFile
<1>4. QED BY <1>1, <1>2, <1>3 DEF Shape, Rests, Discards, Wakes, Leaves

\* A row was there before, its label apart, or has just been inserted.
LEMMA RowsFrom ==
  ASSUME Shape, NEW d \in rows'
  PROVE  (\E c \in rows : SameButLabel(c, d)) \/ \E s : Inserts(s, d)
<1>1. ASSUME rows' \subseteq rows PROVE \E c \in rows : SameButLabel(c, d)
  BY <1>1 DEF SameButLabel
<1>2. ASSUME NEW s, NEW c, Inserts(s, c)
      PROVE (\E e \in rows : SameButLabel(e, d)) \/ Inserts(s, d)
  <2>1. rows' = rows \cup {c}
    BY <1>2 DEF Inserts, Inserted
  <2>2. QED BY <1>2, <2>1 DEF SameButLabel
<1>3. ASSUME NEW s, Chips(s) PROVE \E c \in rows : SameButLabel(c, d)
  BY <1>3 DEF Chips, Relabeled
<1>4. ASSUME NEW s, Purges(s) PROVE rows' \subseteq rows
  BY <1>4 DEF Purges
<1>5. ASSUME NEW p \in Procs, TakesRow(p) PROVE rows' \subseteq rows
  BY <1>5 DEF TakesRow
<1>6. QED BY <1>1, <1>2, <1>3, <1>4, <1>5, RowsShape

\* A label is not part of a path.
LEMMA PathSame == ASSUME NEW c, NEW d, SameButLabel(c, d) PROVE Path(c) = Path(d)
BY DEF SameButLabel, Path

\* What the collector has chosen is still there, and of a dead pane.
LEMMA TodoFacts ==
  ASSUME Types, GcSeen, GcRows, NEW p \in Procs, gc[p].todo # <<>>
  PROVE  /\ 1 \in DOMAIN gc[p].todo /\ gc[p].todo[1] \in ChunkRow
         /\ SeenChunk(gc[p].todo[1]) /\ gc[p].todo[1].pane \in gc[p].dead
         /\ StillThere(gc[p].todo[1])
<1>1. PICK t \in Seq(ChunkRow) : t = gc[p].todo
  BY DEF Types, ProcTypes, IsGc
<1>2. t # <<>> => 1 \in DOMAIN t /\ t[1] \in ChunkRow
  OBVIOUS
<1>3. 1 \in DOMAIN gc[p].todo /\ gc[p].todo[1] \in ChunkRow
  BY <1>1, <1>2
<1>4. QED BY <1>3 DEF GcSeen, GcRows

\* A row the collector takes has no file, and its pane no session alive.
LEMMA TakenRow ==
  ASSUME Types, GcSeen, GcRows, GcDead, NEW p \in Procs, TakesRow(p), NEW c \in rows, c \notin rows'
  PROVE  /\ Path(c) \notin DOMAIN files
         /\ \A s \in SessionsOf(c.pane) : ~Alive(s)
<1>1. PICK e : e = gc[p].todo[1]
  OBVIOUS
<1>2. c.id = e.id /\ Path(e) \notin DOMAIN files /\ gc[p].todo # <<>>
  BY <1>1 DEF TakesRow, Takes
<1>3. StillThere(e) /\ e.pane \in gc[p].dead
  BY <1>1, <1>2, TodoFacts
<1>4. PICK d \in rows : d.id = e.id /\ d.pane = e.pane /\ Path(d) = Path(e)
  BY <1>3 DEF StillThere
<1>5. d = c
  BY <1>2, <1>4 DEF Types, DbTypes
<1>6. QED BY <1>2, <1>3, <1>4, <1>5 DEF GcDead

\* A row a clear deletes is of its pane and has no file.
LEMMA PurgedRow ==
  ASSUME Types, ClearRows, NEW s, Purges(s), NEW c \in rows, c \notin rows'
  PROVE  c.pane = sessions[s] /\ Path(c) \notin DOMAIN files
<1>1. /\ s \in 1..MaxSessions /\ Alive(s) /\ writer[s].pc = "purge" /\ writer[s].todo # <<>>
      /\ c.id = writer[s].todo[1].id
  BY DEF Purges, Writes
<1>2. 1 \in DOMAIN writer[s].todo
  <2>1. PICK t \in Seq(ChunkRow) : t = writer[s].todo
    BY <1>1, WriterRecord
  <2>2. t # <<>> => 1 \in DOMAIN t
    OBVIOUS
  <2>3. QED BY <1>1, <2>1, <2>2
<1>3. writer[s].todo[1] \in PaneRows(sessions[s])
  BY <1>1, <1>2 DEF ClearRows
<1>4. c = writer[s].todo[1]
  BY <1>1, <1>3 DEF PaneRows, Types, DbTypes
<1>5. QED BY <1>1, <1>3, <1>4 DEF ClearRows, PaneRows

\* The rows of a live pane go when it clears, and only then.
LEMMA LiveRowsStay ==
  ASSUME GcInv, ClearRows, GcRows, Shape, NEW s \in 1..MaxSessions, Alive(s),
         writer[s].pc # "purge", NEW c \in rows, c.pane = sessions[s]
  PROVE  \E d \in rows' : SameButLabel(c, d)
<1> USE DEF GcInv
<1>1. ASSUME c \in rows' PROVE \E d \in rows' : SameButLabel(c, d)
  BY <1>1 DEF SameButLabel
<1>2. ASSUME NEW t, Chips(t) PROVE \E d \in rows' : SameButLabel(c, d)
  BY <1>2 DEF Chips, Relabeled
<1>3. ASSUME NEW t, NEW e, Inserts(t, e) PROVE c \in rows'
  BY <1>3 DEF Inserts, Inserted
<1>4. ASSUME NEW t, Purges(t), c \notin rows' PROVE FALSE
  <2>1. c.pane = sessions[t] /\ t \in 1..MaxSessions /\ Alive(t) /\ writer[t].pc = "purge"
    BY <1>4, PurgedRow DEF Purges, Writes
  <2>2. s = t
    BY <2>1, AliveApart
  <2>3. QED BY <2>1, <2>2
<1>5. ASSUME NEW p \in Procs, TakesRow(p), c \notin rows' PROVE FALSE
  <2>1. s \in SessionsOf(c.pane)
    BY AliveFacts DEF SessionsOf
  <2>2. QED BY <1>5, <2>1, TakenRow
<1>6. QED BY <1>1, <1>2, <1>3, <1>4, <1>5, RowsShape

\* Rows of a pane follow each other, each with a path of its own.
LEMMA RowsOKNext ==
  ASSUME GcInv, RowsOK, WritersRows, Shape, DbTypes'
  PROVE  RowsOK'
<1> USE DEF GcInv
<1>n. ASSUME NEW s, NEW d, Inserts(s, d)
      PROVE  /\ s \in 1..MaxSessions /\ Alive(s) /\ d.session = s /\ d.seq = writer[s].seq
             /\ d.id = NextRowId /\ d.start = writer[s].cursor /\ d.start <= d.stop
             /\ d.pane = sessions[s] /\ WriterRows(s) /\ \A c \in rows : ~Written(s, c)
             /\ \A c \in rows : c.id < d.id
  <2>1. s \in 1..MaxSessions /\ Alive(s) /\ writer[s].pc = "renamed"
    BY <1>n DEF Inserts, Writes
  <2>2. d.pane = sessions[s]
    BY <1>n, <2>1, QueueAlive DEF Inserts, Inserted
  <2>3. QED BY <1>n, <2>1, <2>2 DEF Inserts, Inserted, WritersRows, Written
<1>1. ASSUME NEW d \in rows' PROVE d.start <= d.stop
  <2>1. ASSUME NEW c \in rows, SameButLabel(c, d) PROVE d.start <= d.stop
    BY <2>1 DEF RowsOK, SameButLabel
  <2>2. QED BY <1>n, <2>1, RowsFrom
<1>2. ASSUME NEW d \in rows', NEW e \in rows', Path(d) = Path(e), d # e PROVE FALSE
  <2>1. ASSUME NEW s, Inserts(s, d), NEW c \in rows, SameButLabel(c, e) PROVE FALSE
    <3>1. c.session = s /\ c.seq = writer[s].seq
      BY <1>2, <1>n, <2>1 DEF Path, SameButLabel
    <3>2. c.seq < writer[s].seq
      BY <1>n, <2>1, <3>1 DEF WriterRows
    <3>3. c.seq \in Nat
      BY DEF Types, DbTypes, ChunkRow
    <3>4. QED BY <3>1, <3>2, <3>3
  <2>2. ASSUME NEW s, Inserts(s, e), NEW c \in rows, SameButLabel(c, d) PROVE FALSE
    <3>1. c.session = s /\ c.seq = writer[s].seq
      BY <1>2, <1>n, <2>2 DEF Path, SameButLabel
    <3>2. c.seq < writer[s].seq
      BY <1>n, <2>2, <3>1 DEF WriterRows
    <3>3. c.seq \in Nat
      BY DEF Types, DbTypes, ChunkRow
    <3>4. QED BY <3>1, <3>2, <3>3
  <2>3. ASSUME NEW s, Inserts(s, d), NEW t, Inserts(t, e) PROVE FALSE
    <3>1. d.id = e.id
      BY <1>n, <2>3
    <3>2. QED BY <1>2, <3>1 DEF DbTypes
  <2>4. ASSUME NEW b \in rows, NEW c \in rows, SameButLabel(b, d), SameButLabel(c, e) PROVE FALSE
    <3>1. Path(b) = Path(c)
      BY <1>2, <2>4, PathSame
    <3>2. b = c
      BY <2>4, <3>1 DEF RowsOK
    <3>3. d.id = e.id
      BY <2>4, <3>2 DEF SameButLabel
    <3>4. QED BY <1>2, <3>3 DEF DbTypes
  <2>5. QED BY <2>1, <2>2, <2>3, <2>4, RowsFrom
<1>3. ASSUME NEW d \in rows', NEW e \in rows', d.pane = e.pane, d.id < e.id PROVE d.stop <= e.start
  <2>0. d.id \in Nat /\ e.id \in Nat
    BY DEF DbTypes, ChunkRow
  <2>1. ASSUME NEW s, Inserts(s, d) PROVE FALSE
    <3>1. ASSUME NEW c \in rows, SameButLabel(c, e) PROVE FALSE
      <4>1. e.id < d.id
        BY <1>n, <2>1, <3>1 DEF SameButLabel
      <4>2. QED BY <1>3, <2>0, <4>1
    <3>2. ASSUME NEW t, Inserts(t, e) PROVE FALSE
      <4>1. e.id = d.id
        BY <1>n, <2>1, <3>2
      <4>2. QED BY <1>3, <2>0, <4>1
    <3>3. QED BY <3>1, <3>2, RowsFrom
  <2>2. ASSUME NEW s, Inserts(s, e), NEW c \in rows, SameButLabel(c, d) PROVE d.stop <= e.start
    <3>1. c.pane = sessions[s] /\ c.stop = d.stop /\ e.start = writer[s].cursor
      BY <1>3, <1>n, <2>2 DEF SameButLabel
    <3>2. QED BY <1>n, <2>2, <3>1 DEF WriterRows
  <2>3. ASSUME NEW b \in rows, NEW c \in rows, SameButLabel(b, d), SameButLabel(c, e)
        PROVE  d.stop <= e.start
    BY <1>3, <2>3 DEF RowsOK, SameButLabel
  <2>4. QED BY <2>1, <2>2, <2>3, RowsFrom
<1>4. QED BY <1>1, <1>2, <1>3 DEF RowsOK

\* A session alive was so before or has just been locked.
LEMMA AliveFrom ==
  ASSUME Shape, NEW s \in 1..MaxSessions, Alive(s)'
  PROVE  \/ Alive(s) /\ (writer'[s] = writer[s] \/ WriterShape(s) \/ \E b : Queued(s, b))
         \/ \E p \in Procs : Wakes(p) /\ s = ui[p].session
<1>1. CASE Rests
  BY <1>1 DEF Rests
<1>2. ASSUME NEW p \in Procs, NEW i, Seals(p, i)
      PROVE  Alive(s) /\ (writer'[s] = writer[s] \/ \E b : Queued(s, b))
  <2>1. Alive(s)
    BY <1>2 DEF Seals, Alive
  <2>2. PICK x : x = tabs[p][i].session
    OBVIOUS
  <2>3. (x = 0 => writer' = writer) /\ (x # 0 => Queued(x, Len(sealedIn) + 1))
    BY <1>2, <2>2 DEF Seals, Sealed
  <2>4. x # 0 /\ x # s => writer'[s] = writer[s]
    BY <2>3 DEF Queued, WriterBecomes
  <2>5. QED BY <2>1, <2>3, <2>4
<1>3. ASSUME NEW p \in Procs, Wakes(p), s # ui[p].session PROVE Alive(s) /\ writer'[s] = writer[s]
  BY <1>3 DEF Wakes, Resumes
<1>4. ASSUME NEW p \in Procs, Leaves(p) PROVE Alive(s) /\ writer'[s] = writer[s]
  BY <1>4 DEF Leaves
<1>5. ASSUME NEW p \in Procs, (\E x : TakesFile(p, x)) \/ TakesRow(p)
      PROVE  Alive(s) /\ writer'[s] = writer[s]
  BY <1>5 DEF TakesFile, TakesRow, Takes
<1>6. ASSUME NEW t, Discards(t) PROVE Alive(s) /\ (writer'[s] = writer[s] \/ \E b : Queued(s, b))
  <2>1. Alive(s)
    BY <1>6 DEF Discards, Alive
  <2>2. t # s => writer'[s] = writer[s]
    BY <1>6 DEF Discards, Queued, WriterBecomes
  <2>3. QED BY <1>6, <2>1, <2>2 DEF Discards
<1>7. ASSUME NEW t, WriterShape(t) PROVE Alive(s) /\ (writer'[s] = writer[s] \/ WriterShape(s))
  <2>1. Alive(s)
    BY <1>7, ShapeWriter DEF Writes, Alive
  <2>2. QED BY <1>7, <2>1, WriterLeavesOthers
<1>8. QED BY <1>1, <1>2, <1>3, <1>4, <1>5, <1>6, <1>7 DEF Shape

SessionsKept == \A s \in Sessions : s \in Sessions' /\ sessions'[s] = sessions[s]

\* A session keeps its pane.
LEMMA AliveSessions ==
  ASSUME Types, Own, SessionsKept, NEW s \in 1..MaxSessions, Alive(s)
  PROVE  sessions'[s] = sessions[s]
BY AliveFacts DEF SessionsKept

\* A writer that goes on as it was, more in its queue apart.
GoesOn(s) ==
  /\ writer'[s].pc = writer[s].pc /\ writer'[s].seq = writer[s].seq
  /\ writer'[s].cursor = writer[s].cursor /\ writer'[s].id = writer[s].id
  /\ writer[s].q # <<>> => writer'[s].q[1] = writer[s].q[1]

\* A writer left alone, or with one more message, goes on where it was.
LEMMA GoesOnWhen ==
  ASSUME Types, NEW s \in 1..MaxSessions, writer'[s] = writer[s] \/ \E b : Queued(s, b)
  PROVE  GoesOn(s)
<1>1. ASSUME NEW b, Queued(s, b) PROVE GoesOn(s)
  <2>1. PICK q \in Seq(Nat) : q = writer[s].q
    BY WriterRecord
  <2>2. q # <<>> => 1 \in DOMAIN q
    OBVIOUS
  <2>3. writer[s].q # <<>> => writer'[s].q[1] = writer[s].q[1]
    BY <1>1, <2>1, <2>2 DEF Queued
  <2>4. QED BY <1>1, <2>3 DEF GoesOn, Queued, WriterBecomes
<1>2. QED BY <1>1 DEF GoesOn

\* Where a writer goes on is not disturbed by others.
LEMMA OtherRows ==
  ASSUME GcInv, WritersRows, ClearRows, GcRows, Shape, SessionsKept,
         NEW s \in 1..MaxSessions, Alive(s), GoesOn(s), ~WriterShape(s)
  PROVE  WriterRows(s)'
<1> USE DEF GcInv
<1>1. sessions'[s] = sessions[s] /\ s \in Sessions
  BY AliveSessions, AliveFacts
<1>2. ASSUME NEW c, NEW d, SameButLabel(c, d) PROVE Written(s, c) <=> Written(s, d)'
  BY <1>2 DEF SameButLabel, Written, GoesOn
<1>3. ASSUME NEW t, NEW d, Inserts(t, d), d.session = s \/ d.pane = sessions[s] PROVE FALSE
  <2>1. t \in 1..MaxSessions /\ Alive(t) /\ WriterShape(t) /\ d.session = t
    BY <1>3 DEF Inserts, Inserted, Writes, WriterShape
  <2>2. d.pane = sessions[t]
    BY <1>3, <2>1, QueueAlive DEF Inserts, Inserted
  <2>3. t = s
    BY <1>3, <2>1, <2>2, AliveApart
  <2>4. QED BY <2>1, <2>3
<1>4. WriterRows(s)
  BY DEF WritersRows
<1>5. ASSUME NEW d \in rows', d.session = s PROVE d.seq < writer'[s].seq \/ Written(s, d)'
  <2>1. PICK c \in rows : SameButLabel(c, d)
    BY <1>3, <1>5, RowsFrom
  <2>2. c.seq < writer[s].seq \/ Written(s, c)
    BY <1>4, <1>5, <2>1 DEF WriterRows, SameButLabel
  <2>3. QED BY <1>2, <2>1, <2>2 DEF SameButLabel, GoesOn
<1>6. ASSUME NEW d \in rows', d.pane = sessions[s]
      PROVE  d.stop <= writer'[s].cursor \/ Written(s, d)'
  <2>1. PICK c \in rows : SameButLabel(c, d)
    BY <1>3, <1>6, RowsFrom
  <2>2. c.stop <= writer[s].cursor \/ Written(s, c)
    BY <1>4, <1>6, <2>1 DEF WriterRows, SameButLabel
  <2>3. QED BY <1>2, <2>1, <2>2 DEF SameButLabel, GoesOn
<1>7. ASSUME writer'[s].pc = "rowed"
      PROVE  \E d \in rows' : /\ d.id = writer'[s].id /\ Path(d) = Here(s)'
                              /\ d.stop = writer'[s].cursor + LinesOf[writer'[s].q[1]]
  <2>1. writer[s].pc = "rowed" /\ writer[s].q # <<>>
    BY <1>7 DEF GoesOn, QueuesOK, QueueOK
  <2>2. PICK c \in rows : /\ c.id = writer[s].id /\ Path(c) = Here(s)
                          /\ c.stop = writer[s].cursor + LinesOf[writer[s].q[1]]
    BY <1>4, <2>1 DEF WriterRows
  <2>3. c.session = s
    BY <2>2 DEF Path, Here
  <2>4. c.pane = sessions[s]
    BY <2>3 DEF Types, DbTypes
  <2>5. PICK d \in rows' : SameButLabel(c, d)
    BY <2>1, <2>4, LiveRowsStay
  <2>6. Here(s)' = Here(s)
    BY DEF Here, W, GoesOn
  <2>7. Path(d) = Path(c)
    BY <2>5, PathSame
  <2>8. QED BY <2>1, <2>2, <2>5, <2>6, <2>7 DEF SameButLabel, GoesOn
<1>8. QED BY <1>1, <1>5, <1>6, <1>7 DEF WriterRows

\* The writer's own steps
LEMMA OwnRows ==
  ASSUME GcInv, RowsOK, WritersRows, ClearRows, NEW s \in 1..MaxSessions, Alive(s), WriterShape(s)
  PROVE  WriterRows(s)'
<1> USE DEF GcInv
<1>1. sessions' = sessions /\ s \in Sessions /\ WriterRows(s)
  BY ShapeWriter, AliveFacts DEF Writes, WritersRows
<1>2. /\ writer[s].seq \in Nat /\ writer[s].cursor \in Nat
      /\ \A c \in rows : c.seq \in Nat /\ c.stop \in Nat /\ c.session \in Sessions
                         /\ c.pane = sessions[c.session]
  BY WriterRecord DEF Types, DbTypes, ChunkRow
<1>3. ASSUME rows' \subseteq rows, writer[s].pc # "rowed", writer'[s].pc # "rowed",
             writer'[s].seq = writer[s].seq, writer'[s].cursor = writer[s].cursor
      PROVE  WriterRows(s)'
  BY <1>1, <1>3 DEF WriterRows, Written
<1>4. CASE Temps(s)
  BY <1>3, <1>4 DEF Temps, WriterBecomes
<1>5. CASE Renames(s)
  BY <1>3, <1>5 DEF Renames, Filing, WriterBecomes
<1>6. CASE Fails(s)
  BY <1>3, <1>6 DEF Fails, WriterBecomes
<1>7. CASE ListsAll(s)
  BY <1>3, <1>7 DEF ListsAll, WriterBecomes
<1>8. ASSUME NEW i, UnlinksOne(s, i) PROVE WriterRows(s)'
  BY <1>3, <1>8 DEF UnlinksOne, Unlinks
<1>9. CASE UnlinkedAll(s)
  BY <1>3, <1>9 DEF UnlinkedAll, NoneLeft, WriterBecomes
<1>10. CASE Purges(s)
  <2>1. rows' \subseteq rows
    BY <1>10 DEF Purges
  <2>2. QED BY <1>3, <1>10, <2>1 DEF Purges, WriterBecomes
<1>11. CASE Purged(s)
  <2>1. writer[s].todo = <<>> /\ writer[s].pc = "purge" /\ rows' = rows /\ writer'[s].pc = "idle"
    BY <1>11 DEF Purged, WriterBecomes
  <2>2. \A c \in rows : c.pane # sessions[s]
    BY <2>1 DEF ClearRows, PaneRows
  <2>3. QED BY <1>1, <1>2, <2>1, <2>2 DEF WriterRows
<1>12. ASSUME NEW e, Inserts(s, e) PROVE WriterRows(s)'
  <2>1. /\ writer[s].pc = "renamed" /\ writer'[s].pc = "rowed" /\ writer'[s].id = e.id
        /\ writer'[s].seq = writer[s].seq /\ writer'[s].cursor = writer[s].cursor
        /\ writer'[s].q = writer[s].q
    BY <1>12 DEF Inserts, Inserted, WriterBecomes
  <2>2. /\ rows' = rows \cup {e} /\ e.session = s /\ e.seq = writer[s].seq
        /\ e.stop = writer[s].cursor + LinesOf[writer[s].q[1]]
    BY <1>12 DEF Inserts, Inserted
  <2>3. Path(e) = Here(s)'
    BY <2>1, <2>2 DEF Path, Here, W
  <2>4. Written(s, e)'
    BY <2>1 DEF Written
  <2>5. \A c \in rows : ~Written(s, c)
    BY <2>1 DEF Written
  <2>6. \A c \in rows' : c.session = s => c.seq < writer'[s].seq \/ Written(s, c)'
    BY <1>1, <2>1, <2>2, <2>4, <2>5 DEF WriterRows
  <2>7. \A c \in rows' : c.pane = sessions'[s] => c.stop <= writer'[s].cursor \/ Written(s, c)'
    BY <1>1, <2>1, <2>2, <2>4, <2>5 DEF WriterRows
  <2>8. QED BY <2>1, <2>2, <2>3, <2>6, <2>7 DEF WriterRows
<1>13. CASE Chips(s)
  <2>1. /\ writer[s].pc = "rowed" /\ writer'[s].pc = "idle" /\ writer'[s].seq = writer[s].seq + 1
        /\ writer'[s].cursor = writer[s].cursor + LinesOf[writer[s].q[1]]
    BY <1>13 DEF Chips, WriterBecomes
  <2>2. LinesOf[writer[s].q[1]] \in Nat
    BY <1>13, HeadFacts DEF Chips
  <2>3. PICK e \in rows : /\ e.id = writer[s].id /\ Path(e) = Here(s)
                          /\ e.stop = writer[s].cursor + LinesOf[writer[s].q[1]]
    BY <1>1, <2>1 DEF WriterRows
  <2>4. e.seq = writer[s].seq
    BY <2>3 DEF Path, Here, W
  <2>5. ASSUME NEW c \in rows, Written(s, c) PROVE c = e
    BY <2>3, <2>5 DEF Written, Types, DbTypes
  <2>6. \A d \in rows' : \E c \in rows : SameButLabel(c, d)
    BY <1>13 DEF Chips, Relabeled
  <2>7. ASSUME NEW d \in rows', d.session = s PROVE d.seq < writer'[s].seq
    <3>1. PICK c \in rows : SameButLabel(c, d)
      BY <2>6
    <3>2. c.seq < writer[s].seq \/ c = e
      BY <1>1, <2>5, <2>7, <3>1 DEF WriterRows, SameButLabel
    <3>3. c.seq < writer[s].seq + 1
      BY <1>2, <2>4, <3>2
    <3>4. QED BY <2>1, <3>1, <3>3 DEF SameButLabel
  <2>8. ASSUME NEW d \in rows', d.pane = sessions[s] PROVE d.stop <= writer'[s].cursor
    <3>1. PICK c \in rows : SameButLabel(c, d)
      BY <2>6
    <3>2. c.stop <= writer[s].cursor \/ c = e
      BY <1>1, <2>5, <2>8, <3>1 DEF WriterRows, SameButLabel
    <3>3. c.stop <= writer[s].cursor + LinesOf[writer[s].q[1]]
      BY <1>2, <2>2, <2>3, <3>2
    <3>4. QED BY <2>1, <3>1, <3>3 DEF SameButLabel
  <2>9. QED BY <1>1, <2>1, <2>7, <2>8 DEF WriterRows
<1>14. QED BY <1>4, <1>5, <1>6, <1>7, <1>8, <1>9, <1>10, <1>11, <1>12, <1>13 DEF WriterShape

\* A writer that starts goes on after all rows of its pane.
LEMMA WokenRows ==
  ASSUME GcInv, StartRows, NEW p \in Procs, Wakes(p), NEW s, s = ui[p].session
  PROVE  WriterRows(s)'
<1> USE DEF GcInv
<1>1. /\ writer'[s] = Resumed(ui[p]) /\ rows' = rows /\ sessions' = sessions
      /\ Starting(p)
  BY DEF Wakes, Resumes
<1>2. /\ writer'[s].pc = "idle" /\ writer'[s].cursor = ui[p].start
  BY <1>1 DEF Resumed, NoWriter
<1>3. sessions[s] = ui[p].row
  BY <1>1 DEF Own, StartsOK, StartOK, SessionsOf
<1>4. \A c \in rows : c.pane = sessions[c.session]
  BY DEF Types, DbTypes
<1>5. QED BY <1>1, <1>2, <1>3, <1>4 DEF WriterRows, StartRows

\* Every writer goes on after its pane's rows.
LEMMA WritersRowsNext ==
  ASSUME GcInv, RowsOK, WritersRows, StartRows, ClearRows, GcRows, Shape, SessionsKept
  PROVE  WritersRows'
<1> USE DEF GcInv
<1>1. SUFFICES ASSUME NEW s \in 1..MaxSessions, Alive(s)' PROVE WriterRows(s)'
  BY DEF WritersRows
<1>2. ASSUME Alive(s), WriterShape(s) PROVE WriterRows(s)'
  BY <1>2, OwnRows
<1>3. ASSUME Alive(s), ~WriterShape(s), writer'[s] = writer[s] \/ \E b : Queued(s, b)
      PROVE  WriterRows(s)'
  BY <1>3, GoesOnWhen, OtherRows
<1>4. ASSUME NEW p \in Procs, Wakes(p), s = ui[p].session PROVE WriterRows(s)'
  BY <1>4, WokenRows
<1>5. QED BY <1>1, <1>2, <1>3, <1>4, AliveFrom

\* What a session is begun with fits the rows of its pane.
LEMMA StartRowsNext ==
  ASSUME GcInv, StartRows, Shape, [Next]_vars, FreshRows'
  PROVE  StartRows'
<1> USE DEF GcInv
<1>1. SUFFICES ASSUME NEW q \in Procs, Starting(q)', NEW d \in rows', d.pane = ui'[q].row
               PROVE  /\ ~FreshStart(q)' /\ d.stop <= ui'[q].start
                      /\ d.session # ui'[q].session
  BY DEF StartRows
<1>2. CASE Starting(q) /\ ui'[q] = ui[q] /\ tabs'[q] = tabs[q]
  <2>1. ASSUME NEW t, Inserts(t, d) PROVE FALSE
    <3>1. t \in 1..MaxSessions /\ Alive(t)
      BY <2>1 DEF Inserts, Writes
    <3>2. d.pane = sessions[t]
      BY <2>1, <3>1, QueueAlive DEF Inserts, Inserted
    <3>3. QED BY <1>1, <1>2, <3>1, <3>2, StartingAlone
  <2>2. PICK c \in rows : SameButLabel(c, d)
    BY <2>1, RowsFrom
  <2>3. ~FreshStart(q) /\ c.stop <= ui[q].start /\ c.session # ui[q].session
    BY <1>1, <1>2, <2>2 DEF StartRows, SameButLabel
  <2>4. QED BY <1>2, <2>2, <2>3 DEF SameButLabel, FreshStart
<1>3. ~FreshStart(q)'
  BY <1>1 DEF FreshRows
<1>4. ASSUME LaunchFresh(q) \/ NewTab(q) PROVE FALSE
  <2>1. ui'[q].at = Len(tabs[q]) + 1 /\ tabs' = tabs
    <3>1. CASE NewTab(q)
      <4>1. BeginRows(q, Len(tabs[q]) + 1, 0) /\ BeginsFor(q, Len(tabs[q]) + 1, 0) /\ tabs' = tabs
        BY <3>1 DEF NewTab, BeginsFor
      <4>2. Begun(q, Len(tabs[q]) + 1, 0)
        BY <4>1, BeginFacts
      <4>3. QED BY <4>1, <4>2 DEF Begun
    <3>2. CASE LaunchFresh(q)
      <4>1. tabs[q] = <<>>
        BY <3>2 DEF LaunchFresh, Running
      <4>2. BeginRows(q, 1, 0) /\ BeginsFor(q, 1, 0) /\ tabs' = tabs
        BY <3>2, <4>1 DEF LaunchFresh, BeginsFor
      <4>3. Begun(q, 1, 0)
        BY <4>2, BeginFacts
      <4>4. QED BY <4>1, <4>2, <4>3 DEF Begun
    <3>3. QED BY <1>4, <3>1, <3>2
  <2>2. QED BY <1>3, <2>1 DEF FreshStart
<1>5. ASSUME NEW i \in 1..Len(tabs[q]), RestartPane(q, i)
      PROVE  d.stop <= ui'[q].start /\ d.session # ui'[q].session
  <2>1. PICK r : r = tabs[q][i].row
    OBVIOUS
  <2>2. BeginRows(q, i, r) /\ BeginsFor(q, i, r) /\ rows' = rows
    BY <1>5, <2>1 DEF RestartPane, BeginsFor, Types, ProcTypes
  <2>3. Begun(q, i, r)
    BY <2>2, BeginFacts
  <2>4. r # 0
    BY <1>5, <2>1 DEF RestartPane, Own, TabsOK, TabOK
  <2>5. ui'[q].row = r /\ ui'[q].start = MaxEndLine(r) /\ ui'[q].session = Len(sessions) + 1
    BY <2>3, <2>4 DEF Begun
  <2>6. d \in PaneRows(r)
    BY <1>1, <2>2, <2>5 DEF PaneRows
  <2>7. d.session \in Sessions /\ Len(sessions) \in Nat
    BY <2>2 DEF Types, DbTypes
  <2>8. d.stop <= MaxEndLine(r)
    BY <2>6, EndFacts DEF Types
  <2>9. d.session # Len(sessions) + 1
    <3>1. PICK n \in Nat : n = Len(sessions)
      BY <2>7
    <3>2. d.session \in 1..n
      BY <2>7, <3>1 DEF Sessions
    <3>3. QED BY <3>1, <3>2
  <2>10. QED BY <2>5, <2>8, <2>9
<1>6. QED BY <1>1, <1>2, <1>3, <1>4, <1>5, StartsOnly

\* Where a file is new
LEMMA FilesFrom ==
  ASSUME Shape, NEW x \in DOMAIN files'
  PROVE  \/ x \in DOMAIN files /\ files'[x] = files[x]
         \/ \E t : Renames(t) /\ x = Here(t)
<1>1. ASSUME NEW t, Renames(t), x # Here(t) PROVE x \in DOMAIN files /\ files'[x] = files[x]
  BY <1>1 DEF Renames, Filing
<1>2. ASSUME NEW t, NEW i, UnlinksOne(t, i) PROVE x \in DOMAIN files /\ files'[x] = files[x]
  BY <1>2 DEF UnlinksOne, Unlinks, Unfiled
<1>3. ASSUME NEW p \in Procs, NEW y, TakesFile(p, y) PROVE x \in DOMAIN files /\ files'[x] = files[x]
  BY <1>3 DEF TakesFile, Unfiled
<1>4. QED BY <1>1, <1>2, <1>3, FilesShape

\* The rows of a pane that clears are left alone by everyone else.
LEMMA ClearAlone ==
  ASSUME GcInv, WritersRows, ClearRows, Shape, SessionsKept,
         NEW s \in 1..MaxSessions, Alive(s), writer[s].pc \in {"unlink", "purge"},
         ~WriterShape(s)
  PROVE  /\ PaneRows(sessions[s])' = PaneRows(sessions[s])
         /\ \A c \in PaneRows(sessions[s]) : Path(c) \in DOMAIN files' => Path(c) \in DOMAIN files
<1> USE DEF GcInv
<1>1. sessions'[s] = sessions[s]
  BY AliveSessions
<1>2. ASSUME NEW t \in 1..MaxSessions, Alive(t), WriterShape(t) PROVE sessions[t] # sessions[s]
  BY <1>2, AliveApart
<1>3. ASSUME NEW t, Purges(t), NEW c \in rows, c.pane = sessions[s] PROVE c \in rows'
  <2>1. t \in 1..MaxSessions /\ Alive(t) /\ WriterShape(t)
    BY <1>3 DEF Purges, Writes, WriterShape
  <2>2. QED BY <1>2, <1>3, <2>1, PurgedRow
<1>4. ASSUME NEW p \in Procs, TakesRow(p) PROVE FALSE
  <2>1. gc[p].pc = "apply"
    BY <1>4 DEF TakesRow, Takes
  <2>2. Clears(s)
    <3>1. writer[s].q # <<>> /\ writer[s].q[1] = 0
      BY DEF QueuesOK, QueueOK
    <3>2. QED BY <3>1, HeadFacts DEF Clears
  <2>3. QED BY <2>1, <2>2 DEF CollectorsOK, Collects
<1>5. ASSUME NEW t, NEW e, Inserts(t, e)
      PROVE  /\ rows \subseteq rows' /\ \A d \in rows' : d.pane = sessions[s] => d \in rows
  <2>1. t \in 1..MaxSessions /\ Alive(t) /\ WriterShape(t)
    BY <1>5 DEF Inserts, Writes, WriterShape
  <2>2. rows' = rows \cup {e} /\ e.pane = sessions[t]
    BY <1>5, <2>1, QueueAlive DEF Inserts, Inserted
  <2>3. QED BY <1>2, <2>1, <2>2
<1>6. ASSUME NEW t, Chips(t)
      PROVE  /\ \A c \in rows : c.pane = sessions[s] => c \in rows'
             /\ \A d \in rows' : d.pane = sessions[s] => d \in rows
  <2>1. t \in 1..MaxSessions /\ Alive(t) /\ WriterShape(t) /\ writer[t].pc = "rowed"
    BY <1>6 DEF Chips, Writes, WriterShape
  <2>2. PICK e \in rows : e.id = writer[t].id /\ Path(e) = Here(t)
    BY <2>1 DEF WritersRows, WriterRows
  <2>3. e.pane = sessions[t]
    BY <2>2 DEF Path, Here, Types, DbTypes
  <2>4. ASSUME NEW c \in rows, c.pane = sessions[s] PROVE c.id # writer[t].id
    BY <1>2, <2>1, <2>2, <2>3, <2>4 DEF Types, DbTypes
  <2>5. ASSUME NEW c \in ChunkRow, NEW d \in ChunkRow, SameButLabel(c, d), c.label = d.label
        PROVE  c = d
    BY <2>5 DEF SameButLabel, ChunkRow
  <2>6. Relabeled(writer[t].id, writer[t].q[1]) /\ rows \subseteq ChunkRow
    BY <1>6 DEF Chips, Types, DbTypes
  <2>7. ASSUME NEW c \in rows, c.pane = sessions[s] PROVE c \in rows'
    <3>1. PICK d \in rows' : SameButLabel(c, d) /\ d.label = c.label
      BY <2>4, <2>6, <2>7 DEF Relabeled
    <3>2. QED BY <2>5, <2>6, <3>1 DEF Relabeled
  <2>8. ASSUME NEW d \in rows', d.pane = sessions[s] PROVE d \in rows
    <3>1. PICK c \in rows : SameButLabel(c, d) /\ d.label = IF c.id = writer[t].id THEN writer[t].q[1] ELSE c.label
      BY <2>6 DEF Relabeled
    <3>2. c.pane = sessions[s]
      BY <2>8, <3>1 DEF SameButLabel
    <3>3. QED BY <2>4, <2>5, <2>6, <3>1, <3>2 DEF Relabeled
  <2>9. QED BY <2>7, <2>8
<1>7. /\ \A c \in rows : c.pane = sessions[s] => c \in rows'
      /\ \A d \in rows' : d.pane = sessions[s] => d \in rows
  <2>1. ASSUME NEW t, Purges(t) PROVE rows' \subseteq rows
    BY <2>1 DEF Purges
  <2>2. QED BY <1>3, <1>4, <1>5, <1>6, <2>1, RowsShape
<1>8. ASSUME NEW c \in PaneRows(sessions[s]), Path(c) \in DOMAIN files', Path(c) \notin DOMAIN files
      PROVE  FALSE
  <2>1. PICK t : Renames(t) /\ Path(c) = Here(t)
    BY <1>8, FilesFrom
  <2>2. t \in 1..MaxSessions /\ Alive(t) /\ WriterShape(t)
    BY <2>1 DEF Renames, Writes, WriterShape
  <2>3. c.pane = sessions[t]
    BY <1>8, <2>1 DEF Path, Here, PaneRows, Types, DbTypes
  <2>4. QED BY <1>2, <1>8, <2>2, <2>3 DEF PaneRows
<1>9. PaneRows(sessions[s])' = PaneRows(sessions[s])
  BY <1>1, <1>7 DEF PaneRows
<1>10. QED BY <1>8, <1>9

\* What a clear has listed, once it has
Cleared(s) ==
  /\ \A c \in PaneRows(sessions[s]) : \E i \in DOMAIN writer[s].todo : writer[s].todo[i] = c
  /\ \A i \in DOMAIN writer[s].todo : writer[s].todo[i] \in PaneRows(sessions[s])
  /\ \A i, j \in DOMAIN writer[s].todo : writer[s].todo[i] = writer[s].todo[j] => i = j
  /\ writer[s].pc = "purge" => \A c \in PaneRows(sessions[s]) : Path(c) \notin DOMAIN files

\* A clear's list is not disturbed by others.
LEMMA ClearOthers ==
  ASSUME GcInv, WritersRows, ClearRows, Shape, SessionsKept,
         NEW s \in 1..MaxSessions, Alive(s), writer[s].pc \in {"unlink", "purge"},
         ~WriterShape(s), writer'[s].pc = writer[s].pc, writer'[s].todo = writer[s].todo
  PROVE  Cleared(s)'
<1>1. Cleared(s)
  BY DEF ClearRows, Cleared
<1>2. sessions'[s] = sessions[s]
  BY AliveSessions DEF GcInv
<1>3. PICK r : r = sessions[s]
  OBVIOUS
<1>4. PaneRows(r)' = PaneRows(r) /\ \A c \in PaneRows(r) : Path(c) \in DOMAIN files' => Path(c) \in DOMAIN files
  <2>1. PaneRows(r)' = PaneRows(sessions[s])'
    BY <1>2, <1>3 DEF PaneRows
  <2>2. QED BY <1>3, <2>1, ClearAlone
<1>5. QED BY <1>1, <1>2, <1>3, <1>4 DEF Cleared

\* A clear lists all rows of its pane.
LEMMA ListedRows ==
  ASSUME GcInv, NEW s \in 1..MaxSessions, ListsAll(s)
  PROVE  Cleared(s)'
<1> USE DEF GcInv
<1>1. /\ Alive(s) /\ sessions' = sessions /\ rows' = rows
      /\ writer'[s].pc = "unlink" /\ writer'[s].todo = Ordered(PaneRows(writer[s].row))
  BY DEF ListsAll, Writes, WriterBecomes
<1>2. PICK r : r = sessions[s] /\ r = writer[s].row
  BY <1>1, QueueAlive
<1>3. PICK o : o = Ordered(PaneRows(r))
  OBVIOUS
<1>4. Lists(o, PaneRows(r)) /\ PaneRows(r) \in SUBSET ChunkRow
  BY <1>3, PaneRowsListed
<1>5. DOMAIN o = 1..Len(o) /\ \A i \in DOMAIN o : o[i] \in PaneRows(r)
  BY <1>4 DEF Lists
<1>6. ASSUME NEW i \in DOMAIN o, NEW j \in DOMAIN o, o[i] = o[j], i < j PROVE FALSE
  <2>1. Precedes(o[i], o[i]) /\ o[i] \in ChunkRow
    BY <1>4, <1>5, <1>6 DEF Lists
  <2>2. o[i].start \in Nat /\ o[i].id \in Nat
    BY <2>1 DEF ChunkRow
  <2>3. QED BY <2>1, <2>2 DEF Precedes
<1>7. \A i, j \in DOMAIN o : o[i] = o[j] => i = j
  <2>1. \A i, j \in DOMAIN o : i = j \/ i < j \/ j < i
    BY <1>4, <1>5 DEF Lists
  <2>2. QED BY <1>6, <2>1
<1>8. \A c \in PaneRows(r) : \E i \in DOMAIN o : o[i] = c
  BY <1>4, <1>5 DEF Lists
<1>9. PaneRows(sessions[s])' = PaneRows(r) /\ writer'[s].todo = o /\ writer'[s].pc # "purge"
  BY <1>1, <1>2, <1>3 DEF PaneRows
<1>10. QED BY <1>5, <1>7, <1>8, <1>9 DEF Cleared

\* A row deleted is off the list.
LEMMA PurgedRows ==
  ASSUME GcInv, ClearRows, NEW s \in 1..MaxSessions, Purges(s)
  PROVE  Cleared(s)'
<1> USE DEF GcInv
<1>1. /\ Alive(s) /\ sessions' = sessions /\ files' = files /\ writer[s].pc = "purge"
      /\ writer[s].todo # <<>> /\ rows' = {c \in rows : c.id # writer[s].todo[1].id}
      /\ writer'[s].todo = Tail(writer[s].todo) /\ writer'[s].pc = "purge"
  BY DEF Purges, Writes, WriterBecomes
<1>2. PICK r : r = sessions[s]
  OBVIOUS
<1>3. PICK t \in Seq(ChunkRow) : t = writer[s].todo
  BY WriterRecord
<1>4. /\ 1 \in DOMAIN t
      /\ \A i \in DOMAIN Tail(t) : i + 1 \in DOMAIN t /\ i + 1 # 1 /\ Tail(t)[i] = t[i + 1]
      /\ \A i \in DOMAIN t : i # 1 => i - 1 \in DOMAIN Tail(t) /\ Tail(t)[i - 1] = t[i]
  <2>1. t # <<>>
    BY <1>1, <1>3
  <2>2. 1 \in DOMAIN t
    BY <2>1
  <2>3. \A i \in DOMAIN Tail(t) : i + 1 \in DOMAIN t /\ i + 1 # 1 /\ Tail(t)[i] = t[i + 1]
    BY <2>1
  <2>4. \A i \in DOMAIN t : i # 1 => i - 1 \in DOMAIN Tail(t) /\ Tail(t)[i - 1] = t[i]
    BY <2>1
  <2>5. QED BY <2>2, <2>3, <2>4
<1>5. /\ \A c \in PaneRows(r) : \E i \in DOMAIN t : t[i] = c
      /\ \A i \in DOMAIN t : t[i] \in PaneRows(r)
      /\ \A i, j \in DOMAIN t : t[i] = t[j] => i = j
      /\ \A c \in PaneRows(r) : Path(c) \notin DOMAIN files
  BY <1>1, <1>2, <1>3 DEF ClearRows
<1>6. PaneRows(r)' = {c \in PaneRows(r) : c.id # t[1].id}
  BY <1>1, <1>3 DEF PaneRows
<1>7. \A i \in DOMAIN t : t[i].id = t[1].id => i = 1
  BY <1>4, <1>5 DEF PaneRows, Types, DbTypes
<1>8. ASSUME NEW c \in PaneRows(r)' PROVE \E i \in DOMAIN Tail(t) : Tail(t)[i] = c
  <2>1. PICK i \in DOMAIN t : t[i] = c
    BY <1>5, <1>6
  <2>2. i # 1
    BY <1>6, <2>1
  <2>3. QED BY <1>4, <2>1, <2>2
<1>9. \A i \in DOMAIN Tail(t) : Tail(t)[i] \in PaneRows(r)'
  <2> SUFFICES ASSUME NEW i \in DOMAIN Tail(t) PROVE Tail(t)[i] \in PaneRows(r)'
    OBVIOUS
  <2>1. PICK k : k = i + 1
    OBVIOUS
  <2>2. k \in DOMAIN t /\ k # 1 /\ Tail(t)[i] = t[k]
    BY <1>4, <2>1
  <2>3. QED BY <1>5, <1>6, <1>7, <2>2
<1>10. ASSUME NEW i \in DOMAIN Tail(t), NEW j \in DOMAIN Tail(t), Tail(t)[i] = Tail(t)[j] PROVE i = j
  <2>1. i + 1 = j + 1
    BY <1>4, <1>5, <1>10
  <2>2. i \in Nat /\ j \in Nat
    OBVIOUS
  <2>3. QED BY <2>1, <2>2
<1>11. sessions'[s] = r /\ writer'[s].todo = Tail(t) /\ files' = files
  BY <1>1, <1>2, <1>3
<1>12. PaneRows(sessions[s])' = PaneRows(r)' /\ PaneRows(r)' \subseteq PaneRows(r)
  BY <1>6, <1>11 DEF PaneRows
<1>13. QED BY <1>5, <1>8, <1>9, <1>10, <1>11, <1>12 DEF Cleared

\* A clear's list is what is left of its pane's rows.
LEMMA ClearRowsNext ==
  ASSUME GcInv, WritersRows, ClearRows, Shape, SessionsKept
  PROVE  ClearRows'
<1> USE DEF GcInv
<1>1. SUFFICES ASSUME NEW s \in 1..MaxSessions, Alive(s)', writer'[s].pc \in {"unlink", "purge"}
               PROVE  Cleared(s)'
  BY DEF ClearRows, Cleared
<1>2. ASSUME Alive(s), ~WriterShape(s), writer'[s] = writer[s] \/ \E b : Queued(s, b)
      PROVE  Cleared(s)'
  <2>1. writer'[s].pc = writer[s].pc /\ writer'[s].todo = writer[s].todo
    BY <1>2 DEF Queued, WriterBecomes
  <2>2. QED BY <1>1, <1>2, <2>1, ClearOthers
<1>3. ASSUME Alive(s), WriterShape(s) PROVE Cleared(s)'
  <2>1. sessions' = sessions
    BY <1>3, ShapeWriter DEF Writes
  <2>2. CASE ListsAll(s)
    BY <2>2, ListedRows
  <2>3. CASE Purges(s)
    BY <2>3, PurgedRows
  <2>4. ASSUME NEW i, UnlinksOne(s, i) PROVE Cleared(s)'
    <3>1. writer' = writer /\ rows' = rows /\ writer[s].pc = "unlink"
      BY <2>4 DEF UnlinksOne, Unlinks
    <3>2. QED BY <1>3, <2>1, <3>1 DEF ClearRows, Cleared, PaneRows
  <2>5. CASE UnlinkedAll(s)
    <3>1. /\ writer'[s].pc = "purge" /\ writer'[s].todo = writer[s].todo /\ writer[s].pc = "unlink"
          /\ UNCHANGED <<rows, files>>
          /\ \A i \in DOMAIN writer[s].todo : Path(writer[s].todo[i]) \notin DOMAIN files
      BY <2>5 DEF UnlinkedAll, NoneLeft, WriterBecomes
    <3>2. Cleared(s)
      BY <1>3, <3>1 DEF ClearRows, Cleared
    <3>3. \A c \in PaneRows(sessions[s]) : Path(c) \notin DOMAIN files
      BY <3>1, <3>2 DEF Cleared
    <3>4. PaneRows(sessions[s])' = PaneRows(sessions[s])
      BY <2>1, <3>1 DEF PaneRows
    <3>5. QED BY <2>1, <3>1, <3>2, <3>3, <3>4 DEF Cleared
  <2>6. ASSUME NEW c, Inserts(s, c) PROVE FALSE
    BY <1>1, <2>6 DEF Inserts, WriterBecomes
  <2>7. ~Temps(s) /\ ~Renames(s) /\ ~Fails(s) /\ ~Chips(s) /\ ~Purged(s)
    BY <1>1 DEF Temps, Renames, Filing, Fails, Chips, Purged, WriterBecomes
  <2>8. QED BY <1>3, <2>2, <2>3, <2>4, <2>5, <2>6, <2>7 DEF WriterShape
<1>4. ASSUME NEW p \in Procs, Wakes(p), s = ui[p].session PROVE FALSE
  BY <1>1, <1>4 DEF Wakes, Resumes, Resumed, NoWriter
<1>5. QED BY <1>1, <1>2, <1>3, <1>4, AliveFrom

Remains(c) == \E d \in rows' : d.id = c.id /\ d.pane = c.pane /\ Path(d) = Path(c)

\* What a collector saw stays there while it works, what it deletes itself apart.
LEMMA StillStays ==
  ASSUME GcInv, Shape, NEW p \in Procs, Collects(p), NEW c, StillThere(c),
         TakesRow(p) => gc[p].todo[1].id # c.id
  PROVE  Remains(c)
<1> USE DEF GcInv
<1>1. PICK d \in rows : d.id = c.id /\ d.pane = c.pane /\ Path(d) = Path(c)
  BY DEF StillThere
<1>2. ASSUME d \in rows' PROVE Remains(c)
  BY <1>1, <1>2 DEF Remains, Path
<1>3. ASSUME NEW e \in rows', SameButLabel(d, e) PROVE Remains(c)
  <2>1. e.id = c.id /\ e.pane = c.pane /\ Path(e) = Path(c)
    BY <1>1, <1>3, PathSame DEF SameButLabel
  <2>2. QED BY <2>1 DEF Remains, Path
<1>4. ASSUME NEW t, Chips(t) PROVE \E e \in rows' : SameButLabel(d, e)
  BY <1>4 DEF Chips, Relabeled
<1>5. ASSUME NEW t, NEW e, Inserts(t, e) PROVE d \in rows'
  BY <1>5 DEF Inserts, Inserted
<1>6. ASSUME NEW t, Purges(t) PROVE FALSE
  <2>1. t \in 1..MaxSessions /\ writer[t].pc = "purge" /\ writer[t].q # <<>>
    BY <1>6 DEF Purges, Writes
  <2>2. Clears(t)
    <3>1. writer[t].q[1] = 0
      BY <2>1 DEF QueuesOK, QueueOK
    <3>2. QED BY <2>1, <3>1, HeadFacts DEF Clears
  <2>3. QED BY <2>1, <2>2 DEF CollectorsOK
<1>7. ASSUME NEW q \in Procs, TakesRow(q) PROVE d \in rows'
  <2>1. q = p
    BY <1>7 DEF TakesRow, Takes, CollectorsOK, Collects
  <2>2. QED BY <1>1, <1>7, <2>1 DEF TakesRow
<1>8. QED BY <1>2, <1>3, <1>4, <1>5, <1>6, <1>7, RowsShape

GcRowsOf(p) ==
  /\ gc[p].pc = "probe" => \A c \in gc[p].rows : StillThere(c)
  /\ \A c, d \in gc[p].rows : c.id = d.id => c = d
  /\ \A i \in DOMAIN gc[p].todo : StillThere(gc[p].todo[i]) /\ gc[p].todo[i].pane \in gc[p].dead
  /\ \A i, j \in DOMAIN gc[p].todo : gc[p].todo[i].id = gc[p].todo[j].id => i = j

\* The same of what the collector becomes
GcRowsAs(pc, seen, dead, todo) ==
  /\ pc = "probe" => \A c \in seen : Remains(c)
  /\ \A c, d \in seen : c.id = d.id => c = d
  /\ \A i \in DOMAIN todo : Remains(todo[i]) /\ todo[i].pane \in dead
  /\ \A i, j \in DOMAIN todo : todo[i].id = todo[j].id => i = j

\* The collector's invariant about rows, by its fields.
LEMMA GcRowsFrom ==
  ASSUME NEW p \in Procs, GcRowsAs(gc'[p].pc, gc'[p].rows, gc'[p].dead, gc'[p].todo)
  PROVE  GcRowsOf(p)'
<1>1. PICK g : g = gc'
  OBVIOUS
<1>2. \A c : StillThere(c)' <=> Remains(c)
  BY DEF StillThere, Remains, Path
<1>3. GcRowsAs(g[p].pc, g[p].rows, g[p].dead, g[p].todo)
  BY <1>1
<1>4. QED BY <1>1, <1>2, <1>3 DEF GcRowsAs, GcRowsOf

\* A row the collector deletes is off its list.
LEMMA GcTakesRow ==
  ASSUME GcInv, GcRows, Shape, NEW p \in Procs, TakesRow(p)
  PROVE  GcRowsAs(gc'[p].pc, gc'[p].rows, gc'[p].dead, gc'[p].todo)
<1> USE DEF GcInv
<1>1. /\ gc[p].pc = "apply" /\ gc[p].todo # <<>> /\ Collects(p)
      /\ gc'[p].pc = "apply" /\ gc'[p].rows = gc[p].rows /\ gc'[p].dead = gc[p].dead
      /\ gc'[p].todo = Tail(gc[p].todo)
  BY DEF TakesRow, Takes, GcBecomes, Collects
<1>2. PICK t \in Seq(ChunkRow) : t = gc[p].todo
  BY DEF Types, ProcTypes, IsGc
<1>3. 1 \in DOMAIN t
  BY <1>1, <1>2
<1>4. \A i \in DOMAIN Tail(t) : i + 1 \in DOMAIN t /\ i + 1 # 1 /\ Tail(t)[i] = t[i + 1]
  BY <1>1, <1>2
<1>5. GcRowsOf(p)
  BY DEF GcRows, GcRowsOf
<1>6. ASSUME NEW i \in DOMAIN Tail(t)
      PROVE  Remains(Tail(t)[i]) /\ Tail(t)[i].pane \in gc[p].dead
  <2>1. PICK k : k = i + 1
    OBVIOUS
  <2>2. k \in DOMAIN t /\ k # 1 /\ Tail(t)[i] = t[k]
    BY <1>4, <2>1
  <2>3. StillThere(t[k]) /\ t[k].pane \in gc[p].dead /\ t[1].id # t[k].id
    BY <1>2, <1>3, <1>5, <2>2 DEF GcRowsOf
  <2>4. PICK c : c = t[k]
    OBVIOUS
  <2>5. Remains(c)
    BY <1>1, <1>2, <2>3, <2>4, StillStays
  <2>6. QED BY <2>2, <2>3, <2>4, <2>5
<1>7. ASSUME NEW i \in DOMAIN Tail(t), NEW j \in DOMAIN Tail(t), Tail(t)[i].id = Tail(t)[j].id
      PROVE  i = j
  <2>1. i + 1 = j + 1
    BY <1>2, <1>4, <1>5, <1>7 DEF GcRowsOf
  <2>2. i \in Nat /\ j \in Nat
    OBVIOUS
  <2>3. QED BY <2>1, <2>2
<1>8. \A c, d \in gc[p].rows : c.id = d.id => c = d
  BY <1>5 DEF GcRowsOf
<1>9. GcRowsAs("apply", gc[p].rows, gc[p].dead, Tail(t))
  BY <1>6, <1>7, <1>8 DEF GcRowsAs
<1>10. QED BY <1>1, <1>2, <1>9

\* A collector that has seen nothing is right about rows.
LEMMA GcRowsBlank ==
  ASSUME NEW g, BlankGc(g) PROVE GcRowsAs(g.pc, g.rows, g.dead, g.todo)
BY DEF GcRowsAs, BlankGc

\* A collector that deletes no row is still right about the rows it saw.
LEMMA GcGoesRows ==
  ASSUME GcInv, GcRows, Shape, NEW p \in Procs, ~TakesRow(p), Collects(p), GcGoes(p)
  PROVE  GcRowsAs(gc'[p].pc, gc'[p].rows, gc'[p].dead, gc'[p].todo)
<1> USE DEF GcInv
<1>1. \A c : StillThere(c) => Remains(c)
  <2>1. ASSUME NEW c, StillThere(c) PROVE Remains(c)
    BY <2>1, StillStays
  <2>2. QED BY <2>1
<1>2. PICK t \in Seq(ChunkRow) : t = gc[p].todo
  BY DEF Types, ProcTypes, IsGc
<1>3. GcRowsOf(p)
  BY DEF GcRows, GcRowsOf
<1>4. ASSUME NEW pc, NEW dead, gc[p].dead \subseteq dead, pc = "probe" => gc[p].pc = "probe"
      PROVE  GcRowsAs(pc, gc[p].rows, dead, gc[p].todo)
  <2>1. \A c, d \in gc[p].rows : c.id = d.id => c = d
    BY <1>3 DEF GcRowsOf
  <2>2. \A i, j \in DOMAIN gc[p].todo : gc[p].todo[i].id = gc[p].todo[j].id => i = j
    BY <1>3 DEF GcRowsOf
  <2>3. pc = "probe" => \A c \in gc[p].rows : Remains(c)
    BY <1>1, <1>3, <1>4 DEF GcRowsOf
  <2>4. \A i \in DOMAIN gc[p].todo : Remains(gc[p].todo[i]) /\ gc[p].todo[i].pane \in dead
    BY <1>1, <1>3, <1>4 DEF GcRowsOf
  <2>5. QED BY <2>1, <2>2, <2>3, <2>4 DEF GcRowsAs
<1>5. CASE gc'[p] = NoGc
  <2>1. BlankGc(gc'[p])
    BY <1>5, BlankStarts
  <2>2. QED BY <2>1, GcRowsBlank
<1>6. CASE gc[p].pc = "apply" /\ gc'[p] = gc[p]
  BY <1>4, <1>6
<1>7. CASE /\ ListChunks(p)
           /\ GcBecomes(p, "probe", rows, LatestOfSeen, gc[p].dead, gc[p].probing, gc[p].todo)
  <2>1. gc[p].todo = <<>>
    BY <1>7 DEF ListChunks, GcStarts, BlankGc
  <2>2. rows' = rows
    BY <1>7 DEF ListChunks, dbVars
  <2>3. \A c \in rows : Remains(c)
    BY <2>2 DEF Remains, Path
  <2>4. \A c, d \in rows : c.id = d.id => c = d
    BY DEF Types, DbTypes
  <2>5. GcRowsAs("probe", rows, gc[p].dead, gc[p].todo)
    BY <2>1, <2>3, <2>4 DEF GcRowsAs
  <2>6. QED BY <1>7, <2>5 DEF GcBecomes
<1>8. CASE /\ gc[p].pc = "probe"
           /\ GcBecomes(p, "probe", gc[p].rows, gc[p].latest, gc[p].dead, 0, gc[p].todo)
  BY <1>4, <1>8 DEF GcBecomes
<1>9. CASE gc[p].pc = "apply" /\ gc[p].todo # <<>>
             /\ GcBecomes(p, "apply", gc[p].rows, gc[p].latest, gc[p].dead, gc[p].probing,
                          Tail(gc[p].todo))
  <2>1. t # <<>>
    BY <1>2, <1>9
  <2>2. \A i \in DOMAIN Tail(t) : i + 1 \in DOMAIN t /\ Tail(t)[i] = t[i + 1]
    BY <2>1
  <2>3. \A i \in DOMAIN Tail(t) : Remains(Tail(t)[i]) /\ Tail(t)[i].pane \in gc[p].dead
    BY <1>1, <1>2, <1>3, <2>2 DEF GcRowsOf
  <2>4. ASSUME NEW i \in DOMAIN Tail(t), NEW j \in DOMAIN Tail(t), Tail(t)[i].id = Tail(t)[j].id
        PROVE  i = j
    <3>1. i + 1 = j + 1
      BY <1>2, <1>3, <2>2, <2>4 DEF GcRowsOf
    <3>2. i \in Nat /\ j \in Nat
      OBVIOUS
    <3>3. QED BY <3>1, <3>2
  <2>5. GcRowsAs("apply", gc[p].rows, gc[p].dead, Tail(t))
    BY <1>3, <2>3, <2>4 DEF GcRowsAs, GcRowsOf
  <2>6. QED BY <1>2, <1>9, <2>5 DEF GcBecomes
<1>10. ASSUME NEW todo, Chosen(p, todo)
       PROVE  GcRowsAs(gc'[p].pc, gc'[p].rows, gc'[p].dead, gc'[p].todo)
  <2>1. /\ gc[p].pc = "probe" /\ DOMAIN todo = 1..Len(todo)
        /\ \A i \in DOMAIN todo : todo[i] \in gc[p].rows /\ todo[i].pane \in gc[p].dead
        /\ \A i, j \in DOMAIN todo : todo[i] = todo[j] => i = j
    BY <1>10 DEF Chosen
  <2>2. \A i \in DOMAIN todo : Remains(todo[i])
    BY <1>1, <1>3, <2>1 DEF GcRowsOf
  <2>3. \A i, j \in DOMAIN todo : todo[i].id = todo[j].id => i = j
    BY <1>3, <2>1 DEF GcRowsOf
  <2>4. GcRowsAs("apply", gc[p].rows, gc[p].dead, todo)
    BY <1>3, <2>1, <2>2, <2>3 DEF GcRowsAs, GcRowsOf
  <2>5. QED BY <1>10, <2>4 DEF Chosen, GcBecomes
<1>11. ASSUME NEW r \in Unprobed(p),
              \/ GcBecomes(p, "probe", gc[p].rows, Forget(gc[p].latest, r), gc[p].dead \cup {r},
                           gc[p].latest[r], gc[p].todo)
              \/ GcBecomes(p, "probe", gc[p].rows, Forget(gc[p].latest, r), gc[p].dead,
                           gc[p].probing, gc[p].todo),
              gc[p].pc = "probe"
       PROVE  GcRowsAs(gc'[p].pc, gc'[p].rows, gc'[p].dead, gc'[p].todo)
  BY <1>4, <1>11 DEF GcBecomes
<1>12. \A r : ProbeFree(p, r) => gc[p].pc = "probe"
  BY DEF ProbeFree
<1>13. QED BY <1>5, <1>6, <1>7, <1>8, <1>9, <1>10, <1>11, <1>12 DEF GcGoes

\* What the collector saw is there as long as it works.
LEMMA GcRowsNext ==
  ASSUME GcInv, GcRows, Shape, [Next]_vars
  PROVE  GcRows'
<1> USE DEF GcInv
<1>1. SUFFICES ASSUME NEW p \in Procs
               PROVE  GcRowsAs(gc'[p].pc, gc'[p].rows, gc'[p].dead, gc'[p].todo)
  BY GcRowsFrom DEF GcRows, GcRowsOf
<1>2. CASE TakesRow(p)
  BY <1>2, GcTakesRow
<1>3. CASE ~TakesRow(p) /\ GcStep(p)
  <2>1. Collects(p)
    <3>1. ASSUME NEW r, ProbeFree(p, r) \/ ProbeLive(p, r) PROVE gc[p].pc = "probe"
      BY <3>1 DEF ProbeFree, ProbeLive
    <3>2. gc[p].pc \in {"list", "probe", "apply"}
      BY <1>3, <3>1 DEF GcStep, ListChunks, EndProbe, ChooseDoomed, DeleteFile, DeleteRow,
                        SweepTemps
    <3>3. QED BY <3>2 DEF Collects
  <2>2. QED BY <1>3, <2>1, GcGoesWhen, GcGoesRows
<1>4. CASE ~TakesRow(p) /\ gc'[p] = gc[p]
  <2>1. CASE BlankGc(gc[p])
    BY <1>4, <2>1, GcRowsBlank
  <2>2. CASE ~BlankGc(gc[p])
    <3>1. Collects(p)
      BY <2>2 DEF GcStarts, Collects
    <3>2. GcRowsOf(p)
      BY DEF GcRows, GcRowsOf
    <3>3. \A c : StillThere(c) => Remains(c)
      <4>1. ASSUME NEW c, StillThere(c) PROVE Remains(c)
        BY <1>4, <3>1, <4>1, StillStays
      <4>2. QED BY <4>1
    <3>4. GcRowsAs(gc[p].pc, gc[p].rows, gc[p].dead, gc[p].todo)
      BY <3>2, <3>3 DEF GcRowsOf, GcRowsAs
    <3>5. QED BY <1>4, <3>4
  <2>3. QED BY <2>1, <2>2
<1>5. CASE gc'[p] \in {NoGc, [NoGc EXCEPT !.pc = "list"]}
  BY <1>5, BlankStarts, GcRowsBlank
<1>6. QED BY <1>2, <1>3, <1>4, <1>5, GcMoves

-----------------------------------------------------------------------------
\* The invariant of the disk

\* The invariant of the disk holds at first.
LEMMA DiskInvInit == ASSUME Init PROVE DiskInv
<1>1. GcInv
  BY GcInvInit
<1>2. /\ rows = {} /\ files = <<>> /\ \A s \in 1..MaxSessions : writer[s] = NoWriter
      /\ \A s \in 1..MaxSessions : ~Alive(s)
  BY StoreAssumption DEF Init, Alive
<1>3. \A p \in Procs : gc[p].rows = {} /\ gc[p].todo = <<>>
  BY DEF Init, NoGc
<1>4. \A s \in 1..MaxSessions : writer[s].pc = "idle" /\ DOMAIN writer[s].q = {}
  BY <1>2 DEF NoWriter
<1>5. DOMAIN files = {}
  BY <1>2
<1>6. FilesOK
  BY <1>4, <1>5 DEF FilesOK, FilesApart, WaitingUnfiled, FiledHere, Waits
<1>7. RowsOK /\ WritersRows /\ StartRows
  BY <1>2 DEF RowsOK, WritersRows, StartRows
<1>8. ClearRows /\ GcRows
  BY <1>2, <1>3 DEF ClearRows, GcRows
<1>9. QED BY <1>1, <1>6, <1>7, <1>8 DEF DiskInv

\* Every step keeps the invariant of the disk.
LEMMA DiskInvNext ==
  ASSUME CalmUser, DiskInv, [Next]_vars
  PROVE  DiskInv' /\ Shape /\ SessionsKept
<1> USE DEF DiskInv
<1>1. GcInv'
  BY GcInvNext DEF CalmUser
<1>2. Types /\ Own /\ QueuesOK /\ QueuesOK' /\ DbTypes' /\ FreshRows'
  BY <1>1 DEF GcInv, Types
<1>3. Shape
  BY <1>2, ShapeWhen
<1>4. SessionsKept
  BY <1>2, SessionsStay DEF SessionsKept
<1>5. FilesOK'
  BY <1>2, <1>3, FilesOKNext
<1>6. RowsOK'
  BY <1>2, <1>3, RowsOKNext
<1>7. WritersRows'
  BY <1>3, <1>4, WritersRowsNext
<1>8. StartRows'
  BY <1>2, <1>3, StartRowsNext
<1>9. ClearRows'
  BY <1>3, <1>4, ClearRowsNext
<1>10. GcRows'
  BY <1>3, GcRowsNext
<1>11. QED BY <1>1, <1>3, <1>4, <1>5, <1>6, <1>7, <1>8, <1>9, <1>10

-----------------------------------------------------------------------------
\* Stored blocks come and go

\* The name a writer has come to is no row's.
LEMMA NameIsNew ==
  ASSUME DiskInv, NEW s, Renames(s), NEW c \in rows
  PROVE  Path(c) # Here(s)
<1>1. s \in 1..MaxSessions /\ Alive(s) /\ writer[s].pc = "temp"
  BY DEF Renames, Writes
<1>2. WriterRows(s)
  BY <1>1 DEF DiskInv, WritersRows
<1>3. c.session = s => c.seq < writer[s].seq
  BY <1>1, <1>2 DEF WriterRows, Written
<1>4. c.seq \in Nat /\ writer[s].seq \in Nat
  BY <1>1, WriterRecord DEF DiskInv, GcInv, Types, DbTypes, ChunkRow
<1>5. Path(c) = <<c.session, c.seq>> /\ Here(s) = <<s, writer[s].seq>>
  BY DEF Path, Here, W
<1>6. QED BY <1>3, <1>4, <1>5

\* The row whose chips are being written holds the head of the queue.
LEMMA WrittenRow ==
  ASSUME DiskInv, NEW s \in 1..MaxSessions, Alive(s), NEW c \in rows, Written(s, c)
  PROVE  /\ Path(c) = Here(s) /\ c.session = s /\ c.pane = sessions[s]
         /\ Path(c) \in DOMAIN files /\ files[Path(c)] = writer[s].q[1]
<1>1. PICK e \in rows : e.id = writer[s].id /\ Path(e) = Here(s)
  BY DEF DiskInv, WritersRows, WriterRows, Written
<1>2. e = c
  BY <1>1 DEF Written, DiskInv, GcInv, Types, DbTypes
<1>3. c.session = s
  BY <1>1, <1>2 DEF Path, Here
<1>4. c.pane = sessions[s]
  BY <1>3 DEF DiskInv, GcInv, Types, DbTypes
<1>5. writer[s].pc = "rowed"
  BY DEF Written
<1>6. QED BY <1>1, <1>2, <1>3, <1>4, <1>5 DEF DiskInv, FilesOK, FiledHere

\* A stored row goes on as it was, with or without chips.
GoesAs(c, d) ==
  /\ SameButLabel(c, d) /\ Path(d) = Path(c) /\ files'[Path(d)] = files[Path(c)]
  /\ d.label \in {c.label, files[Path(c)]}

\* The row just inserted is stored.
Files(s, d) ==
  /\ Inserts(s, d) /\ s \in 1..MaxSessions /\ Alive(s) /\ WriterShape(s)
  /\ d.pane = sessions[s] /\ d.pane = writer[s].row /\ d.label = 0
  /\ writer[s].pc = "renamed" /\ writer[s].q # <<>> /\ writer[s].q[1] # 0
  /\ Path(d) \in DOMAIN files' /\ files'[Path(d)] = writer[s].q[1]
  /\ writer'[s].q = writer[s].q /\ Written(s, d)' /\ \A e \in rows : e.id < d.id

\* An inserted row has its file.
LEMMA InsertedIsStored ==
  ASSUME DiskInv, NEW s, NEW d, Inserts(s, d)
  PROVE  Files(s, d) /\ d \in StoredRows'
<1> USE DEF DiskInv, GcInv
<1>1. s \in 1..MaxSessions /\ Alive(s) /\ files' = files /\ writer[s].pc = "renamed" /\ Inserted(s, d)
  BY DEF Inserts, Writes
<1>2. writer'[s].q = writer[s].q /\ writer'[s].pc = "rowed" /\ writer'[s].id = NextRowId
  BY DEF Inserts, WriterBecomes
<1>3. Path(d) = Here(s)
  BY <1>1 DEF Inserted, Path, Here, W
<1>4. Here(s) \in DOMAIN files /\ files[Here(s)] = writer[s].q[1]
  BY <1>1 DEF FilesOK, FiledHere
<1>5. d.pane = sessions[s] /\ d.pane = writer[s].row
  BY <1>1, QueueAlive DEF Inserted
<1>6. /\ d.id = NextRowId /\ d.label = 0 /\ d \in rows' /\ writer[s].q # <<>> /\ writer[s].q[1] # 0
      /\ \A e \in rows : e.id < d.id
  BY <1>1 DEF Inserted
<1>7. Path(d)' = Path(d)
  BY DEF Path
<1>8. WriterShape(s)
  BY DEF WriterShape
<1>9. Written(s, d)'
  BY <1>2, <1>6 DEF Written
<1>10. QED BY <1>1, <1>2, <1>3, <1>4, <1>5, <1>6, <1>7, <1>8, <1>9 DEF Files, StoredRows

\* A stored row was stored before, its label apart, or has just been inserted.
LEMMA StoredFrom ==
  ASSUME DiskInv, Shape, NEW d \in StoredRows'
  PROVE  (\E c \in StoredRows : GoesAs(c, d)) \/ \E s : Files(s, d)
<1> USE DEF DiskInv, GcInv
<1>1. d \in rows' /\ Path(d) \in DOMAIN files'
  BY DEF StoredRows, Path
<1>2. ASSUME NEW c \in rows, SameButLabel(c, d)
      PROVE  c \in StoredRows /\ Path(d) = Path(c) /\ files'[Path(d)] = files[Path(c)]
  <2>1. Path(d) = Path(c)
    BY <1>2, PathSame
  <2>2. ASSUME NEW t, Renames(t), Path(c) = Here(t) PROVE FALSE
    BY <2>2, NameIsNew
  <2>3. PICK x : x = Path(c)
    OBVIOUS
  <2>4. x \in DOMAIN files /\ files'[x] = files[x]
    BY <1>1, <2>1, <2>2, <2>3, FilesFrom
  <2>5. QED BY <2>1, <2>3, <2>4 DEF StoredRows
<1>3. ASSUME d \in rows PROVE \E c \in StoredRows : GoesAs(c, d)
  <2>1. SameButLabel(d, d)
    BY DEF SameButLabel
  <2>2. QED BY <1>2, <1>3, <2>1 DEF GoesAs
<1>4. ASSUME NEW s, Chips(s) PROVE \E c \in StoredRows : GoesAs(c, d)
  <2>1. /\ s \in 1..MaxSessions /\ Alive(s) /\ writer[s].pc = "rowed"
        /\ Relabeled(writer[s].id, writer[s].q[1])
    BY <1>4 DEF Chips, Writes
  <2>2. PICK c \in rows : /\ SameButLabel(c, d)
                          /\ d.label = IF c.id = writer[s].id THEN writer[s].q[1] ELSE c.label
    BY <1>1, <2>1 DEF Relabeled
  <2>3. c \in StoredRows /\ Path(d) = Path(c) /\ files'[Path(d)] = files[Path(c)]
    BY <1>2, <2>2
  <2>4. c.id = writer[s].id => files[Path(c)] = writer[s].q[1]
    BY <2>1, WrittenRow DEF Written
  <2>5. QED BY <2>2, <2>3, <2>4 DEF GoesAs
<1>5. ASSUME NEW s, NEW c, Inserts(s, c) PROVE d \in rows \/ Files(s, d)
  <2>1. rows' = rows \cup {c}
    BY <1>5 DEF Inserts, Inserted
  <2>2. QED BY <1>1, <1>5, <2>1, InsertedIsStored
<1>6. ASSUME NEW s, Purges(s) PROVE d \in rows
  BY <1>1, <1>6 DEF Purges
<1>7. ASSUME NEW p \in Procs, TakesRow(p) PROVE d \in rows
  BY <1>1, <1>7 DEF TakesRow
<1>8. QED BY <1>1, <1>3, <1>4, <1>5, <1>6, <1>7, RowsShape

\* A clear unlinks a file of its pane.
Drops1(s, i, c) ==
  /\ UnlinksOne(s, i) /\ s \in 1..MaxSessions /\ Alive(s) /\ WriterShape(s)
  /\ c.pane = sessions[s] /\ c.pane = writer[s].row
  /\ writer[s].q # <<>> /\ 1 \in DOMAIN writer[s].q /\ writer[s].q[1] = 0

\* A stored row stays so unless a clear or the collector takes its file.
LEMMA StoredTo ==
  ASSUME DiskInv, Shape, NEW c \in StoredRows
  PROVE  \/ \E d \in StoredRows' : GoesAs(c, d)
         \/ \E s, i : Drops1(s, i, c)
         \/ \E p \in Procs : TakesFile(p, Path(c))
<1> USE DEF DiskInv, GcInv
<1>1. c \in rows /\ Path(c) \in DOMAIN files
  BY DEF StoredRows
<1>2. PICK x : x = Path(c)
  OBVIOUS
<1>3. (\E d \in rows' : SameButLabel(c, d) /\ d.label \in {c.label, files[x]})
  <2>1. ASSUME c \in rows' PROVE \E d \in rows' : SameButLabel(c, d) /\ d.label \in {c.label, files[x]}
    BY <2>1 DEF SameButLabel
  <2>2. ASSUME NEW s, Chips(s) PROVE \E d \in rows' : SameButLabel(c, d) /\ d.label \in {c.label, files[x]}
    <3>1. /\ s \in 1..MaxSessions /\ Alive(s) /\ writer[s].pc = "rowed"
          /\ Relabeled(writer[s].id, writer[s].q[1])
      BY <2>2 DEF Chips, Writes
    <3>2. PICK d \in rows' : /\ SameButLabel(c, d)
                             /\ d.label = IF c.id = writer[s].id THEN writer[s].q[1] ELSE c.label
      BY <1>1, <3>1 DEF Relabeled
    <3>3. c.id = writer[s].id => files[x] = writer[s].q[1]
      BY <1>1, <1>2, <3>1, WrittenRow DEF Written
    <3>4. QED BY <3>2, <3>3
  <2>3. ASSUME NEW s, NEW e, Inserts(s, e) PROVE c \in rows'
    BY <1>1, <2>3 DEF Inserts, Inserted
  <2>4. ASSUME NEW s, Purges(s) PROVE c \in rows'
    BY <1>1, <2>4, PurgedRow
  <2>5. ASSUME NEW p \in Procs, TakesRow(p) PROVE c \in rows'
    BY <1>1, <2>5, TakenRow
  <2>6. QED BY <1>1, <2>1, <2>2, <2>3, <2>4, <2>5, RowsShape
<1>4. ASSUME x \in DOMAIN files', files'[x] = files[x] PROVE \E d \in StoredRows' : GoesAs(c, d)
  <2>1. PICK d \in rows' : SameButLabel(c, d) /\ d.label \in {c.label, files[x]}
    BY <1>3
  <2>2. Path(d) = x /\ Path(d)' = Path(d)
    BY <1>2, <2>1, PathSame DEF Path
  <2>3. QED BY <1>2, <1>4, <2>1, <2>2 DEF GoesAs, StoredRows
<1>5. ASSUME NEW t, Renames(t) PROVE x \in DOMAIN files' /\ files'[x] = files[x]
  <2>1. x # Here(t)
    BY <1>1, <1>2, <1>5, NameIsNew
  <2>2. QED BY <1>1, <1>2, <1>5, <2>1 DEF Renames, Filing
<1>6. ASSUME NEW t, NEW i, UnlinksOne(t, i), ~(x \in DOMAIN files' /\ files'[x] = files[x])
      PROVE  Drops1(t, i, c)
  <2>1. /\ t \in 1..MaxSessions /\ Alive(t) /\ writer[t].pc = "unlink"
        /\ i \in DOMAIN writer[t].todo /\ Unfiled(Path(writer[t].todo[i]))
    BY <1>6 DEF UnlinksOne, Unlinks, Writes
  <2>2. x = Path(writer[t].todo[i])
    BY <1>1, <1>2, <1>6, <2>1 DEF Unfiled
  <2>3. writer[t].todo[i] \in PaneRows(sessions[t])
    BY <2>1 DEF ClearRows
  <2>4. c = writer[t].todo[i]
    BY <1>1, <1>2, <2>2, <2>3 DEF RowsOK, PaneRows
  <2>5. writer[t].row = sessions[t] /\ writer[t].q # <<>> /\ writer[t].q[1] = 0
    BY <2>1 DEF QueuesOK, QueueOK
  <2>6. 1 \in DOMAIN writer[t].q
    BY <2>1, <2>5, HeadFacts
  <2>7. WriterShape(t)
    BY <1>6 DEF WriterShape
  <2>8. QED BY <1>6, <2>1, <2>3, <2>4, <2>5, <2>6, <2>7 DEF Drops1, PaneRows
<1>7. ASSUME NEW p \in Procs, NEW y, TakesFile(p, y)
      PROVE  TakesFile(p, x) \/ (x \in DOMAIN files' /\ files'[x] = files[x])
  BY <1>1, <1>2, <1>7 DEF TakesFile, Unfiled
<1>8. QED BY <1>1, <1>2, <1>4, <1>5, <1>6, <1>7, FilesShape

-----------------------------------------------------------------------------
\* Entries of a queue before and after a step

\* The entry at i was at j, and what was behind it still is.
Enters(s, i, j) ==
  /\ i \in DOMAIN writer'[s].q /\ j \in DOMAIN writer[s].q
  /\ writer'[s].row = writer[s].row /\ writer'[s].q[i] = writer[s].q[j]
  /\ j = 1 => i = 1
  /\ j = 1 /\ writer[s].pc = "rowed" => writer'[s].pc = "rowed" /\ writer'[s].id = writer[s].id
  /\ \A k \in DOMAIN writer[s].q : j < k =>
       \E l \in DOMAIN writer'[s].q : i < l /\ writer'[s].q[l] = writer[s].q[k]

\* The entry is the last and has just been queued.
Newly(s, i) ==
  /\ i = Len(writer[s].q) + 1 /\ writer'[s].row = writer[s].row
  /\ Queued(s, writer'[s].q[i])
  /\ \/ Discards(s) /\ writer'[s].q[i] = 0
     \/ SealsInto(s) /\ writer'[s].q[i] = Len(sealedIn) + 1

\* A queue left alone has its entries where they were.
LEMMA EntersSame ==
  ASSUME Types, NEW s \in 1..MaxSessions, Keeps(s) \/ Renames(s), NEW i \in DOMAIN writer[s].q
  PROVE  Enters(s, i, i)
<1>1. CASE Keeps(s)
  BY <1>1 DEF Keeps, Enters
<1>2. CASE Renames(s)
  <2>1. writer'[s].q = writer[s].q /\ writer[s].pc = "temp" /\ writer'[s].row = writer[s].row
    BY <1>2 DEF Renames, Filing, WriterBecomes
  <2>2. QED BY <2>1 DEF Enters
<1>3. QED BY <1>1, <1>2

\* Places behind the second are behind the first one less.
LEMMA Further ==
  ASSUME NEW i \in Nat, NEW k \in Nat, i + 1 < k, 1 <= i
  PROVE  k # 1 /\ i < k - 1
OBVIOUS

\* A queue that advances has its entries one place ahead.
LEMMA EntersAdvanced ==
  ASSUME Types, NEW s \in 1..MaxSessions, Advances(s)
  PROVE  /\ \A i \in DOMAIN writer'[s].q : Enters(s, i, i + 1)
         /\ \A j \in DOMAIN writer[s].q : j # 1 => Enters(s, j - 1, j)
<1>1. PICK q \in Seq(Nat) : q = writer[s].q
  BY WriterRecord
<1>2. PICK t \in Seq(Nat) : t = writer'[s].q
  <2>1. q # <<>> /\ writer'[s].q = Tail(q)
    BY <1>1 DEF Advances
  <2>2. Tail(q) \in Seq(Nat)
    BY <2>1
  <2>3. QED BY <2>1, <2>2
<1>3. /\ \A i \in DOMAIN t : i + 1 \in DOMAIN q /\ i + 1 # 1 /\ t[i] = q[i + 1]
      /\ \A i \in DOMAIN q : i # 1 => i - 1 \in DOMAIN t /\ t[i - 1] = q[i]
      /\ writer'[s].row = writer[s].row
  BY <1>1, <1>2 DEF Advances
<1>4. ASSUME NEW i \in DOMAIN t, NEW k \in DOMAIN q, i + 1 < k
      PROVE  \E l \in DOMAIN t : i < l /\ t[l] = q[k]
  <2>1. k \in Nat /\ i \in Nat /\ 1 <= i
    OBVIOUS
  <2>2. k # 1 /\ i < k - 1
    BY <1>4, <2>1, Further
  <2>3. k - 1 \in DOMAIN t /\ t[k - 1] = q[k]
    BY <1>3, <2>2
  <2>4. QED BY <2>2, <2>3
<1>5. ASSUME NEW i \in DOMAIN t PROVE Enters(s, i, i + 1)
  <2>1. PICK j : j = i + 1
    OBVIOUS
  <2>2. j \in DOMAIN q /\ j # 1 /\ t[i] = q[j] /\ \A k \in DOMAIN q : j < k => \E l \in DOMAIN t : i < l /\ t[l] = q[k]
    BY <1>3, <1>4, <1>5, <2>1
  <2>3. Enters(s, i, j)
    BY <1>1, <1>2, <1>3, <1>5, <2>2 DEF Enters
  <2>4. QED BY <2>1, <2>3
<1>6. ASSUME NEW j \in DOMAIN q, j # 1 PROVE Enters(s, j - 1, j)
  <2>1. PICK i : i = j - 1
    OBVIOUS
  <2>2. i \in DOMAIN t /\ i + 1 = j
    BY <1>3, <1>6, <2>1
  <2>3. QED BY <1>5, <2>1, <2>2
<1>7. QED BY <1>1, <1>2, <1>5, <1>6

\* A message queued leaves the entries before it.
LEMMA EntersQueued ==
  ASSUME NEW s, NEW b, Queued(s, b), NEW i \in DOMAIN writer[s].q
  PROVE  Enters(s, i, i)
<1>1. /\ DOMAIN writer'[s].q = DOMAIN writer[s].q \cup {Len(writer[s].q) + 1}
      /\ \A k \in DOMAIN writer[s].q : writer'[s].q[k] = writer[s].q[k]
  BY DEF Queued
<1>2. /\ writer'[s].pc = writer[s].pc /\ writer'[s].id = writer[s].id
      /\ writer'[s].row = writer[s].row
  BY DEF Queued, WriterBecomes
<1>3. QED BY <1>1, <1>2 DEF Enters

\* It is the last entry.
LEMMA NewlyQueued ==
  ASSUME NEW s, NEW b, Queued(s, b)
  PROVE  /\ writer'[s].row = writer[s].row /\ writer'[s].q[Len(writer[s].q) + 1] = b
         /\ Len(writer[s].q) + 1 \in DOMAIN writer'[s].q
         /\ \A i \in DOMAIN writer'[s].q : i \in DOMAIN writer[s].q \/ i = Len(writer[s].q) + 1
         /\ \A i \in DOMAIN writer[s].q : i < Len(writer[s].q) + 1
BY DEF Queued, WriterBecomes

\* An entry of a queue was in it before or is new.
LEMMA EntryFrom ==
  ASSUME Types, Shape, NEW s \in 1..MaxSessions, NEW i \in DOMAIN writer'[s].q
  PROVE  (\E j \in DOMAIN writer[s].q : Enters(s, i, j)) \/ Newly(s, i)
<1>1. CASE Keeps(s) \/ Renames(s)
  <2>1. writer'[s].q = writer[s].q
    BY <1>1 DEF Keeps, Renames, Filing, WriterBecomes
  <2>2. QED BY <1>1, <2>1, EntersSame
<1>2. CASE Advances(s)
  <2>1. Enters(s, i, i + 1)
    BY <1>2, EntersAdvanced
  <2>2. QED BY <2>1 DEF Enters
<1>3. CASE Discards(s)
  <2>1. Queued(s, 0)
    BY <1>3 DEF Discards
  <2>2. QED BY <1>3, <2>1, EntersQueued, NewlyQueued DEF Newly
<1>4. CASE SealsInto(s)
  <2>1. Queued(s, Len(sealedIn) + 1)
    BY <1>4 DEF SealsInto
  <2>2. QED BY <1>4, <2>1, EntersQueued, NewlyQueued DEF Newly
<1>5. QED BY <1>1, <1>2, <1>3, <1>4, QueueSteps DEF QueueStep

\* A queue becomes empty by its last message done or its process gone.
LEMMA Emptied ==
  ASSUME Types, QueuesOK, Shape, NEW s \in 1..MaxSessions, writer[s].q # <<>>,
         writer'[s].q = <<>>
  PROVE  Advances(s) \/ \E p \in Procs : Leaves(p) /\ held[s] = p
<1>1. PICK q \in Seq(Nat) : q = writer[s].q
  BY WriterRecord
<1>2. 1 \in DOMAIN q /\ DOMAIN writer'[s].q = {}
  BY <1>1
<1>3. ASSUME NEW b, Queued(s, b) PROVE FALSE
  BY <1>2, <1>3, NewlyQueued
<1>4. ASSUME Keeps(s) \/ Renames(s) PROVE FALSE
  BY <1>1, <1>2, <1>4, EntersSame DEF Enters
<1>5. ASSUME writer'[s] = writer[s] PROVE FALSE
  BY <1>4, <1>5, QueueStays
<1>6. Alive(s)
  BY DEF QueuesOK, QueueOK
<1>7. CASE Rests
  BY <1>5, <1>7 DEF Rests
<1>8. ASSUME NEW p \in Procs, NEW i, Seals(p, i) PROVE FALSE
  <2>1. PICK x : x = tabs[p][i].session
    OBVIOUS
  <2>2. (x = 0 => writer' = writer) /\ (x # 0 => Queued(x, Len(sealedIn) + 1))
    BY <1>8, <2>1 DEF Seals, Sealed
  <2>3. x # s => writer'[s] = writer[s]
    BY <2>2 DEF Queued, WriterBecomes
  <2>4. x # 0 /\ x # s
    BY <1>3, <1>5, <2>2
  <2>5. QED BY <1>5, <2>3, <2>4
<1>9. ASSUME NEW p \in Procs, Wakes(p) PROVE FALSE
  BY <1>5, <1>6, <1>9 DEF Wakes, Resumes
<1>10. ASSUME NEW p \in Procs, Leaves(p) PROVE held[s] = p
  BY <1>5, <1>10 DEF Leaves
<1>11. ASSUME NEW p \in Procs, (\E x : TakesFile(p, x)) \/ TakesRow(p) PROVE FALSE
  BY <1>5, <1>11 DEF TakesFile, TakesRow, Takes
<1>12. ASSUME NEW t, Discards(t) PROVE FALSE
  <2>1. t # s => writer'[s] = writer[s]
    BY <1>12 DEF Discards, Queued, WriterBecomes
  <2>2. QED BY <1>3, <1>5, <1>12, <2>1 DEF Discards
<1>13. ASSUME NEW t, WriterShape(t) PROVE Advances(s)
  <2>1. t = s
    BY <1>5, <1>13, WriterLeavesOthers
  <2>2. QED BY <1>4, <1>13, <2>1, WriterQueueStep
<1>14. QED BY <1>7, <1>8, <1>9, <1>10, <1>11, <1>12, <1>13 DEF Shape

\* An entry stays unless it is done or its process goes.
LEMMA EntryTo ==
  ASSUME Types, QueuesOK, Shape, NEW s \in 1..MaxSessions, NEW j \in DOMAIN writer[s].q
  PROVE  \/ \E i \in DOMAIN writer'[s].q : Enters(s, i, j)
         \/ Advances(s) /\ j = 1
         \/ \E p \in Procs : Leaves(p) /\ held[s] = p
<1>1. CASE Keeps(s) \/ Renames(s)
  <2>1. Enters(s, j, j)
    BY <1>1, EntersSame
  <2>2. QED BY <2>1 DEF Enters
<1>2. CASE Advances(s)
  <2>1. j # 1 => Enters(s, j - 1, j)
    BY <1>2, EntersAdvanced
  <2>2. QED BY <1>2, <2>1 DEF Enters
<1>3. ASSUME NEW b, Queued(s, b) PROVE \E i \in DOMAIN writer'[s].q : Enters(s, i, j)
  <2>1. Enters(s, j, j)
    BY <1>3, EntersQueued
  <2>2. QED BY <2>1 DEF Enters
<1>4. CASE writer'[s].q = <<>> /\ ~Advances(s)
  <2>1. writer[s].q # <<>>
    OBVIOUS
  <2>2. QED BY <1>4, <2>1, Emptied
<1>5. QED BY <1>1, <1>2, <1>3, <1>4, QueueSteps DEF QueueStep, Discards, SealsInto

-----------------------------------------------------------------------------
\* What was promised, step by step

\* Each record of what has happened is added to by one kind of step.
GhostsMove ==
  /\ durable' = durable \/ \E s : \E c : Inserts(s, c)
  /\ collected' = collected \/ \E p \in Procs : \E x : TakesFile(p, x)
  /\ cleared' = cleared \/ (\E s : Discards(s)) \/ \E p \in Procs : Leaves(p)
  /\ sealedIn' = sealedIn \/ \E p \in Procs : \E i : Seals(p, i)

\* A writer's step changes no history but for the block it has inserted.
LEMMA WriterGhosts ==
  ASSUME NEW s, WriterShape(s)
  PROVE  /\ UNCHANGED <<collected, cleared, unsettled, sealedIn>>
         /\ durable' = durable \/ \E c : Inserts(s, c)
<1>1. UNCHANGED <<collected, cleared, unsettled, sealedIn>>
  BY ShapeWriter DEF Writes
<1>2. durable' = durable \/ \E c : Inserts(s, c)
  BY DEF WriterShape, Temps, Renames, Fails, Chips, ListsAll, UnlinksOne, UnlinkedAll, Purges, Purged
<1>3. QED BY <1>1, <1>2

\* How the history changes.
LEMMA GhostsMoveWhen == ASSUME Shape PROVE GhostsMove
<1>1. CASE Rests
  BY <1>1 DEF Rests, SameGhosts, GhostsMove
<1>2. ASSUME NEW p \in Procs, NEW i, Seals(p, i) PROVE GhostsMove
  BY <1>2 DEF Seals, GhostsMove
<1>3. ASSUME NEW p \in Procs, Wakes(p) PROVE GhostsMove
  BY <1>3 DEF Wakes, SameGhosts, GhostsMove
<1>4. ASSUME NEW p \in Procs, Leaves(p) PROVE GhostsMove
  <2>1. UNCHANGED <<sealedIn, durable, collected>>
    BY <1>4 DEF Leaves
  <2>2. QED BY <1>4, <2>1 DEF GhostsMove
<1>5. ASSUME NEW p \in Procs, NEW x, TakesFile(p, x) PROVE GhostsMove
  <2>1. UNCHANGED <<sealedIn, durable, cleared>>
    BY <1>5 DEF TakesFile, Takes
  <2>2. QED BY <1>5, <2>1 DEF GhostsMove
<1>6. ASSUME NEW p \in Procs, TakesRow(p) PROVE GhostsMove
  BY <1>6 DEF TakesRow, Takes, GhostsMove
<1>7. ASSUME NEW s, Discards(s) PROVE GhostsMove
  <2>1. UNCHANGED <<sealedIn, durable, collected>>
    BY <1>7 DEF Discards
  <2>2. QED BY <1>7, <2>1 DEF GhostsMove
<1>8. ASSUME NEW s, WriterShape(s) PROVE GhostsMove
  <2>1. UNCHANGED <<collected, cleared, sealedIn>> /\ (durable' = durable \/ \E c : Inserts(s, c))
    BY <1>8, WriterGhosts
  <2>2. QED BY <2>1 DEF GhostsMove
<1>9. QED BY <1>1, <1>2, <1>3, <1>4, <1>5, <1>6, <1>7, <1>8 DEF Shape

\* The blocks grow by one.
BlocksGrow ==
  /\ Len(sealedIn) \in Nat /\ Len(sealedIn') \in Nat /\ Len(sealedIn) <= Len(sealedIn')
  /\ \A b \in 1..Len(sealedIn) : b \in 1..Len(sealedIn') /\ sealedIn'[b] = sealedIn[b]
  /\ \A b \in 1..Len(sealedIn') : b \in 1..Len(sealedIn) \/ b = Len(sealedIn) + 1

\* A block keeps the pane it was sealed under.
LEMMA BlocksGrowWhen == ASSUME Types, Shape PROVE BlocksGrow
<1>1. Len(sealedIn) \in Nat
  BY DEF Types, FileTypes
<1>2. CASE sealedIn' = sealedIn
  BY <1>1, <1>2 DEF BlocksGrow
<1>3. ASSUME NEW p \in Procs, NEW i, Seals(p, i) PROVE BlocksGrow
  <2>1. /\ Len(sealedIn') = Len(sealedIn) + 1
        /\ \A b \in 1..Len(sealedIn) : sealedIn'[b] = sealedIn[b]
    BY <1>3 DEF Seals, Sealed
  <2>2. QED BY <1>1, <2>1 DEF BlocksGrow
<1>4. QED BY <1>2, <1>3, GhostsMoveWhen DEF GhostsMove

\* The history is of sealed blocks.
LEMMA KnownBlocksNext ==
  ASSUME DiskInv, KnownBlocks, Shape
  PROVE  KnownBlocks'
<1> USE DEF DiskInv, GcInv
<1>1. BlocksGrow
  BY BlocksGrowWhen
<1>2. durable' \subseteq 1..Len(sealedIn')
  <2>1. CASE durable' = durable
    BY <1>1, <2>1 DEF KnownBlocks, BlocksGrow
  <2>2. ASSUME NEW s, NEW c, Inserts(s, c) PROVE durable' \subseteq 1..Len(sealedIn')
    <3>1. /\ durable' = durable \cup {writer[s].q[1]} /\ s \in 1..MaxSessions
          /\ writer[s].q # <<>> /\ writer[s].q[1] # 0
      BY <2>2 DEF Inserts, Inserted, Writes
    <3>2. writer[s].q[1] \in 1..Len(sealedIn)
      BY <3>1, HeadFacts
    <3>3. QED BY <1>1, <3>1, <3>2 DEF KnownBlocks, BlocksGrow
  <2>3. QED BY <2>1, <2>2, GhostsMoveWhen DEF GhostsMove
<1>3. collected' \subseteq 1..Len(sealedIn')
  <2>1. CASE collected' = collected
    BY <1>1, <2>1 DEF KnownBlocks, BlocksGrow
  <2>2. ASSUME NEW p \in Procs, NEW x, TakesFile(p, x) PROVE collected' \subseteq 1..Len(sealedIn')
    <3>1. collected' = collected \cup {files[x]} /\ x \in DOMAIN files
      BY <2>2 DEF TakesFile
    <3>2. files[x] \in 1..Len(sealedIn)
      BY <3>1 DEF Types, FileTypes
    <3>3. QED BY <1>1, <3>1, <3>2 DEF KnownBlocks, BlocksGrow
  <2>3. QED BY <2>1, <2>2, GhostsMoveWhen DEF GhostsMove
<1>4. cleared' \subseteq 1..Len(sealedIn')
  <2>1. cleared' \subseteq 1..Len(sealedIn)
    <3>1. CASE cleared' = cleared
      BY <3>1 DEF KnownBlocks
    <3>2. ASSUME NEW s, Discards(s) PROVE cleared' \subseteq 1..Len(sealedIn)
      BY <3>2 DEF Discards, SealedUnder, KnownBlocks
    <3>3. ASSUME NEW p \in Procs, Leaves(p) PROVE cleared' \subseteq 1..Len(sealedIn)
      <4>1. cleared' \subseteq cleared
        BY <3>3 DEF Leaves
      <4>2. QED BY <4>1 DEF KnownBlocks
    <3>4. QED BY <3>1, <3>2, <3>3, GhostsMoveWhen DEF GhostsMove
  <2>2. QED BY <1>1, <2>1 DEF BlocksGrow
<1>5. QED BY <1>2, <1>3, <1>4 DEF KnownBlocks

\* A file that the collector takes is of no pane with a live session.
LEMMA TakenFile ==
  ASSUME GcInv, NEW p \in Procs, NEW x, TakesFile(p, x), NEW s \in 1..MaxSessions, Alive(s)
  PROVE  sealedIn[files[x]] # sessions[s]
<1> USE DEF GcInv
<1>1. x = Path(gc[p].todo[1]) /\ gc[p].todo # <<>> /\ x \in DOMAIN files
  BY DEF TakesFile, Takes
<1>2. gc[p].todo \in Seq(ChunkRow)
  BY DEF Types, ProcTypes, IsGc
<1>3. 1 \in DOMAIN gc[p].todo
  BY <1>1, <1>2
<1>4. PICK c \in ChunkRow : c = gc[p].todo[1]
  BY <1>2, <1>3
<1>5. SeenChunk(c) /\ c.pane \in gc[p].dead
  BY <1>3, <1>4 DEF GcSeen
<1>6. x[1] = c.session
  BY <1>1, <1>4 DEF Path
<1>7. sealedIn[files[x]] = c.pane
  BY <1>1, <1>5, <1>6 DEF FilesOwn, SeenChunk
<1>8. \A t \in SessionsOf(c.pane) : ~Alive(t)
  BY <1>5 DEF GcDead
<1>9. s \in SessionsOf(sessions[s])
  BY AliveFacts DEF SessionsOf
<1>10. QED BY <1>7, <1>8, <1>9

\* A block still queued is not durable but between its row and its chips.
LEMMA QueuedIsNewNext ==
  ASSUME DiskInv, KnownBlocks, QueuedIsNew, Shape
  PROVE  QueuedIsNew'
<1> USE DEF DiskInv, GcInv
<1> SUFFICES ASSUME NEW s \in 1..MaxSessions, NEW i \in DOMAIN writer'[s].q,
                    writer'[s].q[i] # 0
             PROVE  /\ writer'[s].q[i] \notin collected'
                    /\ writer'[s].q[i] \in durable' => i = 1 /\ writer'[s].pc = "rowed"
  BY DEF QueuedIsNew
<1>1. PICK b : b = writer'[s].q[i]
  OBVIOUS
<1>2. ASSUME NEW j \in DOMAIN writer[s].q, Enters(s, i, j)
      PROVE  b \notin collected' /\ (b \in durable' => i = 1 /\ writer'[s].pc = "rowed")
  <2>1. b = writer[s].q[j] /\ b # 0
    BY <1>1, <1>2 DEF Enters
  <2>2. Alive(s) /\ writer[s].row = sessions[s]
    BY QueueAlive
  <2>3. b \notin collected /\ (b \in durable => j = 1 /\ writer[s].pc = "rowed")
    BY <2>1 DEF QueuedIsNew
  <2>4. sealedIn[b] = sessions[s]
    BY <2>1, <2>2 DEF QueuesOK, QueueOK
  <2>5. b \notin collected'
    <3>1. ASSUME NEW p \in Procs, NEW x, TakesFile(p, x) PROVE b \notin collected'
      <4>1. sealedIn[files[x]] # sessions[s] /\ collected' = collected \cup {files[x]}
        BY <2>2, <3>1, TakenFile DEF TakesFile
      <4>2. QED BY <2>3, <2>4, <4>1
    <3>2. QED BY <2>3, <3>1, GhostsMoveWhen DEF GhostsMove
  <2>6. b \in durable' => i = 1 /\ writer'[s].pc = "rowed"
    <3>1. b \in durable => i = 1 /\ writer'[s].pc = "rowed"
      BY <1>2, <2>3 DEF Enters
    <3>2. ASSUME NEW t, NEW c, Inserts(t, c), b = writer[t].q[1]
          PROVE  i = 1 /\ writer'[s].pc = "rowed"
      <4>1. /\ t \in 1..MaxSessions /\ writer[t].q # <<>> /\ writer'[t].pc = "rowed"
        BY <3>2 DEF Inserts, Inserted, Writes, WriterBecomes
      <4>2. 1 \in DOMAIN writer[t].q
        BY <4>1, HeadFacts
      <4>3. writer[s].q[j] # 0 /\ writer[s].q[j] = writer[t].q[1]
        BY <2>1, <3>2
      <4>4. s = t /\ j = 1
        BY <4>1, <4>2, <4>3, QueuedOnce, Zenon
      <4>5. QED BY <1>2, <4>1, <4>4 DEF Enters
    <3>3. ASSUME NEW t, NEW c, Inserts(t, c), b \in durable'
          PROVE  i = 1 /\ writer'[s].pc = "rowed"
      <4>1. durable' = durable \cup {writer[t].q[1]}
        BY <3>3 DEF Inserts, Inserted
      <4>2. QED BY <3>1, <3>2, <3>3, <4>1
    <3>4. QED BY <3>1, <3>3, GhostsMoveWhen DEF GhostsMove
  <2>7. QED BY <2>5, <2>6
<1>3. ASSUME Newly(s, i) PROVE b \notin collected' /\ b \notin durable'
  <2>1. b = Len(sealedIn) + 1 /\ SealsInto(s)
    BY <1>1, <1>3 DEF Newly
  <2>2. collected' = collected /\ durable' = durable
    BY <2>1 DEF SealsInto, Seals
  <2>3. Len(sealedIn) \in Nat
    BY DEF Types, FileTypes
  <2>4. b \notin 1..Len(sealedIn)
    BY <2>1, <2>3
  <2>5. QED BY <2>2, <2>4 DEF KnownBlocks
<1>4. QED BY <1>1, <1>2, <1>3, EntryFrom

-----------------------------------------------------------------------------
\* Later rows hold later blocks

\* The pane of a stored row is its block's.
LEMMA StoredOwn ==
  ASSUME GcInv, NEW c \in StoredRows
  PROVE  /\ files[Path(c)] \in 1..Len(sealedIn) /\ sealedIn[files[Path(c)]] = c.pane
         /\ c \in rows /\ Path(c) \in DOMAIN files /\ c.id \in Nat
<1> USE DEF GcInv
<1>1. c \in rows /\ Path(c) \in DOMAIN files
  BY DEF StoredRows
<1>2. files[Path(c)] \in 1..Len(sealedIn)
  BY <1>1 DEF Types, FileTypes
<1>3. c \in ChunkRow /\ c.pane = sessions[c.session]
  BY <1>1 DEF Types, DbTypes
<1>4. Path(c)[1] = c.session /\ c.id \in Nat
  BY <1>3 DEF Path, ChunkRow
<1>5. QED BY <1>1, <1>2, <1>3, <1>4 DEF FilesOwn

\* Of two rows of a pane the later one holds the later block.
LEMMA OrderOfRows ==
  ASSUME DiskInv, BlocksInOrder, Shape, NEW c \in StoredRows', NEW d \in StoredRows',
         c.pane = d.pane, c.id < d.id
  PROVE  files'[Path(c)] < files'[Path(d)]
<1> USE DEF DiskInv, GcInv
<1>1. ASSUME NEW x \in StoredRows, GoesAs(x, c), NEW y \in StoredRows, GoesAs(y, d)
      PROVE  files'[Path(c)] < files'[Path(d)]
  <2>1. x.pane = y.pane /\ x.id < y.id
    BY <1>1 DEF GoesAs, SameButLabel
  <2>2. files[Path(x)] < files[Path(y)]
    BY <2>1 DEF BlocksInOrder
  <2>3. QED BY <1>1, <2>2 DEF GoesAs
<1>2. ASSUME NEW x \in StoredRows, GoesAs(x, c), NEW s, Files(s, d)
      PROVE  files'[Path(c)] < files'[Path(d)]
  <2>1. /\ s \in 1..MaxSessions /\ x.pane = writer[s].row /\ writer[s].pc = "renamed"
        /\ writer[s].q # <<>> /\ writer[s].q[1] # 0
    BY <1>2 DEF GoesAs, SameButLabel, Files
  <2>2. 1 \in DOMAIN writer[s].q
    BY <2>1, HeadFacts
  <2>3. ~Written(s, x)
    BY <2>1 DEF Written
  <2>4. files[Path(x)] < writer[s].q[1]
    BY <2>1, <2>2, <2>3 DEF BlocksInOrder
  <2>5. files'[Path(c)] = files[Path(x)] /\ files'[Path(d)] = writer[s].q[1]
    BY <1>2 DEF GoesAs, Files
  <2>6. QED BY <2>4, <2>5
<1>3. ASSUME NEW s, Files(s, c), NEW y \in StoredRows, GoesAs(y, d) PROVE FALSE
  <2>1. y \in rows /\ y.id \in Nat /\ y.id = d.id
    BY <1>3, StoredOwn DEF GoesAs, SameButLabel
  <2>2. y.id < c.id /\ c.id < y.id
    BY <1>3, <2>1 DEF Files
  <2>3. c.id \in Nat
    BY <1>3 DEF Files, Inserts, Inserted, ChunkRow
  <2>4. QED BY <2>1, <2>2, <2>3
<1>4. ASSUME NEW s, Files(s, c), NEW t, Files(t, d) PROVE FALSE
  <2>1. c.id = NextRowId /\ d.id = NextRowId /\ NextRowId \in Nat
    BY <1>4, NextRowIdFresh DEF Files, Inserts, Inserted
  <2>2. QED BY <2>1
<1>5. QED BY <1>1, <1>2, <1>3, <1>4, StoredFrom

\* What is queued is later than what is stored.
LEMMA OrderOfQueue ==
  ASSUME DiskInv, BlocksInOrder, Shape, NEW s \in 1..MaxSessions, NEW c \in StoredRows',
         NEW i \in DOMAIN writer'[s].q, c.pane = writer'[s].row, writer'[s].q[i] # 0
  PROVE  files'[Path(c)] < writer'[s].q[i] \/ (i = 1 /\ Written(s, c)')
<1> USE DEF DiskInv, GcInv
<1>1. ASSUME NEW x \in StoredRows, GoesAs(x, c), NEW j \in DOMAIN writer[s].q, Enters(s, i, j)
      PROVE  files'[Path(c)] < writer'[s].q[i] \/ (i = 1 /\ Written(s, c)')
  <2>1. x.pane = writer[s].row /\ writer[s].q[j] # 0 /\ writer'[s].q[i] = writer[s].q[j]
    BY <1>1 DEF GoesAs, SameButLabel, Enters
  <2>2. files'[Path(c)] = files[Path(x)] /\ c.id = x.id
    BY <1>1 DEF GoesAs, SameButLabel
  <2>3. CASE j = 1 /\ Written(s, x)
    <3>1. i = 1 /\ writer'[s].pc = "rowed" /\ writer'[s].id = writer[s].id
      BY <1>1, <2>3 DEF Enters, Written
    <3>2. c.id = writer'[s].id
      BY <2>2, <2>3, <3>1 DEF Written
    <3>3. QED BY <3>1, <3>2 DEF Written
  <2>4. CASE files[Path(x)] < writer[s].q[j]
    BY <2>1, <2>2, <2>4
  <2>5. QED BY <2>1, <2>3, <2>4 DEF BlocksInOrder
<1>2. ASSUME NEW t, Files(t, c), NEW j \in DOMAIN writer[s].q, Enters(s, i, j)
      PROVE  files'[Path(c)] < writer'[s].q[i] \/ (i = 1 /\ Written(s, c)')
  <2>1. /\ t \in 1..MaxSessions /\ Alive(t) /\ writer[s].row = sessions[t]
        /\ writer[s].q[j] # 0 /\ writer'[s].q[i] = writer[s].q[j]
    BY <1>2 DEF Files, Enters
  <2>2. writer[s].q # <<>>
    OBVIOUS
  <2>3. s = t
    BY <2>1, <2>2, WritersApart
  <2>4. Written(s, c)' /\ writer[s].q[1] # 0 /\ files'[Path(c)] = writer[s].q[1]
    BY <1>2, <2>3 DEF Files
  <2>5. CASE j = 1
    BY <1>2, <2>4, <2>5 DEF Enters
  <2>6. CASE j # 1
    <3>1. 1 \in DOMAIN writer[s].q
      BY <2>2, HeadFacts
    <3>2. writer[s].q \in Seq(Nat)
      BY WriterRecord
    <3>3. 1 < j
      BY <2>6, <3>2
    <3>4. writer[s].q[1] < writer[s].q[j]
      BY <2>1, <2>4, <3>1, <3>3 DEF QueuesOK, QueueOK
    <3>5. QED BY <2>1, <2>4, <3>4
  <2>7. QED BY <2>5, <2>6
<1>3. ASSUME Newly(s, i) PROVE files'[Path(c)] < writer'[s].q[i]
  <2>1. writer'[s].q[i] = Len(sealedIn) + 1 /\ Len(sealedIn) \in Nat
    BY <1>3 DEF Newly, Types, FileTypes
  <2>2. ASSUME NEW x \in StoredRows, GoesAs(x, c) PROVE files'[Path(c)] \in 1..Len(sealedIn)
    BY <2>2, StoredOwn DEF GoesAs
  <2>3. ASSUME NEW t, Files(t, c) PROVE files'[Path(c)] \in 1..Len(sealedIn)
    <3>1. /\ t \in 1..MaxSessions /\ writer[t].q # <<>> /\ writer[t].q[1] # 0
          /\ files'[Path(c)] = writer[t].q[1]
      BY <2>3 DEF Files
    <3>2. QED BY <3>1, HeadFacts
  <2>4. files'[Path(c)] \in 1..Len(sealedIn)
    BY <2>2, <2>3, StoredFrom
  <2>5. QED BY <2>1, <2>4
<1>4. QED BY <1>1, <1>2, <1>3, StoredFrom, EntryFrom

\* Both orders, and the labels, are kept by every step.
LEMMA BlocksInOrderNext ==
  ASSUME DiskInv, BlocksInOrder, Shape
  PROVE  BlocksInOrder'
<1>1. ASSUME NEW c \in StoredRows' PROVE c.label \in {0, files'[Path(c)]}
  <2>1. ASSUME NEW x \in StoredRows, GoesAs(x, c) PROVE c.label \in {0, files'[Path(c)]}
    <3>1. x.label \in {0, files[Path(x)]}
      BY DEF BlocksInOrder
    <3>2. QED BY <2>1, <3>1 DEF GoesAs
  <2>2. ASSUME NEW s, Files(s, c) PROVE c.label = 0
    BY <2>2 DEF Files
  <2>3. QED BY <2>1, <2>2, StoredFrom
<1>2. QED BY <1>1, OrderOfRows, OrderOfQueue DEF BlocksInOrder, Path

-----------------------------------------------------------------------------
\* What is stored was written, and what was written is stored

\* What is stored is durable and not collected.
LEMMA StoredIsDurableNext ==
  ASSUME DiskInv, QueuedIsNew, StoredIsDurable, Shape
  PROVE  StoredIsDurable'
<1> USE DEF DiskInv, GcInv
<1>1. durable \subseteq durable'
  BY GhostsMoveWhen DEF GhostsMove, Inserts, Inserted
<1>2. ASSUME NEW c \in StoredRows, NEW d \in StoredRows', GoesAs(c, d)
      PROVE  files'[Path(d)] \in durable' \ collected'
  <2>1. files[Path(c)] \in durable \ collected /\ files'[Path(d)] = files[Path(c)]
    BY <1>2 DEF StoredIsDurable, GoesAs
  <2>2. ASSUME NEW p \in Procs, NEW x, TakesFile(p, x)
        PROVE  files[Path(c)] \notin collected'
    <3>1. x \in DOMAIN files /\ collected' = collected \cup {files[x]} /\ x \notin DOMAIN files'
      BY <2>2 DEF TakesFile, Unfiled
    <3>2. Path(c) \in DOMAIN files /\ Path(c) \in DOMAIN files'
      BY <1>2 DEF StoredRows, GoesAs
    <3>3. files[x] # files[Path(c)]
      BY <3>1, <3>2 DEF FilesOK, FilesApart
    <3>4. QED BY <2>1, <3>1, <3>3
  <2>3. files[Path(c)] \notin collected'
    BY <2>1, <2>2, GhostsMoveWhen DEF GhostsMove
  <2>4. QED BY <1>1, <2>1, <2>3
<1>3. ASSUME NEW s, NEW d \in StoredRows', Files(s, d)
      PROVE  files'[Path(d)] \in durable' \ collected'
  <2>1. /\ s \in 1..MaxSessions /\ writer[s].q # <<>> /\ writer[s].q[1] # 0
        /\ files'[Path(d)] = writer[s].q[1] /\ Inserts(s, d)
    BY <1>3 DEF Files
  <2>2. writer[s].q[1] \in durable' /\ collected' = collected
    BY <2>1 DEF Inserts, Inserted, Writes
  <2>3. 1 \in DOMAIN writer[s].q
    BY <2>1, HeadFacts
  <2>4. writer[s].q[1] \notin collected
    BY <2>1, <2>3 DEF QueuedIsNew
  <2>5. QED BY <2>1, <2>2, <2>4
<1>4. ASSUME NEW d \in StoredRows' PROVE files'[Path(d)] \in durable' \ collected'
  BY <1>2, <1>3, <1>4, StoredFrom
<1>5. QED BY <1>4, Zenon DEF StoredIsDurable, Path

\* A stored block goes only when it is discarded or collected.
LEMMA StoredStays ==
  ASSUME DiskInv, QueuedIsNew, ClearsCover, Shape, NEW r, NEW b \in Stored(r),
         b \in durable, b \notin cleared, b \notin collected'
  PROVE  b \in Stored(r)'
<1> USE DEF DiskInv, GcInv
<1>1. PICK c \in StoredRows : c.pane = r /\ b = files[Path(c)]
  BY DEF Stored
<1>2. ASSUME NEW d \in StoredRows', GoesAs(c, d) PROVE b \in Stored(r)'
  <2>1. d.pane = r /\ b = files'[Path(d)]
    BY <1>1, <1>2 DEF GoesAs, SameButLabel
  <2>2. QED BY <2>1 DEF Stored, Path
<1>3. ASSUME NEW s, NEW i, Drops1(s, i, c) PROVE FALSE
  <2>1. /\ s \in 1..MaxSessions /\ c.pane = writer[s].row /\ 1 \in DOMAIN writer[s].q
        /\ writer[s].q[1] = 0 /\ Alive(s)
    BY <1>3 DEF Drops1
  <2>2. writer[s].row # 0
    BY <2>1, QueueAlive
  <2>3. b \in SealedUnder(writer[s].row)
    BY <1>1, <2>1, <2>2, StoredOwn DEF SealedUnder
  <2>4. PICK j \in DOMAIN writer[s].q : j > 1 /\ writer[s].q[j] = b
    BY <2>1, <2>3 DEF ClearsCover
  <2>5. b # 0
    BY <2>3 DEF SealedUnder
  <2>6. writer[s].q[j] \in durable /\ writer[s].q[j] # 0
    BY <2>4, <2>5
  <2>7. j = 1
    BY <2>1, <2>6 DEF QueuedIsNew
  <2>8. QED BY <2>4, <2>7
<1>4. ASSUME NEW p \in Procs, TakesFile(p, Path(c)) PROVE FALSE
  BY <1>1, <1>4 DEF TakesFile
<1>5. QED BY <1>2, <1>3, <1>4, StoredTo

\* A block that is newly written is stored, under the pane it was sealed in.
LEMMA NewlyDurable ==
  ASSUME DiskInv, Shape, NEW b \in durable', b \notin durable
  PROVE  /\ b \in Stored(sealedIn[b])' /\ b \in 1..Len(sealedIn) /\ sealedIn[b] # 0
         /\ UNCHANGED <<sealedIn, cleared, unsettled, collected>>
<1> USE DEF DiskInv, GcInv
<1>1. PICK s, c : Inserts(s, c)
  BY GhostsMoveWhen DEF GhostsMove
<1>2. b = writer[s].q[1] /\ s \in 1..MaxSessions /\ UNCHANGED <<sealedIn, cleared, unsettled, collected>>
  BY <1>1 DEF Inserts, Inserted, Writes
<1>3. Files(s, c) /\ c \in StoredRows'
  BY <1>1, InsertedIsStored
<1>4. /\ writer[s].q # <<>> /\ writer[s].q[1] # 0 /\ Alive(s)
      /\ c.pane = writer[s].row /\ files'[Path(c)] = b
  BY <1>2, <1>3 DEF Files
<1>5. b \in 1..Len(sealedIn) /\ sealedIn[b] = c.pane
  BY <1>2, <1>4, HeadFacts
<1>6. c.pane # 0
  BY <1>2, <1>4, QueueAlive
<1>7. PICK r : r = c.pane
  OBVIOUS
<1>8. b \in Stored(r)'
  BY <1>3, <1>4, <1>7 DEF Stored, Path
<1>9. sealedIn[b] = r /\ sealedIn'[b] = r
  BY <1>2, <1>5, <1>7
<1>10. QED BY <1>2, <1>5, <1>6, <1>7, <1>8, <1>9

\* What is known of a block stays known of it.
Settled == cleared \cup unsettled \cup collected

\* What is discarded, cut short or collected stays so.
LEMMA SettledGrows == ASSUME Shape PROVE Settled \subseteq Settled'
<1>1. CASE Rests
  BY <1>1 DEF Rests, SameGhosts, Settled
<1>2. ASSUME NEW p \in Procs, NEW i, Seals(p, i) PROVE Settled \subseteq Settled'
  BY <1>2 DEF Seals, Settled
<1>3. ASSUME NEW p \in Procs, Wakes(p) PROVE Settled \subseteq Settled'
  BY <1>3 DEF Wakes, SameGhosts, Settled
<1>4. ASSUME NEW p \in Procs, Leaves(p) PROVE Settled \subseteq Settled'
  <2>1. /\ cleared \subseteq cleared' \cup unsettled' /\ unsettled \subseteq unsettled'
        /\ collected' = collected
    BY <1>4 DEF Leaves
  <2>2. QED BY <2>1 DEF Settled
<1>5. ASSUME NEW p \in Procs, NEW x, TakesFile(p, x) PROVE Settled \subseteq Settled'
  BY <1>5 DEF TakesFile, Takes, Settled
<1>6. ASSUME NEW p \in Procs, TakesRow(p) PROVE Settled \subseteq Settled'
  BY <1>6 DEF TakesRow, Takes, Settled
<1>7. ASSUME NEW s, Discards(s) PROVE Settled \subseteq Settled'
  <2>1. cleared \subseteq cleared' /\ UNCHANGED <<unsettled, collected>>
    BY <1>7 DEF Discards
  <2>2. QED BY <2>1 DEF Settled
<1>8. ASSUME NEW s, WriterShape(s) PROVE Settled \subseteq Settled'
  BY <1>8, WriterGhosts DEF Settled
<1>9. QED BY <1>1, <1>2, <1>3, <1>4, <1>5, <1>6, <1>7, <1>8 DEF Shape

\* What is durable is stored until it is discarded or collected.
LEMMA DurableIsStoredNext ==
  ASSUME DiskInv, KnownBlocks, QueuedIsNew, ClearsCover, DurableIsStored, Shape
  PROVE  DurableIsStored'
<1> USE DEF DiskInv, GcInv
<1>1. ASSUME NEW b \in durable', b \notin Settled' PROVE b \in Stored(sealedIn[b])'
  <2>1. CASE b \in durable
    <3>1. PICK r : r = sealedIn[b]
      OBVIOUS
    <3>2. b \notin cleared /\ b \notin unsettled /\ b \notin collected /\ b \notin collected'
      BY <1>1, SettledGrows DEF Settled
    <3>3. b \in Stored(r)
      BY <2>1, <3>1, <3>2 DEF DurableIsStored
    <3>4. b \in Stored(r)'
      BY <2>1, <3>2, <3>3, StoredStays
    <3>5. sealedIn'[b] = r
      BY <2>1, <3>1, BlocksGrowWhen DEF BlocksGrow, KnownBlocks
    <3>6. QED BY <3>4, <3>5
  <2>2. CASE b \notin durable
    BY <2>2, NewlyDurable
  <2>3. QED BY <2>1, <2>2
<1>2. QED BY <1>1 DEF DurableIsStored, Settled

-----------------------------------------------------------------------------
\* Discards cover what was shown, and nothing cleared is ahead of none

\* A clear that is queued covers all blocks sealed before it.
LEMMA ClearsCoverNext ==
  ASSUME DiskInv, ClearsCover, Shape
  PROVE  ClearsCover'
<1> USE DEF DiskInv, GcInv
<1> SUFFICES ASSUME NEW s \in 1..MaxSessions, NEW i \in DOMAIN writer'[s].q, writer'[s].q[i] = 0,
                    NEW b \in 1..Len(sealedIn'), writer'[s].row # 0, sealedIn'[b] = writer'[s].row
             PROVE  b \in cleared' \/ \E j \in DOMAIN writer'[s].q : j > i /\ writer'[s].q[j] = b
  BY DEF ClearsCover, SealedUnder
<1>1. BlocksGrow
  BY BlocksGrowWhen
<1>2. ASSUME Newly(s, i)
      PROVE  b \in cleared'
  <2>1. Discards(s) /\ writer'[s].row = writer[s].row
    BY <1>1, <1>2 DEF Newly, BlocksGrow
  <2>2. sealedIn' = sealedIn /\ cleared' = cleared \cup SealedUnder(writer[s].row)
    BY <2>1 DEF Discards
  <2>3. QED BY <2>1, <2>2 DEF SealedUnder
<1>3. ASSUME NEW k \in DOMAIN writer[s].q, Enters(s, i, k)
      PROVE  b \in cleared' \/ \E j \in DOMAIN writer'[s].q : j > i /\ writer'[s].q[j] = b
  <2>1. writer[s].q[k] = 0 /\ writer'[s].row = writer[s].row
    BY <1>3 DEF Enters
  <2>2. Alive(s) /\ writer[s].row = sessions[s]
    BY QueueAlive
  <2>3. CASE b \in 1..Len(sealedIn)
    <3>1. b \in SealedUnder(writer[s].row) /\ sealedIn[b] = sessions[s]
      BY <1>1, <2>1, <2>2, <2>3 DEF SealedUnder, BlocksGrow
    <3>2. CASE b \in cleared
      <4>1. ASSUME NEW p \in Procs, Leaves(p), b \notin cleared' PROVE FALSE
        <5>1. PICK t \in 1..MaxSessions : held[t] = p /\ b \in SealedUnder(sessions[t])
          BY <3>2, <4>1 DEF Leaves
        <5>2. Alive(t) /\ sessions[t] = sessions[s]
          BY <3>1, <5>1 DEF Alive, SealedUnder
        <5>3. s = t
          BY <2>2, <5>2, AliveApart
        <5>4. writer'[s] = NoWriter
          BY <4>1, <5>1, <5>3 DEF Leaves
        <5>5. DOMAIN writer'[s].q = {}
          BY <5>4 DEF NoWriter
        <5>6. QED BY <5>5
      <4>2. cleared' = cleared \/ cleared \subseteq cleared' \/ \E p \in Procs : Leaves(p)
        BY GhostsMoveWhen DEF GhostsMove, Discards
      <4>3. QED BY <3>2, <4>1, <4>2
    <3>3. CASE \E j \in DOMAIN writer[s].q : j > k /\ writer[s].q[j] = b
      <4>1. PICK j \in DOMAIN writer[s].q : k < j /\ writer[s].q[j] = b
        BY <3>3
      <4>2. PICK l \in DOMAIN writer'[s].q : i < l /\ writer'[s].q[l] = writer[s].q[j]
        BY <1>3, <4>1 DEF Enters
      <4>3. QED BY <4>1, <4>2
    <3>4. QED BY <2>1, <3>1, <3>2, <3>3 DEF ClearsCover
  <2>4. CASE b \notin 1..Len(sealedIn)
    <3>1. b = Len(sealedIn) + 1 /\ sealedIn' # sealedIn
      BY <1>1, <2>4 DEF BlocksGrow
    <3>2. PICK p \in Procs : \E m : Seals(p, m)
      BY <3>1, GhostsMoveWhen DEF GhostsMove
    <3>3. PICK m : Seals(p, m)
      BY <3>2
    <3>4. m \in DOMAIN tabs[p] /\ tabs[p][m].row = sessions[s]
      BY <2>1, <2>2, <3>1, <3>3 DEF Seals, Sealed
    <3>5. tabs[p][m].session = s
      BY <2>2, <3>4, TabOfPane
    <3>6. Queued(s, b)
      <4>1. s # 0
        OBVIOUS
      <4>2. QED BY <3>1, <3>3, <3>5, <4>1 DEF Seals, Sealed
    <3>7. b # 0
      BY <1>1, <3>1 DEF BlocksGrow
    <3>8. /\ i < Len(writer[s].q) + 1 /\ Len(writer[s].q) + 1 \in DOMAIN writer'[s].q
          /\ writer'[s].q[Len(writer[s].q) + 1] = b
      BY <3>6, <3>7, NewlyQueued
    <3>9. PICK j : j = Len(writer[s].q) + 1
      OBVIOUS
    <3>10. QED BY <3>8, <3>9
  <2>5. QED BY <2>3, <2>4
<1>4. QED BY <1>2, <1>3, EntryFrom

\* A discard leaves the queue when it has been carried out.
LEMMA DiscardDone ==
  ASSUME Types, QueuesOK, NEW s \in 1..MaxSessions, Advances(s), writer[s].q[1] = 0
  PROVE  Purged(s)
<1>1. writer'[s].pc = "idle" /\ WriterShape(s)
  BY DEF Advances
<1>2. writer[s].pc \notin {"temp", "renamed", "rowed"}
  BY DEF QueuesOK, QueueOK
<1>3. ~Temps(s) /\ ~Renames(s)
  BY <1>1 DEF Temps, Renames, Filing, WriterBecomes
<1>4. ~Fails(s) /\ ~Chips(s) /\ \A c : ~Inserts(s, c)
  BY <1>1, <1>2 DEF Fails, Chips, Inserts
<1>5. ~ListsAll(s) /\ ~UnlinkedAll(s) /\ ~Purges(s)
  BY <1>1 DEF ListsAll, UnlinkedAll, NoneLeft, Purges, WriterBecomes
<1>6. \A i : ~UnlinksOne(s, i)
  BY <1>1 DEF UnlinksOne, Unlinks
<1>7. QED BY <1>1, <1>3, <1>4, <1>5, <1>6 DEF WriterShape

\* What is cleared newly is what a discard in some queue is for.
LEMMA NewlyCleared ==
  ASSUME Types, Shape, NEW b \in cleared', b \notin cleared
  PROVE  \E t : Discards(t) /\ b \in SealedUnder(writer[t].row)
<1>1. PICK t : Discards(t)
  BY GhostsMoveWhen DEF GhostsMove, Leaves
<1>2. QED BY <1>1 DEF Discards

\* A discard is ahead of what it discards.
LEMMA DiscardAhead ==
  ASSUME NEW t, Discards(t)
  PROVE  Clears(t)' /\ writer'[t].row = writer[t].row /\ t \in 1..MaxSessions
<1>1. t \in 1..MaxSessions /\ Queued(t, 0)
  BY DEF Discards
<1>2. /\ writer'[t].row = writer[t].row /\ writer'[t].q[Len(writer[t].q) + 1] = 0
      /\ Len(writer[t].q) + 1 \in DOMAIN writer'[t].q
  BY <1>1, NewlyQueued
<1>3. QED BY <1>1, <1>2 DEF Clears

\* A cleared block still stored has a clear ahead.
LEMMA ClearedRowsAhead ==
  ASSUME DiskInv, KnownBlocks, ClearsAhead, Shape, NEW d \in StoredRows',
         files'[Path(d)] \in cleared'
  PROVE  \E s \in 1..MaxSessions : writer'[s].row = d.pane /\ Clears(s)'
<1> USE DEF DiskInv, GcInv
<1>1. ASSUME NEW c \in StoredRows, GoesAs(c, d), files[Path(c)] \in cleared
      PROVE  \E s \in 1..MaxSessions : writer'[s].row = d.pane /\ Clears(s)'
  <2>1. PICK s \in 1..MaxSessions : writer[s].row = c.pane /\ Clears(s)
    BY <1>1 DEF ClearsAhead
  <2>2. PICK j \in DOMAIN writer[s].q : writer[s].q[j] = 0
    BY <2>1 DEF Clears
  <2>3. Alive(s) /\ writer[s].row = sessions[s] /\ c.pane = d.pane
    BY <1>1, <2>2, QueueAlive DEF GoesAs, SameButLabel
  <2>4. ASSUME NEW i \in DOMAIN writer'[s].q, Enters(s, i, j)
        PROVE  writer'[s].row = d.pane /\ Clears(s)'
    <3>1. writer'[s].q[i] = 0 /\ writer'[s].row = d.pane
      BY <2>1, <2>2, <2>3, <2>4 DEF Enters
    <3>2. QED BY <2>4, <3>1 DEF Clears
  <2>5. ASSUME Advances(s), j = 1 PROVE FALSE
    <3>1. Purged(s)
      BY <2>2, <2>5, DiscardDone
    <3>2. writer[s].pc = "purge" /\ DOMAIN writer[s].todo = {}
      BY <3>1 DEF Purged
    <3>3. c \in PaneRows(sessions[s])
      BY <2>1, <2>3, StoredOwn DEF PaneRows
    <3>4. QED BY <2>3, <3>2, <3>3 DEF ClearRows
  <2>6. ASSUME NEW p \in Procs, Leaves(p), held[s] = p PROVE FALSE
    <3>1. SealedUnder(sessions[s]) \cap cleared' = {}
      BY <2>1, <2>6 DEF Leaves
    <3>2. sealedIn[files[Path(c)]] = sessions[s] /\ files[Path(c)] \in 1..Len(sealedIn)
      BY <2>1, <2>3, StoredOwn
    <3>3. sessions[s] # 0
      BY <2>3, QueueAlive
    <3>4. files[Path(c)] \in SealedUnder(sessions[s])
      BY <3>2, <3>3 DEF SealedUnder
    <3>5. files[Path(c)] \in cleared'
      BY <1>1 DEF GoesAs
    <3>6. QED BY <3>1, <3>4, <3>5
  <2>7. QED BY <2>4, <2>5, <2>6, EntryTo
<1>2. ASSUME NEW c \in StoredRows, GoesAs(c, d), files[Path(c)] \notin cleared
      PROVE  \E s \in 1..MaxSessions : writer'[s].row = d.pane /\ Clears(s)'
  <2>1. files[Path(c)] \in cleared' /\ c.pane = d.pane
    BY <1>2 DEF GoesAs, SameButLabel
  <2>2. PICK t : Discards(t) /\ files[Path(c)] \in SealedUnder(writer[t].row)
    BY <1>2, <2>1, NewlyCleared
  <2>3. writer[t].row = d.pane
    BY <2>1, <2>2, StoredOwn DEF SealedUnder
  <2>4. QED BY <2>2, <2>3, DiscardAhead
<1>3. ASSUME NEW t, Files(t, d)
      PROVE  \E s \in 1..MaxSessions : writer'[s].row = d.pane /\ Clears(s)'
  <2>1. /\ t \in 1..MaxSessions /\ writer[t].q # <<>> /\ files'[Path(d)] = writer[t].q[1]
        /\ d.pane = writer[t].row /\ writer'[t].q = writer[t].q /\ Inserts(t, d)
    BY <1>3 DEF Files
  <2>2. cleared' = cleared /\ writer'[t].row = writer[t].row
    BY <2>1 DEF Inserts, Writes, WriterBecomes
  <2>3. 1 \in DOMAIN writer[t].q
    BY <2>1, HeadFacts
  <2>4. PICK j \in DOMAIN writer[t].q : writer[t].q[j] = 0
    BY <2>1, <2>2, <2>3 DEF ClearsAhead
  <2>5. Clears(t)'
    BY <2>1, <2>4 DEF Clears
  <2>6. QED BY <2>1, <2>2, <2>5
<1>4. QED BY <1>1, <1>2, <1>3, StoredFrom

\* A cleared block still queued has a clear behind it.
LEMMA ClearedQueueAhead ==
  ASSUME DiskInv, KnownBlocks, KnownBlocks', ClearsAhead, Shape, NEW s \in 1..MaxSessions,
         NEW i \in DOMAIN writer'[s].q, writer'[s].q[i] \in cleared'
  PROVE  \E j \in DOMAIN writer'[s].q : j > i /\ writer'[s].q[j] = 0
<1> USE DEF DiskInv, GcInv
<1>1. PICK b : b = writer'[s].q[i]
  OBVIOUS
<1>2. b # 0
  BY <1>1 DEF KnownBlocks
<1>3. ASSUME NEW k \in DOMAIN writer[s].q, Enters(s, i, k)
      PROVE  \E j \in DOMAIN writer'[s].q : j > i /\ writer'[s].q[j] = 0
  <2>1. writer[s].q[k] = b
    BY <1>1, <1>3 DEF Enters
  <2>2. CASE b \in cleared
    <3>1. PICK j \in DOMAIN writer[s].q : k < j /\ writer[s].q[j] = 0
      BY <2>1, <2>2 DEF ClearsAhead
    <3>2. PICK l \in DOMAIN writer'[s].q : i < l /\ writer'[s].q[l] = writer[s].q[j]
      BY <1>3, <3>1 DEF Enters
    <3>3. QED BY <3>1, <3>2
  <2>3. CASE b \notin cleared
    <3>1. PICK t : Discards(t) /\ b \in SealedUnder(writer[t].row)
      BY <1>1, <2>3, NewlyCleared
    <3>2. t \in 1..MaxSessions /\ Alive(t) /\ Queued(t, 0)
      BY <3>1 DEF Discards
    <3>3. writer[t].row = sessions[t] /\ sealedIn[b] = writer[t].row
      BY <3>1, <3>2, QueueAlive DEF SealedUnder
    <3>4. sealedIn[b] = writer[s].row /\ writer[s].q # <<>>
      BY <1>2, <2>1 DEF QueuesOK, QueueOK
    <3>5. s = t
      BY <3>2, <3>3, <3>4, WritersApart
    <3>6. /\ writer'[s].q[Len(writer[s].q) + 1] = 0
          /\ Len(writer[s].q) + 1 \in DOMAIN writer'[s].q
          /\ i < Len(writer[s].q) + 1
      BY <1>1, <1>2, <3>2, <3>5, NewlyQueued
    <3>7. PICK j : j = Len(writer[s].q) + 1
      OBVIOUS
    <3>8. QED BY <3>6, <3>7
  <2>4. QED BY <2>2, <2>3
<1>4. ASSUME Newly(s, i) PROVE FALSE
  <2>1. b = Len(sealedIn) + 1 /\ SealsInto(s) /\ Len(sealedIn) \in Nat
    BY <1>1, <1>2, <1>4 DEF Newly, Types, FileTypes
  <2>2. cleared' = cleared
    BY <2>1 DEF SealsInto, Seals
  <2>3. b \in 1..Len(sealedIn)
    BY <1>1, <2>2 DEF KnownBlocks
  <2>4. QED BY <2>1, <2>3
<1>5. QED BY <1>3, <1>4, EntryFrom

\* Every step keeps the clears ahead.
LEMMA ClearsAheadNext ==
  ASSUME DiskInv, KnownBlocks, KnownBlocks', ClearsAhead, Shape
  PROVE  ClearsAhead'
BY ClearedRowsAhead, ClearedQueueAhead DEF ClearsAhead, Path

-----------------------------------------------------------------------------
\* The invariant of the promise

\* The invariant of the promises holds at first.
LEMMA PromiseInit == ASSUME Init PROVE PromiseInv
<1>1. DiskInv
  BY DiskInvInit
<1>2. /\ rows = {} /\ durable = {} /\ collected = {} /\ cleared = {}
      /\ writer = [s \in 1..MaxSessions |-> NoWriter]
  BY DEF Init
<1>3. \A s \in 1..MaxSessions : DOMAIN writer[s].q = {}
  BY <1>2 DEF NoWriter
<1>4. StoredRows = {}
  BY <1>2 DEF StoredRows
<1>5. KnownBlocks /\ DurableIsStored
  BY <1>2 DEF KnownBlocks, DurableIsStored
<1>6. QueuedIsNew /\ BlocksInOrder /\ StoredIsDurable /\ ClearsCover /\ ClearsAhead
  BY <1>3, <1>4 DEF QueuedIsNew, BlocksInOrder, StoredIsDurable, ClearsCover, ClearsAhead
<1>7. QED BY <1>1, <1>5, <1>6 DEF PromiseInv

\* Every step keeps the invariant of the promises.
LEMMA PromiseNext ==
  ASSUME CalmUser, PromiseInv, [Next]_vars
  PROVE  PromiseInv' /\ Shape /\ SessionsKept
<1> USE DEF PromiseInv
<1>1. DiskInv' /\ Shape /\ SessionsKept
  BY DiskInvNext
<1>2. KnownBlocks'
  BY <1>1, KnownBlocksNext
<1>3. QueuedIsNew' /\ BlocksInOrder' /\ StoredIsDurable'
  BY <1>1, QueuedIsNewNext, BlocksInOrderNext, StoredIsDurableNext
<1>4. DurableIsStored' /\ ClearsCover' /\ ClearsAhead'
  BY <1>1, <1>2, DurableIsStoredNext, ClearsCoverNext, ClearsAheadNext
<1>5. QED BY <1>1, <1>2, <1>3, <1>4

-----------------------------------------------------------------------------
\* What the rows' panes are bounded by
PanesBounded == panes \in Nat /\ panes <= MaxPanes

\* At first there is no pane.
LEMMA PanesBoundedInit == ASSUME Init PROVE PanesBounded
BY StoreAssumption DEF Init, PanesBounded

\* There are never more panes than the bound.
LEMMA PanesBoundedNext ==
  ASSUME Types, Own, PanesBounded, [Next]_vars
  PROVE  PanesBounded'
<1>1. CASE UNCHANGED <<sessions, panes>>
  BY <1>1 DEF PanesBounded
<1>2. ASSUME NEW p \in Procs, Begins(p) PROVE PanesBounded'
  <2>1. PICK at, r : BeginRows(p, at, r)
    BY <1>2 DEF Begins
  <2>2. (r # 0 \/ panes < MaxPanes) /\ panes' = IF r = 0 THEN panes + 1 ELSE panes
    BY <2>1 DEF BeginRows
  <2>3. MaxPanes \in Nat
    BY StoreAssumption
  <2>4. QED BY <2>2, <2>3 DEF PanesBounded
<1>3. QED BY <1>1, <1>2, SessionsMove

\* What each pane's transcript holds, before and after
LEMMA StoreShows ==
  ASSUME PromiseInv
  PROVE  \A r : /\ Rising(RestoredBlocks(r)) /\ Elems(RestoredBlocks(r)) = Stored(r)
                /\ Len(Restore(r)) = Len(RestoredBlocks(r))
                /\ \A k \in 1..Len(Restore(r)) :
                     /\ Restore(r)[k].block = RestoredBlocks(r)[k]
                     /\ Restore(r)[k].label \in {0, Restore(r)[k].block}
BY RestoreShows DEF PromiseInv, DiskInv, GcInv, Types

\* A transcript shows what is stored for its pane.
LEMMA StoredMember ==
  ASSUME PromiseInv, NEW r
  PROVE  /\ \A b \in Stored(r) : \E c \in StoredRows : c.pane = r /\ files[Path(c)] = b
         /\ \A c \in StoredRows : c.pane = r => files[Path(c)] \in Stored(r)
         /\ \A b \in Stored(r) : b \in 1..Len(sealedIn) /\ sealedIn[b] = r
         /\ ToSet(RestoredBlocks(r)) = Stored(r)
<1>1. \A b \in Stored(r) : \E c \in StoredRows : c.pane = r /\ files[Path(c)] = b
  BY DEF Stored
<1>2. \A c \in StoredRows : c.pane = r => files[Path(c)] \in Stored(r)
  BY DEF Stored
<1>3. GcInv
  BY DEF PromiseInv, DiskInv
<1>4. \A b \in Stored(r) : b \in 1..Len(sealedIn) /\ sealedIn[b] = r
  BY <1>1, <1>3, StoredOwn
<1>5. PICK s \in Seq(Nat) : s = RestoredBlocks(r) /\ Elems(s) = Stored(r)
  BY StoreShows DEF Rising
<1>6. ToSet(s) = Elems(s)
  BY DEF ToSet, Elems
<1>7. QED BY <1>1, <1>2, <1>4, <1>5, <1>6

\* The invariant of the promises holds in every behaviour.
LEMMA SpecPromise == ASSUME CalmUser PROVE Spec => []PromiseInv
<1>1. Init => PromiseInv
  BY PromiseInit
<1>2. PromiseInv /\ [Next]_vars => PromiseInv'
  BY PromiseNext
<1>3. QED BY <1>1, <1>2, PTL DEF Spec

\* Once the discard of a pane has been carried out, nothing of what the user
\* cleared or closed comes back on a restore, crashes and restarts included.
THEOREM ClearedStaysGone ==
  ASSUME CalmUser
  PROVE  Spec => []ClearedStaysCleared
<1>1. PromiseInv => ClearedStaysCleared
  <2> SUFFICES ASSUME PromiseInv, NEW r \in 1..panes, ~ClearPending(r),
                      NEW b \in ToSet(RestoredBlocks(r)), b \in cleared
               PROVE  FALSE
    BY DEF ClearedStaysCleared
  <2>1. PICK c \in StoredRows : c.pane = r /\ files[Path(c)] = b
    BY StoredMember
  <2>2. PICK s \in 1..MaxSessions : writer[s].row = r /\ Clears(s)
    BY <2>1 DEF PromiseInv, ClearsAhead
  <2>3. writer[s].q \in Seq(Nat)
    BY WriterRecord DEF PromiseInv, DiskInv, GcInv
  <2>4. Contains(writer[s].q, 0)
    BY <2>2, <2>3 DEF Clears, Contains
  <2>5. QED BY <2>2, <2>4 DEF ClearPending
<1>2. QED BY <1>1, SpecPromise, PTL

\* What was written stays restorable, under the pane it was sealed in, until
\* the user discards it or the collector takes it.
THEOREM WrittenStays ==
  ASSUME CalmUser
  PROVE  Spec => []DurableUntilDiscarded
<1>1. PromiseInv => DurableUntilDiscarded
  <2> SUFFICES ASSUME PromiseInv, NEW b \in durable \ (cleared \cup unsettled \cup collected)
               PROVE  Contains(RestoredBlocks(sealedIn[b]), b)
    BY DEF DurableUntilDiscarded
  <2>1. PICK r : r = sealedIn[b]
    OBVIOUS
  <2>2. b \in Stored(r)
    BY <2>1 DEF PromiseInv, DurableIsStored
  <2>3. b \in Elems(RestoredBlocks(r))
    BY <2>2, StoreShows
  <2>4. QED BY <2>1, <2>3 DEF Elems, Contains
<1>2. QED BY <1>1, SpecPromise, PTL

-----------------------------------------------------------------------------
\* Each pane's transcript keeps the promise

\* A file that goes with a stored row is of the row's pane.
LEMMA LostFile ==
  ASSUME PromiseInv, Shape, NEW c \in StoredRows, \A d \in StoredRows' : ~GoesAs(c, d)
  PROVE  \E x \in DOMAIN files : /\ sessions[x[1]] = c.pane
                                 /\ DOMAIN files' = DOMAIN files \ {x}
<1> USE DEF PromiseInv, DiskInv, GcInv
<1>1. ASSUME NEW s, NEW i, Drops1(s, i, c)
      PROVE  \E x \in DOMAIN files : /\ sessions[x[1]] = c.pane
                                     /\ DOMAIN files' = DOMAIN files \ {x}
  <2>1. /\ s \in 1..MaxSessions /\ Alive(s) /\ c.pane = sessions[s]
        /\ writer[s].pc = "unlink" /\ i \in DOMAIN writer[s].todo
        /\ Path(writer[s].todo[i]) \in DOMAIN files
        /\ DOMAIN files' = DOMAIN files \ {Path(writer[s].todo[i])}
    BY <1>1 DEF Drops1, UnlinksOne, Unlinks, Unfiled
  <2>2. PICK e : e = writer[s].todo[i]
    OBVIOUS
  <2>3. e \in PaneRows(sessions[s])
    BY <2>1, <2>2 DEF ClearRows
  <2>4. e \in rows /\ e.pane = c.pane
    BY <2>1, <2>3 DEF PaneRows
  <2>5. sessions[e.session] = c.pane
    BY <2>4 DEF Types, DbTypes
  <2>6. Path(e)[1] = e.session
    BY DEF Path
  <2>7. QED BY <2>1, <2>2, <2>5, <2>6
<1>2. ASSUME NEW p \in Procs, TakesFile(p, Path(c))
      PROVE  \E x \in DOMAIN files : /\ sessions[x[1]] = c.pane
                                     /\ DOMAIN files' = DOMAIN files \ {x}
  <2>1. Path(c) \in DOMAIN files /\ DOMAIN files' = DOMAIN files \ {Path(c)}
    BY <1>2 DEF TakesFile, Unfiled
  <2>2. c \in rows
    BY DEF StoredRows
  <2>3. sessions[c.session] = c.pane
    BY <2>2 DEF Types, DbTypes
  <2>4. Path(c)[1] = c.session
    BY DEF Path
  <2>5. QED BY <2>1, <2>3, <2>4
<1>3. QED BY <1>1, <1>2, StoredTo

\* What a step that writes no row leaves of the transcripts.
LEMMA TranscriptsShrink ==
  ASSUME PromiseInv, Shape, durable' = durable
  PROVE  /\ \A r : Stored(r)' \subseteq Stored(r)
         /\ \A r, x : Stored(r)' # Stored(r) /\ Stored(x)' # Stored(x) => r = x
         /\ \A r : Stored(r)' # Stored(r) => r \in 1..panes
<1> USE DEF PromiseInv
<1>1. ASSUME NEW s, NEW d, Files(s, d) PROVE FALSE
  <2>1. /\ s \in 1..MaxSessions /\ writer[s].q # <<>> /\ writer[s].q[1] # 0
        /\ Inserts(s, d) /\ writer[s].pc = "renamed"
    BY <1>1 DEF Files
  <2>2. writer[s].q[1] \in durable
    BY <2>1 DEF Inserts, Inserted
  <2>3. 1 \in DOMAIN writer[s].q
    BY <2>1, HeadFacts DEF DiskInv, GcInv
  <2>4. QED BY <2>1, <2>2, <2>3 DEF QueuedIsNew
<1>2. ASSUME NEW r, NEW b \in Stored(r)' PROVE b \in Stored(r)
  <2>1. PICK d \in StoredRows' : d.pane = r /\ b = files'[Path(d)]
    BY DEF Stored, Path
  <2>2. PICK c \in StoredRows : GoesAs(c, d)
    BY <1>1, StoredFrom
  <2>3. c.pane = r /\ b = files[Path(c)]
    BY <2>1, <2>2 DEF GoesAs, SameButLabel
  <2>4. QED BY <2>3, StoredMember
<1>3. ASSUME NEW r, Stored(r)' # Stored(r)
      PROVE  \E c \in StoredRows : c.pane = r /\ \A d \in StoredRows' : ~GoesAs(c, d)
  <2>1. PICK b \in Stored(r) : b \notin Stored(r)'
    BY <1>2, <1>3
  <2>2. PICK c \in StoredRows : c.pane = r /\ b = files[Path(c)]
    BY StoredMember
  <2>3. ASSUME NEW d \in StoredRows', GoesAs(c, d) PROVE FALSE
    <3>1. d.pane = r /\ b = files'[Path(d)]
      BY <2>2, <2>3 DEF GoesAs, SameButLabel
    <3>2. b \in Stored(r)'
      BY <3>1 DEF Stored, Path
    <3>3. QED BY <2>1, <3>2
  <2>4. QED BY <2>2, <2>3
<1>4. ASSUME NEW r, NEW x, Stored(r)' # Stored(r), Stored(x)' # Stored(x)
      PROVE  r = x
  <2>1. PICK c \in StoredRows : c.pane = r /\ \A d \in StoredRows' : ~GoesAs(c, d)
    BY <1>3, <1>4
  <2>2. PICK e \in StoredRows : e.pane = x /\ \A d \in StoredRows' : ~GoesAs(e, d)
    BY <1>3, <1>4
  <2>3. PICK y \in DOMAIN files : sessions[y[1]] = r /\ DOMAIN files' = DOMAIN files \ {y}
    BY <2>1, LostFile
  <2>4. PICK z \in DOMAIN files : sessions[z[1]] = x /\ DOMAIN files' = DOMAIN files \ {z}
    BY <2>2, LostFile
  <2>5. y = z
    BY <2>3, <2>4
  <2>6. QED BY <2>3, <2>4, <2>5
<1>5. ASSUME NEW r, Stored(r)' # Stored(r) PROVE r \in 1..panes
  <2>1. PICK c \in StoredRows : c.pane = r
    BY <1>3, <1>5
  <2>2. c \in rows
    BY DEF StoredRows
  <2>3. QED BY <2>1, <2>2 DEF DiskInv, GcInv, Types, DbTypes
<1>6. QED BY <1>2, <1>4, <1>5

\* A row that is inserted adds its block at the end of one transcript.
LEMMA TranscriptGrows ==
  ASSUME PromiseInv, Shape, NEW s, NEW d, Inserts(s, d)
  PROVE  LET b == writer[s].q[1]
         IN  /\ b \in Blocks /\ b \notin durable /\ durable' = durable \cup {b}
             /\ writer[s].row \in 1..panes
             /\ \A e \in Stored(writer[s].row) : e < b
             /\ \A r : Stored(r)' = Stored(r) \cup (IF r = writer[s].row THEN {b} ELSE {})
<1> USE DEF PromiseInv
<1>1. PICK b, w : b = writer[s].q[1] /\ w = writer[s].row
  OBVIOUS
<1>2. Files(s, d) /\ d \in StoredRows'
  BY InsertedIsStored
<1>3. /\ s \in 1..MaxSessions /\ Alive(s) /\ writer[s].pc = "renamed" /\ writer[s].q # <<>>
      /\ b # 0 /\ d.pane = w /\ files'[Path(d)] = b
  BY <1>1, <1>2 DEF Files
<1>4. durable' = durable \cup {b} /\ files' = files /\ collected' = collected
  BY <1>1 DEF Inserts, Inserted, Writes
<1>5. 1 \in DOMAIN writer[s].q /\ b \in 1..Len(sealedIn)
  BY <1>1, <1>3, HeadFacts DEF DiskInv, GcInv
<1>6. b \in Blocks
  BY <1>5 DEF Blocks, DiskInv, GcInv, Types, FileTypes
<1>7. b \notin durable
  BY <1>1, <1>3, <1>5 DEF QueuedIsNew
<1>8. w \in 1..panes
  BY <1>1, <1>3, QueueAlive DEF DiskInv, GcInv
<1>9. ASSUME NEW e \in Stored(w) PROVE e < b
  <2>1. PICK c \in StoredRows : c.pane = w /\ files[Path(c)] = e
    BY StoredMember
  <2>2. ~Written(s, c)
    BY <1>3 DEF Written
  <2>3. QED BY <1>1, <1>3, <1>5, <2>1, <2>2 DEF BlocksInOrder
<1>10. ASSUME NEW r, NEW x \in Stored(r)' PROVE x \in Stored(r) \/ (r = w /\ x = b)
  <2>1. PICK e \in StoredRows' : e.pane = r /\ x = files'[Path(e)]
    BY DEF Stored, Path
  <2>2. ASSUME NEW c \in StoredRows, GoesAs(c, e) PROVE x \in Stored(r)
    <3>1. c.pane = r /\ x = files[Path(c)]
      BY <2>1, <2>2 DEF GoesAs, SameButLabel
    <3>2. QED BY <3>1, StoredMember
  <2>3. ASSUME NEW t, Files(t, e) PROVE r = w /\ x = b
    <3>1. /\ t \in 1..MaxSessions /\ writer[t].pc = "renamed" /\ writer'[t].pc = "rowed"
      BY <2>3 DEF Files, Inserts, WriterBecomes
    <3>2. t = s
      BY <1>3, <3>1 DEF Inserts, WriterBecomes
    <3>3. QED BY <1>1, <2>1, <2>3, <3>2 DEF Files
  <2>4. QED BY <2>2, <2>3, StoredFrom
<1>11. ASSUME NEW r, NEW x \in Stored(r) PROVE x \in Stored(r)'
  <2>1. PICK c \in StoredRows : c.pane = r /\ files[Path(c)] = x
    BY StoredMember
  <2>2. ASSUME \A e \in StoredRows' : ~GoesAs(c, e) PROVE FALSE
    <3>1. PICK y \in DOMAIN files : DOMAIN files' = DOMAIN files \ {y}
      BY <2>2, LostFile
    <3>2. QED BY <1>4, <3>1
  <2>3. PICK e \in StoredRows' : GoesAs(c, e)
    BY <2>2
  <2>4. e.pane = r /\ files'[Path(e)] = x
    BY <2>1, <2>3 DEF GoesAs, SameButLabel
  <2>5. QED BY <2>4 DEF Stored, Path
<1>12. b \in Stored(w)'
  BY <1>2, <1>3 DEF Stored, Path
<1>13. \A r : Stored(r)' = Stored(r) \cup (IF r = w THEN {b} ELSE {})
  BY <1>10, <1>11, <1>12
<1>14. QED BY <1>1, <1>4, <1>6, <1>7, <1>8, <1>9, <1>13

\* The same of the transcripts after a step
ShowsWell == \A r : Rising(RestoredBlocks(r)) /\ Elems(RestoredBlocks(r)) = Stored(r)

\* What a restore shows is rising and all that is stored, after a step too.
LEMMA ShowsWellNext == PromiseInv' => ShowsWell'
<1>1. PromiseInv => ShowsWell
  BY StoreShows DEF ShowsWell
<1>2. QED BY <1>1, PTL

\* The same for one pane.
LEMMA NextShows ==
  ASSUME PromiseInv', NEW r
  PROVE  \E s : s = RestoredBlocks(r)' /\ Rising(s) /\ Elems(s) = Stored(r)'
BY ShowsWellNext DEF ShowsWell, Rising, Elems

\* Transcript and store leave out entries in the same way.
LEMMA SameKeep == \A s, places : Promise!Keep(s, places) = Keep(s, places)
BY DEF Keep, Promise!Keep

\* Blocks are written one at a time, at the end.
LEMMA InsertShows ==
  ASSUME PromiseInv, PromiseInv', PanesBounded, Shape, NEW x, NEW d, Inserts(x, d)
  PROVE  \E r \in 1..MaxPanes : \E b \in Blocks : Promise!Show(r, b)
<1>1. PICK b, w : b = writer[x].q[1] /\ w = writer[x].row
  OBVIOUS
<1>2. /\ b \in Blocks /\ b \notin durable /\ durable' = durable \cup {b}
      /\ w \in 1..panes
      /\ \A e \in Stored(w) : e < b
      /\ \A r : Stored(r)' = Stored(r) \cup (IF r = w THEN {b} ELSE {})
  BY <1>1, TranscriptGrows
<1>3. b \in Nat /\ w \in 1..MaxPanes
  <2>1. b \in Nat
    BY <1>2 DEF Blocks
  <2>2. w \in 1..MaxPanes
    BY <1>2, StoreAssumption DEF PanesBounded
  <2>3. QED BY <2>1, <2>2
<1>4. ASSUME NEW r, r # w PROVE RestoredBlocks(r)' = RestoredBlocks(r)
  <2>1. Rising(RestoredBlocks(r)) /\ Elems(RestoredBlocks(r)) = Stored(r)
    BY StoreShows
  <2>2. PICK s : s = RestoredBlocks(r)' /\ Rising(s) /\ Elems(s) = Stored(r)'
    BY NextShows
  <2>3. Stored(r)' = Stored(r)
    BY <1>2, <1>4
  <2>4. QED BY <2>1, <2>2, <2>3, RisingEqual
<1>5. RestoredBlocks(w)' = Append(RestoredBlocks(w), b)
  <2>1. Rising(RestoredBlocks(w)) /\ Elems(RestoredBlocks(w)) = Stored(w)
    BY StoreShows
  <2>2. \A i \in 1..Len(RestoredBlocks(w)) : RestoredBlocks(w)[i] < b
    BY <1>2, <2>1 DEF Elems
  <2>3. Rising(Append(RestoredBlocks(w), b)) /\ Elems(Append(RestoredBlocks(w), b)) = Stored(w) \cup {b}
    BY <1>3, <2>1, <2>2, RisingAppend
  <2>4. PICK s : s = RestoredBlocks(w)' /\ Rising(s) /\ Elems(s) = Stored(w)'
    BY NextShows
  <2>5. Stored(w)' = Stored(w) \cup {b}
    BY <1>2
  <2>6. QED BY <2>3, <2>4, <2>5, RisingEqual
<1>6. Shown' = [Shown EXCEPT ![w] = Append(@, b)]
  BY <1>3, <1>4, <1>5 DEF Shown
<1>7. Promise!Show(w, b)
  BY <1>2, <1>6 DEF Promise!Show
<1>8. QED BY <1>2, <1>3, <1>7

\* A step that makes nothing durable shows the same or forgets blocks of one
\* pane.
LEMMA ShrinkForgets ==
  ASSUME PromiseInv, PromiseInv', PanesBounded, Shape, durable' = durable
  PROVE  \/ Shown' = Shown
         \/ \E r \in 1..MaxPanes : \E kept \in SUBSET Blocks : Promise!Forget(r, kept)
<1>1. ASSUME NEW r, Stored(r)' = Stored(r) PROVE RestoredBlocks(r)' = RestoredBlocks(r)
  <2>1. Rising(RestoredBlocks(r)) /\ Elems(RestoredBlocks(r)) = Stored(r)
    BY StoreShows
  <2>2. PICK s : s = RestoredBlocks(r)' /\ Rising(s) /\ Elems(s) = Stored(r)'
    BY NextShows
  <2>3. QED BY <1>1, <2>1, <2>2, RisingEqual
<1>2. CASE \A r : Stored(r)' = Stored(r)
  BY <1>1, <1>2 DEF Shown
<1>3. CASE \E r : Stored(r)' # Stored(r)
  <2>1. PICK w : Stored(w)' # Stored(w)
    BY <1>3
  <2>2. w \in 1..panes /\ \A r : r # w => Stored(r)' = Stored(r)
    BY <2>1, TranscriptsShrink
  <2>3. w \in 1..MaxPanes
    BY <2>2, StoreAssumption DEF PanesBounded
  <2>4. PICK kept : kept = Stored(w)'
    OBVIOUS
  <2>5. kept \subseteq Stored(w)
    BY <2>4, TranscriptsShrink
  <2>6. kept \in SUBSET Blocks
    <3>1. \A b \in Stored(w) : b \in 1..Len(sealedIn)
      BY StoredMember
    <3>2. Len(sealedIn) <= Len(LinesOf) /\ Len(sealedIn) \in Nat /\ Len(LinesOf) \in Nat
      BY StoreAssumption DEF PromiseInv, DiskInv, GcInv, Types, FileTypes
    <3>3. QED BY <2>5, <3>1, <3>2 DEF Blocks
  <2>7. PICK s : s = RestoredBlocks(w)
    OBVIOUS
  <2>8. PICK places : places = {i \in DOMAIN s : s[i] \in kept}
    OBVIOUS
  <2>9. Rising(s) /\ Elems(s) = Stored(w)
    BY <2>7, StoreShows
  <2>10. Rising(Keep(s, places)) /\ Elems(Keep(s, places)) = {s[i] : i \in 1..Len(s) \cap places}
    BY <2>9, RisingKeep
  <2>11. {s[i] : i \in 1..Len(s) \cap places} = kept
    BY <2>5, <2>8, <2>9 DEF Elems, Rising
  <2>12. PICK t : t = RestoredBlocks(w)' /\ Rising(t) /\ Elems(t) = Stored(w)'
    BY NextShows
  <2>13. RestoredBlocks(w)' = Keep(s, places)
    BY <2>4, <2>10, <2>11, <2>12, RisingEqual
  <2>14. Shown' = [Shown EXCEPT ![w] = Keep(s, places)]
    BY <1>1, <2>2, <2>13 DEF Shown
  <2>15. Shown[w] = s
    BY <2>3, <2>7 DEF Shown
  <2>16. Promise!Forget(w, kept)
    BY <2>8, <2>14, <2>15, SameKeep DEF Promise!Forget
  <2>17. QED BY <2>3, <2>6, <2>16
<1>4. QED BY <1>2, <1>3

\* What each pane would show after a restart changes only by one block at its
\* end or by blocks that go: the store implements the transcripts it promises.
THEOREM StoreKeepsItsPromise ==
  ASSUME CalmUser
  PROVE  Spec => ImplementsTranscript
<1>1. Init => Promise!Init
  <2> SUFFICES ASSUME Init PROVE Promise!Init
    OBVIOUS
  <2>1. PromiseInv
    BY PromiseInit
  <2>2. StoredRows = {} /\ durable = {}
    BY DEF Init, StoredRows
  <2>3. ASSUME NEW r PROVE RestoredBlocks(r) = <<>>
    <3>1. PICK s \in Seq(Nat) : s = RestoredBlocks(r) /\ Elems(s) = Stored(r)
      BY <2>1, StoreShows DEF Rising
    <3>2. Elems(s) = {}
      BY <2>2, <3>1 DEF Stored
    <3>3. ASSUME s # <<>> PROVE FALSE
      <4>1. 1 \in 1..Len(s)
        BY <3>3
      <4>2. s[1] \in Elems(s)
        BY <4>1 DEF Elems
      <4>3. QED BY <3>2, <4>2
    <3>4. QED BY <3>1, <3>3
  <2>4. QED BY <2>2, <2>3 DEF Promise!Init, Shown
<1>2. PromiseInv /\ PromiseInv' /\ PanesBounded /\ [Next]_vars
        => [Promise!Next]_<<Shown, durable>>
  <2> SUFFICES ASSUME PromiseInv, PromiseInv', PanesBounded, [Next]_vars
               PROVE  [Promise!Next]_<<Shown, durable>>
    OBVIOUS
  <2>1. Shape
    BY PromiseNext
  <2>2. ASSUME NEW s, NEW d, Inserts(s, d) PROVE Promise!Next
    BY <2>1, <2>2, InsertShows DEF Promise!Next
  <2>3. CASE durable' = durable
    BY <2>1, <2>3, ShrinkForgets DEF Promise!Next
  <2>4. QED BY <2>1, <2>2, <2>3, GhostsMoveWhen DEF GhostsMove
<1>3. Init => PanesBounded
  BY PanesBoundedInit
<1>4. PromiseInv /\ PanesBounded /\ [Next]_vars => PanesBounded'
  BY PanesBoundedNext DEF PromiseInv, DiskInv, GcInv
<1>5. QED BY <1>1, <1>2, <1>3, <1>4, SpecPromise, PTL DEF Spec, ImplementsTranscript, Promise!Spec

-----------------------------------------------------------------------------
\* Where a pane's tab comes from

\* A tab left alone carries its blocks.
LEMMA CarriesSame ==
  ASSUME NEW p \in Procs, NEW i \in DOMAIN tabs[p], tabs[p][i].row # 0,
         tabs'[p][i] = tabs[p][i], ui'[p] = ui[p] \/ ui[p].op # "close",
         UNCHANGED <<cleared, sealedIn>>
  PROVE  Carries(p, i, i)
<1>1. Closing(p, i)' \/ ~Closing(p, i)
  BY DEF Closing
<1>2. QED BY <1>1 DEF Carries

\* Steps that leave the tabs
LEMMA TabsStay ==
  ASSUME UNCHANGED <<tabs, cleared, sealedIn>>,
         \A q \in Procs : ui'[q] = ui[q] \/ ui[q].op # "close",
         NEW p \in Procs, NEW i \in DOMAIN tabs'[p], tabs'[p][i].row # 0
  PROVE  TabFrom(p, i)
<1>1. i \in DOMAIN tabs[p] /\ tabs[p][i].row # 0 /\ tabs'[p][i] = tabs[p][i]
  OBVIOUS
<1>2. Carries(p, i, i)
  BY <1>1, CarriesSame
<1>3. QED BY <1>2 DEF TabFrom

\* A discard is of one pane's blocks.
LEMMA OthersUncleared ==
  ASSUME Types, Own, NEW p \in Procs, NEW i \in DOMAIN tabs[p], tabs[p][i].row # 0,
         NEW q \in Procs, NEW k \in DOMAIN tabs[q], p # q \/ i # k,
         cleared' = cleared \cup SealedUnder(tabs[q][k].row), sealedIn' = sealedIn,
         tabs'[p][i] = tabs[p][i], ui'[p] = ui[p] \/ ui[p].op # "close"
  PROVE  Carries(p, i, i)
<1>1. tabs[p][i].row # tabs[q][k].row
  BY DEF Own, RowsApart
<1>2. cleared' \cap SealedUnder(tabs[p][i].row) \subseteq cleared
  BY <1>1 DEF SealedUnder
<1>3. Closing(p, i)' \/ ~Closing(p, i)
  BY DEF Closing
<1>4. QED BY <1>2, <1>3 DEF Carries

\* Tabs after a restoring launch are restored or were there.
LEMMA LaunchTabs ==
  ASSUME Types, Own, NEW q \in Procs, LaunchRestored(q),
         NEW p \in Procs, NEW i \in DOMAIN tabs'[p], tabs'[p][i].row # 0
  PROVE  TabFrom(p, i)
<1>1. UNCHANGED <<rows, files, sessions, held, writer, ui>> /\ SameGhosts /\ Restorable
  BY DEF LaunchRestored, dbVars, diskVars, ghostVars, SameGhosts
<1>2. CASE p # q
  <2>1. tabs'[p] = tabs[p]
    BY <1>2, LaunchedTabs
  <2>2. Carries(p, i, i)
    BY <1>1, <2>1, CarriesSame DEF SameGhosts
  <2>3. QED BY <2>2 DEF TabFrom
<1>3. CASE p = q
  <2>1. /\ i \in DOMAIN layout /\ tabs'[p][i].row = layout[i] /\ tabs'[p][i].session = 0
        /\ tabs'[p][i].mem = RestoredBlocks(layout[i])
    BY <1>3, LaunchedTabs
  <2>2. PICK r : r = layout[i]
    OBVIOUS
  <2>3. Latest(r) = 0 \/ ~HeldByProcess(Latest(r))
    <3>1. layout \in Seq(Nat)
      BY DEF Types, DbTypes
    <3>2. i \in 1..Len(layout)
      BY <2>1, <3>1
    <3>3. QED BY <1>1, <2>2, <3>2 DEF Restorable
  <2>4. ASSUME NEW s \in 1..MaxSessions, Alive(s), sessions[s] = r PROVE FALSE
    <3>1. PICK j \in DOMAIN tabs[held[s]] : tabs[held[s]][j].session = s
      BY <2>4 DEF Own, HeldOK
    <3>2. held[s] \in Procs /\ s \in Sessions
      BY <2>4, AliveFacts
    <3>3. TabOK(held[s], j)
      BY <3>1, <3>2 DEF Own, TabsOK
    <3>4. s # 0
      OBVIOUS
    <3>5. s \in SessionsOf(tabs[held[s]][j].row) /\ \A t \in SessionsOf(tabs[held[s]][j].row) : t <= s
      BY <3>1, <3>3, <3>4 DEF TabOK
    <3>6. s \in SessionsOf(r) /\ \A t \in SessionsOf(r) : t <= s
      BY <2>4, <3>5 DEF SessionsOf
    <3>7. Latest(r) \in SessionsOf(r) /\ s <= Latest(r)
      BY <3>6, LatestFacts DEF Types
    <3>8. Latest(r) = s
      <4>1. Latest(r) \in Nat /\ Latest(r) <= s
        BY <3>6, <3>7 DEF SessionsOf, Sessions
      <4>2. QED BY <3>7, <4>1
    <3>9. QED BY <2>3, <2>4, <3>4, <3>8 DEF HeldByProcess, Alive
  <2>5. Restored(p, i)
    BY <1>1, <2>1, <2>2, <2>4 DEF Restored
  <2>6. QED BY <2>5 DEF TabFrom
<1>4. QED BY <1>2, <1>3

\* Tabs after a lock has been taken.
LEMMA LockTabs ==
  ASSUME Types, Own, FreshRows, NEW q \in Procs, TakeLock(q),
         NEW p \in Procs, NEW i \in DOMAIN tabs'[p], tabs'[p][i].row # 0
  PROVE  TabFrom(p, i)
<1>1. UNCHANGED <<rows, cleared, sealedIn>> /\ Starting(q)
  BY DEF TakeLock, dbVars, ghostVars, Starting
<1>2. PICK got \in BOOLEAN : Locked(q, ui[q].at, got) /\ Resumes(q, got)
  BY ResumeFacts
<1>3. PICK at : at = ui[q].at
  OBVIOUS
<1>4. ui[q].op # "close"
  BY <1>1 DEF Starting
<1>5. CASE p # q
  <2>1. tabs'[p] = tabs[p] /\ ui'[p] = ui[p]
    BY <1>2, <1>5 DEF Locked
  <2>2. Carries(p, i, i)
    BY <1>1, <2>1, CarriesSame
  <2>3. QED BY <2>2 DEF TabFrom
<1>6. CASE p = q /\ i # at
  <2>1. i \in DOMAIN tabs[p] /\ tabs'[p][i] = tabs[p][i]
    BY <1>2, <1>3, <1>6 DEF Locked
  <2>2. Carries(p, i, i)
    BY <1>1, <1>4, <1>6, <2>1, CarriesSame
  <2>3. QED BY <2>2 DEF TabFrom
<1>7. CASE p = q /\ i = at
  <2>1. got /\ tabs'[p][i].row = ui[q].row /\ tabs'[p][i].session = ui[q].session
    BY <1>2, <1>3, <1>7 DEF Locked
  <2>2. tabs'[p][i].mem = IF i \in DOMAIN tabs[p] THEN tabs[p][i].mem ELSE <<>>
    BY <1>2, <1>3, <1>7 DEF Locked
  <2>3. writer'[ui[q].session].q = <<>>
    <3>1. writer'[ui[q].session] = Resumed(ui[q])
      BY <1>2, <2>1 DEF Resumes
    <3>2. QED BY <3>1 DEF Resumed, NoWriter
  <2>4. StartOK(q)
    BY <1>1 DEF Own, StartsOK
  <2>5. tabs[q] \in Seq(TabType)
    BY DEF Types, ProcTypes
  <2>6. CASE i \in DOMAIN tabs[p]
    <3>1. ~FreshStart(q)
      BY <1>3, <1>7, <2>5, <2>6 DEF FreshStart
    <3>2. tabs[p][i].row = ui[q].row
      BY <1>3, <1>7, <2>4, <3>1 DEF StartOK
    <3>3. ~Closing(p, i)
      BY <1>4, <1>7 DEF Closing
    <3>4. tabs'[p][i].mem = tabs[p][i].mem
      BY <2>2, <2>6
    <3>5. Carries(p, i, i)
      BY <1>1, <2>1, <2>3, <2>6, <3>2, <3>3, <3>4 DEF Carries
    <3>6. QED BY <3>5 DEF TabFrom
  <2>7. CASE i \notin DOMAIN tabs[p]
    <3>1. FreshStart(q)
      BY <1>3, <1>7, <2>4, <2>5, <2>7 DEF FreshStart, StartOK
    <3>2. \A c \in rows' : c.pane # tabs'[p][i].row
      BY <1>1, <2>1, <3>1 DEF FreshRows
    <3>3. Blank(p, i)
      BY <2>1, <2>2, <2>3, <2>7, <3>2 DEF Blank
    <3>4. QED BY <3>3 DEF TabFrom
  <2>8. QED BY <2>6, <2>7
<1>8. QED BY <1>5, <1>6, <1>7

\* Tabs after a seal.
LEMMA SealTabs ==
  ASSUME Types, Own, QueuesOK, NEW q \in Procs, NEW k \in 1..Len(tabs[q]), SealBlock(q, k),
         NEW p \in Procs, NEW i \in DOMAIN tabs'[p], tabs'[p][i].row # 0
  PROVE  TabFrom(p, i)
<1>1. UNCHANGED <<rows, files, sessions, held, durable, cleared, unsettled, collected, ui>>
  BY DEF SealBlock, dbVars, diskVars
<1>2. ui[q].op = "idle"
  BY DEF SealBlock, UiIdle
<1>3. Sealed(q, k)
  BY SealFacts
<1>4. /\ SameTabs /\ tabs'[q][k].mem = Append(tabs[q][k].mem, Len(sealedIn) + 1)
      /\ \A y \in Procs : \A j \in DOMAIN tabs[y] :
           y # q \/ j # k => tabs'[y][j].mem = tabs[y][j].mem
  BY SealKeepsTabs
<1>5. k \in DOMAIN tabs[q]
  BY DEF Types, ProcTypes
<1>6. i \in DOMAIN tabs[p] /\ tabs'[p][i].row = tabs[p][i].row /\ tabs'[p][i].session = tabs[p][i].session
  BY <1>4 DEF SameTabs
<1>7. CASE p = q /\ i = k
  <2>1. Seals(p, i)
    BY <1>1, <1>3, <1>5, <1>7 DEF Seals
  <2>2. ~Closing(p, i)
    BY <1>2, <1>7 DEF Closing
  <2>3. Appended(p, i)
    BY <1>4, <1>6, <1>7, <2>1, <2>2 DEF Appended
  <2>4. QED BY <2>3 DEF TabFrom
<1>8. CASE p # q \/ i # k
  <2>1. tabs[p][i].row # tabs[q][k].row
    BY <1>5, <1>6, <1>8 DEF Own, RowsApart
  <2>2. sealedIn'[Len(sealedIn) + 1] # tabs[p][i].row
    BY <1>3, <2>1 DEF Sealed
  <2>3. Closing(p, i)' \/ ~Closing(p, i)
    BY <1>1 DEF Closing
  <2>4. tabs'[p][i].mem = tabs[p][i].mem
    BY <1>4, <1>6, <1>8
  <2>5. Carries(p, i, i)
    BY <1>1, <1>6, <2>2, <2>3, <2>4 DEF Carries
  <2>6. QED BY <2>5 DEF TabFrom
<1>9. QED BY <1>7, <1>8

\* Tabs after a clear.
LEMMA ClearTabs ==
  ASSUME Types, Own, NEW q \in Procs, NEW k \in 1..Len(tabs[q]), ClearScrollback(q, k),
         NEW p \in Procs, NEW i \in DOMAIN tabs'[p], tabs'[p][i].row # 0
  PROVE  TabFrom(p, i)
<1>1. UNCHANGED <<sealedIn, ui>> /\ cleared' = cleared \cup SealedUnder(tabs[q][k].row)
  BY DEF ClearScrollback, Discard
<1>2. /\ SameTabs /\ tabs'[q][k].mem = <<>>
      /\ \A y \in Procs : \A j \in DOMAIN tabs[y] :
           y # q \/ j # k => tabs'[y][j].mem = tabs[y][j].mem
  BY ClearKeepsTabs
<1>3. k \in DOMAIN tabs[q]
  BY DEF Types, ProcTypes
<1>4. i \in DOMAIN tabs[p] /\ tabs'[p][i].row = tabs[p][i].row /\ tabs'[p][i].session = tabs[p][i].session
  BY <1>2 DEF SameTabs
<1>5. CASE p = q /\ i = k
  <2>1. \A b \in 1..Len(sealedIn') : sealedIn'[b] = tabs'[p][i].row => b \in cleared'
    BY <1>1, <1>4, <1>5 DEF SealedUnder
  <2>2. Blank(p, i)
    BY <1>2, <1>5, <2>1 DEF Blank
  <2>3. QED BY <2>2 DEF TabFrom
<1>6. CASE p # q \/ i # k
  <2>1. tabs[p][i].row # tabs[q][k].row
    BY <1>3, <1>4, <1>6 DEF Own, RowsApart
  <2>2. cleared' \cap SealedUnder(tabs[p][i].row) \subseteq cleared
    BY <1>1, <2>1 DEF SealedUnder
  <2>3. Closing(p, i)' \/ ~Closing(p, i)
    BY <1>1 DEF Closing
  <2>4. tabs'[p][i].mem = tabs[p][i].mem
    BY <1>2, <1>4, <1>6
  <2>5. Carries(p, i, i)
    BY <1>1, <1>4, <2>2, <2>3, <2>4 DEF Carries
  <2>6. QED BY <2>5 DEF TabFrom
<1>7. QED BY <1>5, <1>6

\* Tabs after the start of a close.
LEMMA CloseTabs ==
  ASSUME Types, Own, NEW q \in Procs, NEW k \in 1..Len(tabs[q]), CloseTab(q, k),
         NEW p \in Procs, NEW i \in DOMAIN tabs'[p], tabs'[p][i].row # 0
  PROVE  TabFrom(p, i)
<1>1. /\ UNCHANGED <<sealedIn, tabs>> /\ cleared' = cleared \cup SealedUnder(tabs[q][k].row)
      /\ ui[q].op = "idle" /\ ui' = [ui EXCEPT ![q] = [NoOp EXCEPT !.op = "close", !.at = k]]
  BY DEF CloseTab, Discard, UiIdle
<1>2. ui'[q].op = "close" /\ ui'[q].at = k /\ \A y \in Procs : y # q => ui'[y] = ui[y]
  BY <1>1 DEF Types, ProcTypes, NoOp
<1>3. k \in DOMAIN tabs[q] /\ i \in DOMAIN tabs[p] /\ tabs'[p][i] = tabs[p][i] /\ tabs[p][i].row # 0
  BY <1>1 DEF Types, ProcTypes
<1>4. CASE p = q /\ i = k
  <2>1. Closing(p, i)'
    BY <1>2, <1>4 DEF Closing
  <2>2. Carries(p, i, i)
    BY <1>1, <1>3, <2>1 DEF Carries
  <2>3. QED BY <2>2 DEF TabFrom
<1>5. CASE p # q \/ i # k
  <2>1. ui'[p] = ui[p] \/ ui[p].op # "close"
    BY <1>1, <1>2
  <2>2. Carries(p, i, i)
    BY <1>1, <1>3, <1>5, <2>1, OthersUncleared
  <2>3. QED BY <2>2 DEF TabFrom
<1>6. QED BY <1>4, <1>5

\* Tabs after its end.
LEMMA ClosedTabs ==
  ASSUME Types, Own, NEW q \in Procs, EndClose(q),
         NEW p \in Procs, NEW i \in DOMAIN tabs'[p], tabs'[p][i].row # 0
  PROVE  TabFrom(p, i)
<1>1. UNCHANGED <<sealedIn, cleared>>
  BY DEF EndClose, ghostVars
<1>2. PICK at : at = ui[q].at /\ Closed(q, at)
  BY CloseFacts
<1>3. CASE p # q
  <2>1. tabs'[p] = tabs[p] /\ ui'[p] = ui[p]
    BY <1>2, <1>3 DEF Closed
  <2>2. Carries(p, i, i)
    BY <1>1, <2>1, CarriesSame
  <2>3. QED BY <2>2 DEF TabFrom
<1>4. CASE p = q
  <2>1. tabs[p] \in Seq(TabType) /\ at \in 1..Len(tabs[p]) /\ i \in 1..(Len(tabs[p]) - 1)
    BY <1>2, <1>4 DEF Closed, Types, ProcTypes
  <2>2. PICK j : j = IF i < at THEN i ELSE i + 1
    OBVIOUS
  <2>3. j \in DOMAIN tabs[p] /\ j # at
    BY <2>1, <2>2
  <2>4. tabs'[p][i] = tabs[p][j]
    BY <1>2, <1>4, <2>1, <2>2 DEF Closed
  <2>5. ~Closing(p, j)
    BY <1>2, <1>4, <2>3 DEF Closing
  <2>6. Carries(p, i, j)
    BY <1>1, <2>3, <2>4, <2>5 DEF Carries
  <2>7. QED BY <2>6 DEF TabFrom
<1>5. QED BY <1>3, <1>4

\* Tabs after a quit or a crash.
LEMMA LeftTabs ==
  ASSUME Types, Own, QueuesOK, NEW q \in Procs, EndQuit(q) \/ Crash(q),
         NEW p \in Procs, NEW i \in DOMAIN tabs'[p], tabs'[p][i].row # 0
  PROVE  TabFrom(p, i)
<1>1. Leaves(q)
  BY LeaveShape
<1>2. Gone(q)
  BY DEF EndQuit, Crash
<1>3. p # q
  <2>1. tabs'[q] = <<>>
    BY <1>2, GoneFacts
  <2>2. QED BY <2>1
<1>4. tabs'[p] = tabs[p] /\ ui'[p] = ui[p]
  BY <1>2, <1>3, GoneFacts
<1>5. cleared' \subseteq cleared /\ sealedIn' = sealedIn
  BY <1>1 DEF Leaves
<1>6. cleared \cap SealedUnder(tabs[p][i].row) \subseteq cleared'
  <2> SUFFICES ASSUME NEW b \in cleared \cap SealedUnder(tabs[p][i].row), b \notin cleared'
               PROVE  FALSE
    OBVIOUS
  <2>1. PICK s \in 1..MaxSessions : held[s] = q /\ b \in SealedUnder(sessions[s])
    BY <1>1 DEF Leaves
  <2>2. tabs[p][i].row = sessions[s] /\ Alive(s)
    BY <2>1 DEF SealedUnder, Alive
  <2>3. held[s] = p
    BY <1>4, <2>2, TabOfPane
  <2>4. QED BY <1>3, <2>1, <2>3
<1>7. Closing(p, i)' \/ ~Closing(p, i)
  BY <1>4 DEF Closing
<1>8. Carries(p, i, i)
  BY <1>4, <1>5, <1>6, <1>7 DEF Carries
<1>9. QED BY <1>8 DEF TabFrom

\* Tabs after a user's step.
LEMMA UserTabs ==
  ASSUME Types, Own, QueuesOK, FreshRows, NEW q \in Procs, UserStep(q),
         NEW p \in Procs, NEW i \in DOMAIN tabs'[p], tabs'[p][i].row # 0
  PROVE  TabFrom(p, i)
<1>1. ASSUME LaunchFresh(q) \/ NewTab(q) \/ \E k \in 1..Len(tabs[q]) : RestartPane(q, k)
      PROVE  TabFrom(p, i)
  <2>1. UNCHANGED <<tabs, cleared, sealedIn>>
    BY <1>1 DEF LaunchFresh, NewTab, RestartPane, ghostVars
  <2>2. ui[q].op # "close"
    BY <1>1 DEF LaunchFresh, NewTab, RestartPane, UiIdle, NoOp
  <2>3. \A y \in Procs : y # q => ui'[y] = ui[y]
    BY <1>1 DEF LaunchFresh, NewTab, RestartPane, BeginRows, Types, ProcTypes
  <2>4. \A y \in Procs : ui'[y] = ui[y] \/ ui[y].op # "close"
    BY <2>2, <2>3
  <2>5. QED BY <2>1, <2>4, TabsStay
<1>2. ASSUME SaveLayout(q) \/ BeginQuit(q) PROVE TabFrom(p, i)
  <2>1. UNCHANGED <<tabs, cleared, sealedIn>>
    BY <1>2 DEF SaveLayout, BeginQuit, ghostVars
  <2>2. \A y \in Procs : ui'[y] = ui[y] \/ ui[y].op # "close"
    BY <1>2 DEF SaveLayout, BeginQuit, UiIdle, Types, ProcTypes
  <2>3. QED BY <2>1, <2>2, TabsStay
<1>3. QED BY <1>1, <1>2, LaunchTabs, SealTabs, ClearTabs, CloseTabs DEF UserStep

\* Every tab carries its blocks, is blank, restored or has one block more.
LEMMA TabsFrom ==
  ASSUME Types, Own, QueuesOK, FreshRows, [Next]_vars,
         NEW p \in Procs, NEW i \in DOMAIN tabs'[p], tabs'[p][i].row # 0
  PROVE  TabFrom(p, i)
<1>1. CASE UNCHANGED vars
  BY <1>1, TabsStay DEF vars, ghostVars
<1>2. ASSUME NEW q \in Procs, UiEnds(q) \/ Crash(q) PROVE TabFrom(p, i)
  BY <1>2, LockTabs, ClosedTabs, LeftTabs DEF UiEnds
<1>3. ASSUME NEW q \in Procs, GcStep(q) PROVE TabFrom(p, i)
  <2>1. UNCHANGED <<tabs, cleared, sealedIn, ui>>
    BY <1>3, CollectorAlive
  <2>2. QED BY <2>1, TabsStay
<1>4. ASSUME NEW s, WriterStep(s) PROVE TabFrom(p, i)
  <2>1. UNCHANGED <<tabs, cleared, sealedIn, ui>>
    BY <1>4, WriterQuiet, WriterBlocksStay DEF Quiet
  <2>2. QED BY <2>1, TabsStay
<1>5. QED BY <1>1, <1>2, <1>3, <1>4, UserTabs DEF Next

-----------------------------------------------------------------------------
\* What the screens show

\* What is stored for a pane, or queued to its writer, was sealed in it.
LEMMA PaneBlocksHold == PromiseInv => PaneBlocks
<1> SUFFICES ASSUME PromiseInv PROVE PaneBlocks
  OBVIOUS
<1> USE DEF PromiseInv, DiskInv, GcInv
<1>1. ASSUME NEW r, NEW b \in Stored(r) PROVE b \in SealedUnder(r)
  <2>1. b \in 1..Len(sealedIn) /\ sealedIn[b] = r
    BY StoredMember
  <2>2. PICK c \in StoredRows : c.pane = r
    BY StoredMember
  <2>3. c \in rows
    BY DEF StoredRows
  <2>4. r # 0
    BY <2>2, <2>3 DEF Types, DbTypes
  <2>5. QED BY <2>1, <2>4 DEF SealedUnder
<1>2. ASSUME NEW p \in Procs, NEW i \in DOMAIN tabs[p], tabs[p][i].session # 0, NEW s,
             s = tabs[p][i].session, NEW k \in DOMAIN writer[s].q, writer[s].q[k] # 0
      PROVE  writer[s].q[k] \in SealedUnder(tabs[p][i].row)
  <2>1. s \in 1..MaxSessions /\ writer[s].row = tabs[p][i].row /\ tabs[p][i].row # 0
    BY <1>2, TabWriter
  <2>2. writer[s].q[k] \in 1..Len(sealedIn) /\ sealedIn[writer[s].q[k]] = writer[s].row
    BY <1>2, <2>1 DEF QueuesOK, QueueOK
  <2>3. QED BY <2>1, <2>2 DEF SealedUnder
<1>3. QED BY <1>1, <1>2 DEF PaneBlocks

\* The same after a step.
LEMMA PaneBlocksNext == PromiseInv' => PaneBlocks'
BY PaneBlocksHold, PTL

\* What is sealed in a pane stays so.
LEMMA SealedUnderGrows ==
  ASSUME Types, Shape, NEW r
  PROVE  SealedUnder(r) \subseteq SealedUnder(r)'
BY BlocksGrowWhen DEF BlocksGrow, SealedUnder

\* A tab shows block numbers.
LEMMA MemType ==
  ASSUME Types, NEW p \in Procs, NEW i \in DOMAIN tabs[p]
  PROVE  tabs[p][i].mem \in Seq(Nat) /\ tabs[p][i].session \in Nat
<1>1. tabs[p] \in Seq(TabType)
  BY DEF Types, ProcTypes
<1>2. tabs[p][i] \in TabType
  BY <1>1
<1>3. QED BY <1>2 DEF TabType

\* A tab shows blocks of its pane, in the order of the seals.
LEMMA MemOKNext ==
  ASSUME ScreenInv, Shape, NEW p \in Procs, NEW i \in DOMAIN tabs'[p], tabs'[p][i].row # 0,
         TabFrom(p, i), NEW m, m = tabs'[p][i].mem, NEW r, r = tabs'[p][i].row
  PROVE  /\ \A k \in DOMAIN m : m[k] \in SealedUnder(r)'
         /\ \A k, l \in DOMAIN m : k < l => m[k] < m[l]
<1> USE DEF ScreenInv, PromiseInv, DiskInv, GcInv
<1>1. ASSUME NEW j, Carries(p, i, j)
      PROVE  /\ \A k \in DOMAIN m : m[k] \in SealedUnder(r)'
             /\ \A k, l \in DOMAIN m : k < l => m[k] < m[l]
  <2>1. j \in DOMAIN tabs[p] /\ tabs[p][j].row = r /\ r # 0 /\ m = tabs[p][j].mem
    BY <1>1 DEF Carries
  <2>2. /\ \A k \in DOMAIN m : m[k] \in SealedUnder(r)
        /\ \A k, l \in DOMAIN m : k < l => m[k] < m[l]
    BY <2>1 DEF MemOK
  <2>3. QED BY <2>2, SealedUnderGrows
<1>2. CASE Blank(p, i)
  BY <1>2 DEF Blank
<1>3. CASE Restored(p, i)
  <2>1. m = RestoredBlocks(r)
    BY <1>3 DEF Restored
  <2>2. Rising(m) /\ Elems(m) = Stored(r)
    BY <2>1, StoreShows
  <2>3. DOMAIN m = 1..Len(m)
    BY <2>2 DEF Rising
  <2>4. \A k, l \in DOMAIN m : k < l => m[k] < m[l]
    BY <2>2, <2>3 DEF Rising
  <2>5. \A k \in DOMAIN m : m[k] \in Stored(r)
    BY <2>2, <2>3 DEF Elems
  <2>6. QED BY <2>4, <2>5, PaneBlocksHold, SealedUnderGrows DEF PaneBlocks
<1>4. CASE Appended(p, i)
  <2>1. PICK n : n = Len(sealedIn) + 1
    OBVIOUS
  <2>2. PICK o : o = tabs[p][i].mem
    OBVIOUS
  <2>3. /\ i \in DOMAIN tabs[p] /\ tabs[p][i].row = r /\ m = Append(o, n) /\ Seals(p, i)
    BY <1>4, <2>1, <2>2 DEF Appended
  <2>4. o \in Seq(Nat)
    BY <2>2, <2>3, MemType
  <2>5. /\ \A k \in DOMAIN o : o[k] \in SealedUnder(r)
        /\ \A k, l \in DOMAIN o : k < l => o[k] < o[l]
    BY <2>2, <2>3 DEF MemOK
  <2>6. Len(sealedIn) \in Nat /\ n \in Nat
    BY <2>1 DEF Types, FileTypes
  <2>7. \A k \in DOMAIN o : o[k] < n /\ o[k] \in Nat
    BY <2>1, <2>4, <2>5, <2>6 DEF SealedUnder
  <2>8. Rising(o)
    BY <2>4, <2>5 DEF Rising
  <2>9. Rising(Append(o, n)) /\ Elems(Append(o, n)) = Elems(o) \cup {n}
    BY <2>4, <2>6, <2>7, <2>8, RisingAppend
  <2>10. DOMAIN m = 1..Len(m) /\ \A k, l \in DOMAIN m : k < l => m[k] < m[l]
    BY <2>3, <2>9 DEF Rising
  <2>11. n \in SealedUnder(r)'
    <3>1. sealedIn'[n] = r /\ Len(sealedIn') = n /\ r # 0
      BY <2>1, <2>3 DEF Seals, Sealed
    <3>2. QED BY <2>1, <2>6, <3>1 DEF SealedUnder
  <2>12. \A k \in DOMAIN m : m[k] \in Elems(o) \cup {n}
    BY <2>3, <2>9, <2>10 DEF Elems
  <2>13. \A e \in Elems(o) : e \in SealedUnder(r)
    BY <2>4, <2>5 DEF Elems
  <2>14. QED BY <2>10, <2>11, <2>12, <2>13, SealedUnderGrows
<1>5. QED BY <1>1, <1>2, <1>3, <1>4 DEF TabFrom

\* Rows and files left alone store the same.
LEMMA SameStored ==
  ASSUME UNCHANGED <<rows, files>>, NEW r
  PROVE  Stored(r)' = Stored(r)
BY DEF Stored, StoredRows, Path

\* What is shown is not cleared, and stored once it is durable.
LEMMA ShownNext ==
  ASSUME ScreenInv, Shape, NEW p \in Procs, NEW i \in DOMAIN tabs'[p], tabs'[p][i].row # 0,
         ~Closing(p, i)', TabFrom(p, i), NEW r, r = tabs'[p][i].row,
         NEW k \in DOMAIN tabs'[p][i].mem, NEW b, b = tabs'[p][i].mem[k]
  PROVE  b \notin cleared' /\ (b \in durable' \ collected' => b \in Stored(r)')
<1> USE DEF ScreenInv, PromiseInv
<1>1. ASSUME NEW j, Carries(p, i, j)
      PROVE  b \notin cleared' /\ (b \in durable' \ collected' => b \in Stored(r)')
  <2>1. /\ j \in DOMAIN tabs[p] /\ tabs[p][j].row = r /\ r # 0
        /\ k \in DOMAIN tabs[p][j].mem /\ tabs[p][j].mem[k] = b
        /\ ~Closing(p, j) /\ cleared' \cap SealedUnder(r) \subseteq cleared
    BY <1>1 DEF Carries
  <2>2. b \notin cleared /\ (b \in durable \ collected => b \in Stored(r))
    BY <2>1 DEF ShownIsStored
  <2>3. b \in SealedUnder(r)
    BY <2>1 DEF MemOK
  <2>4. b \notin cleared'
    BY <2>1, <2>2, <2>3
  <2>5. ASSUME b \in durable', b \notin collected' PROVE b \in Stored(r)'
    <3>1. CASE b \in durable
      <4>1. b \notin collected
        BY <2>5, GhostsMoveWhen DEF GhostsMove, TakesFile
      <4>2. QED BY <2>2, <2>5, <3>1, <4>1, StoredStays
    <3>2. CASE b \notin durable
      <4>1. b \in Stored(sealedIn[b])' /\ sealedIn' = sealedIn
        BY <2>5, <3>2, NewlyDurable
      <4>2. sealedIn'[b] = r
        BY <2>3, <4>1 DEF SealedUnder
      <4>3. QED BY <4>1, <4>2
    <3>3. QED BY <3>1, <3>2
  <2>6. QED BY <2>4, <2>5
<1>2. CASE Blank(p, i)
  BY <1>2 DEF Blank
<1>3. CASE Restored(p, i)
  <2>1. /\ tabs'[p][i].mem = RestoredBlocks(r) /\ UNCHANGED <<rows, files, cleared>>
        /\ \A s \in 1..MaxSessions : Alive(s) => sessions[s] # r
    BY <1>3 DEF Restored, SameGhosts
  <2>2. b \in Stored(r)
    BY <2>1, StoreShows DEF Rising, Elems
  <2>3. b \notin cleared
    <3>1. PICK c \in StoredRows : c.pane = r /\ files[Path(c)] = b
      BY <2>2, StoredMember
    <3>2. ASSUME NEW s \in 1..MaxSessions, writer[s].row = r, Clears(s) PROVE FALSE
      <4>1. Alive(s) /\ writer[s].row = sessions[s]
        BY <3>2, QueueAlive DEF Clears, DiskInv, GcInv
      <4>2. QED BY <2>1, <3>2, <4>1
    <3>3. QED BY <3>1, <3>2 DEF ClearsAhead
  <2>4. QED BY <2>1, <2>2, <2>3, SameStored
<1>4. CASE Appended(p, i)
  <2>1. /\ i \in DOMAIN tabs[p] /\ tabs[p][i].row = r /\ ~Closing(p, i)
        /\ tabs'[p][i].mem = Append(tabs[p][i].mem, Len(sealedIn) + 1)
        /\ UNCHANGED <<rows, files, cleared, durable, collected>>
    BY <1>4 DEF Appended, Seals
  <2>2. PICK o \in Seq(Nat) : o = tabs[p][i].mem
    BY <2>1, MemType DEF DiskInv, GcInv
  <2>3. Len(sealedIn) \in Nat
    BY DEF DiskInv, GcInv, Types, FileTypes
  <2>4. PICK n \in Nat : n = Len(sealedIn) + 1 /\ n \notin 1..Len(sealedIn)
    BY <2>3
  <2>5. (k \in DOMAIN o /\ b = o[k]) \/ b = n
    <3>1. k \in DOMAIN Append(o, n) /\ b = Append(o, n)[k]
      BY <2>1, <2>2, <2>4
    <3>2. QED BY <3>1
  <2>6. CASE b = n
    BY <2>1, <2>4, <2>6 DEF KnownBlocks
  <2>7. CASE k \in DOMAIN o /\ b = o[k]
    <3>1. b \notin cleared /\ (b \in durable \ collected => b \in Stored(r))
      BY <2>1, <2>2, <2>7 DEF ShownIsStored
    <3>2. QED BY <2>1, <3>1, SameStored
  <2>8. QED BY <2>5, <2>6, <2>7
<1>5. QED BY <1>1, <1>2, <1>3, <1>4 DEF TabFrom

\* What is stored is shown, unless it is cleared.
LEMMA StoredShownNext ==
  ASSUME ScreenInv, Shape, NEW p \in Procs, NEW i \in DOMAIN tabs'[p], tabs'[p][i].row # 0,
         TabFrom(p, i), NEW r, r = tabs'[p][i].row, PaneBlocks', NEW b \in Stored(r)'
  PROVE  InMem(p, i, b)' \/ b \in cleared'
<1> USE DEF ScreenInv, PromiseInv
<1>1. b \in SealedUnder(r)'
  BY DEF PaneBlocks
<1>2. ASSUME NEW j, Carries(p, i, j) PROVE InMem(p, i, b)' \/ b \in cleared'
  <2>1. /\ j \in DOMAIN tabs[p] /\ tabs[p][j].row = r /\ r # 0
        /\ tabs'[p][i].mem = tabs[p][j].mem
        /\ cleared \cap SealedUnder(r) \subseteq cleared'
    BY <1>2 DEF Carries
  <2>2. PICK d \in StoredRows' : d.pane = r /\ b = files'[Path(d)]
    BY DEF Stored, Path
  <2>3. ASSUME NEW c \in StoredRows, GoesAs(c, d)
        PROVE  (InMem(p, j, b) \/ b \in cleared) /\ b \in SealedUnder(r)
    <3>1. c.pane = r /\ b = files[Path(c)]
      BY <2>2, <2>3 DEF GoesAs, SameButLabel
    <3>2. b \in Stored(r)
      BY <3>1, StoredMember
    <3>3. QED BY <2>1, <3>2, PaneBlocksHold DEF PaneBlocks, StoredIsShown
  <2>4. ASSUME NEW s, Files(s, d)
        PROVE  (InMem(p, j, b) \/ b \in cleared) /\ b \in SealedUnder(r)
    <3>1. /\ s \in 1..MaxSessions /\ Alive(s) /\ r = sessions[s] /\ b = writer[s].q[1]
          /\ b # 0 /\ writer[s].q # <<>>
      BY <2>2, <2>4 DEF Files
    <3>2. tabs[p][j].session = s /\ s # 0
      BY <2>1, <3>1, TabOfPane DEF DiskInv, GcInv
    <3>3. 1 \in DOMAIN writer[s].q
      BY <3>1, HeadFacts DEF DiskInv, GcInv
    <3>4. InMem(p, j, b) \/ b \in cleared
      BY <2>1, <3>1, <3>2, <3>3 DEF StoredIsShown
    <3>5. b \in SealedUnder(r)
      BY <2>1, <3>1, <3>2, <3>3, PaneBlocksHold DEF PaneBlocks
    <3>6. QED BY <3>4, <3>5
  <2>5. (InMem(p, j, b) \/ b \in cleared) /\ b \in SealedUnder(r)
    BY <2>3, <2>4, StoredFrom
  <2>6. QED BY <2>1, <2>5 DEF InMem
<1>3. CASE Blank(p, i)
  <2>1. b \in 1..Len(sealedIn') /\ sealedIn'[b] = r
    BY <1>1 DEF SealedUnder
  <2>2. PICK d \in StoredRows' : d.pane = r
    BY DEF Stored
  <2>3. d \in rows'
    BY DEF StoredRows
  <2>4. QED BY <1>3, <2>1, <2>2, <2>3 DEF Blank
<1>4. CASE Restored(p, i)
  <2>1. tabs'[p][i].mem = RestoredBlocks(r) /\ UNCHANGED <<rows, files>>
    BY <1>4 DEF Restored
  <2>2. b \in Stored(r)
    BY <2>1, SameStored
  <2>3. Rising(tabs'[p][i].mem) /\ b \in Elems(tabs'[p][i].mem)
    BY <2>1, <2>2, StoreShows
  <2>4. InMem(p, i, b)'
    BY <2>3 DEF Rising, Elems, InMem
  <2>5. QED BY <2>4
<1>5. CASE Appended(p, i)
  <2>1. /\ i \in DOMAIN tabs[p] /\ tabs[p][i].row = r
        /\ tabs'[p][i].mem = Append(tabs[p][i].mem, Len(sealedIn) + 1)
        /\ UNCHANGED <<rows, files, cleared>>
    BY <1>5 DEF Appended, Seals
  <2>2. b \in Stored(r)
    BY <2>1, SameStored
  <2>3. InMem(p, i, b) \/ b \in cleared
    BY <2>1, <2>2 DEF StoredIsShown
  <2>4. PICK o \in Seq(Nat) : o = tabs[p][i].mem
    BY <2>1, MemType DEF DiskInv, GcInv
  <2>5. ASSUME NEW k \in DOMAIN o, o[k] = b PROVE InMem(p, i, b)'
    <3>1. k \in DOMAIN Append(o, Len(sealedIn) + 1) /\ Append(o, Len(sealedIn) + 1)[k] = b
      BY <2>5
    <3>2. QED BY <2>1, <2>4, <3>1 DEF InMem
  <2>6. QED BY <2>1, <2>3, <2>4, <2>5 DEF InMem
<1>6. QED BY <1>2, <1>3, <1>4, <1>5 DEF TabFrom

\* What is queued is shown, unless it is cleared.
LEMMA QueuedShownNext ==
  ASSUME ScreenInv, Shape, NEW p \in Procs, NEW i \in DOMAIN tabs'[p], tabs'[p][i].row # 0,
         TabFrom(p, i), NEW row, row = tabs'[p][i].row, PaneBlocks', NEW s,
         s = tabs'[p][i].session, s # 0,
         NEW k \in DOMAIN writer'[s].q, NEW b, b = writer'[s].q[k], b # 0
  PROVE  InMem(p, i, b)' \/ b \in cleared'
<1> USE DEF ScreenInv, PromiseInv
<1>1. b \in SealedUnder(row)'
  <2>1. \A k1 \in DOMAIN writer'[s].q : writer'[s].q[k1] # 0 =>
          writer'[s].q[k1] \in SealedUnder(row)'
    BY DEF PaneBlocks
  <2>2. QED BY <2>1
<1>2. ASSUME NEW j, Carries(p, i, j) PROVE InMem(p, i, b)' \/ b \in cleared'
  <2>1. PICK r : r = tabs[p][j].row
    OBVIOUS
  <2>2. /\ j \in DOMAIN tabs[p] /\ r # 0 /\ tabs[p][j].session = s
        /\ tabs'[p][i].mem = tabs[p][j].mem
        /\ cleared \cap SealedUnder(r) \subseteq cleared'
        /\ sealedIn' = sealedIn \/ sealedIn'[Len(sealedIn) + 1] # r
    <3>1. writer'[s].q # <<>>
      OBVIOUS
    <3>2. QED BY <1>2, <2>1, <3>1 DEF Carries
  <2>3. s \in 1..MaxSessions /\ sessions[s] = r
    BY <2>1, <2>2, TabWriter DEF DiskInv, GcInv
  <2>4. ASSUME NEW l \in DOMAIN writer[s].q, Enters(s, k, l)
        PROVE  (InMem(p, j, b) \/ b \in cleared) /\ b \in SealedUnder(r)
    <3>1. writer[s].q[l] = b
      BY <2>4 DEF Enters
    <3>2. InMem(p, j, b) \/ b \in cleared
      BY <2>1, <2>2, <2>4, <3>1 DEF StoredIsShown
    <3>3. b \in SealedUnder(r)
      BY <2>1, <2>2, <2>4, <3>1, PaneBlocksHold DEF PaneBlocks
    <3>4. QED BY <3>2, <3>3
  <2>5. ASSUME Newly(s, k) PROVE FALSE
    <3>0. writer'[s].q[k] # 0
      OBVIOUS
    <3>1. SealsInto(s)
      BY <2>5, <3>0, Zenon DEF Newly
    <3>2. PICK y \in Procs : \E n : Seals(y, n) /\ tabs[y][n].session = s
      BY <3>1 DEF SealsInto
    <3>3. PICK n : Seals(y, n) /\ tabs[y][n].session = s
      BY <3>2
    <3>4. /\ n \in DOMAIN tabs[y] /\ Len(sealedIn') = Len(sealedIn) + 1 /\ Len(sealedIn) \in Nat
          /\ sealedIn'[Len(sealedIn) + 1] = tabs[y][n].row
      BY <3>3 DEF Seals, Sealed
    <3>5. sessions[s] = tabs[y][n].row
      BY <3>3, <3>4, TabWriter DEF DiskInv, GcInv
    <3>6. sealedIn' # sealedIn
      BY <3>4
    <3>7. QED BY <2>2, <2>3, <3>4, <3>5, <3>6
  <2>6. (InMem(p, j, b) \/ b \in cleared) /\ b \in SealedUnder(r)
    BY <2>3, <2>4, <2>5, EntryFrom DEF DiskInv, GcInv
  <2>7. QED BY <2>2, <2>6 DEF InMem
<1>3. CASE Blank(p, i)
  <2>1. b \in 1..Len(sealedIn') /\ sealedIn'[b] = row
    BY <1>1 DEF SealedUnder
  <2>2. writer'[s].q # <<>>
    OBVIOUS
  <2>3. QED BY <1>3, <2>1, <2>2 DEF Blank
<1>4. CASE Restored(p, i)
  <2>1. tabs'[p][i].session = 0
    BY <1>4 DEF Restored
  <2>2. QED BY <2>1
<1>5. CASE Appended(p, i)
  <2>1. /\ i \in DOMAIN tabs[p] /\ tabs[p][i].row # 0 /\ tabs[p][i].session = s
        /\ tabs'[p][i].mem = Append(tabs[p][i].mem, Len(sealedIn) + 1)
        /\ cleared' = cleared /\ Queued(s, Len(sealedIn) + 1)
    BY <1>5 DEF Appended, Seals, Sealed
  <2>2. PICK o \in Seq(Nat) : o = tabs[p][i].mem
    BY <2>1, MemType DEF DiskInv, GcInv
  <2>3. PICK n : n = Len(sealedIn) + 1
    OBVIOUS
  <2>4. \A e : e = n \/ (\E l \in DOMAIN o : o[l] = e) => InMem(p, i, e)'
    <3>1. \A l \in DOMAIN o : l \in DOMAIN Append(o, n) /\ Append(o, n)[l] = o[l]
      OBVIOUS
    <3>2. Len(o) + 1 \in DOMAIN Append(o, n) /\ Append(o, n)[Len(o) + 1] = n
      OBVIOUS
    <3>3. QED BY <2>1, <2>2, <2>3, <3>1, <3>2 DEF InMem
  <2>5. b = n \/ \E l \in DOMAIN writer[s].q : writer[s].q[l] = b
    <3>1. k \in DOMAIN writer[s].q \/ k = Len(writer[s].q) + 1
      BY <2>1, NewlyQueued
    <3>2. k \in DOMAIN writer[s].q => writer'[s].q[k] = writer[s].q[k]
      BY <2>1, Zenon DEF Queued
    <3>3. writer'[s].q[Len(writer[s].q) + 1] = n
      BY <2>1, <2>3, NewlyQueued
    <3>4. CASE k = Len(writer[s].q) + 1
      <4>1. writer'[s].q[k] = n
        BY <3>3, <3>4
      <4>2. QED BY <4>1
    <3>5. CASE k \in DOMAIN writer[s].q
      <4>1. writer[s].q[k] = b
        BY <3>2, <3>5
      <4>2. QED BY <3>5, <4>1
    <3>6. QED BY <3>1, <3>4, <3>5
  <2>6. ASSUME NEW l \in DOMAIN writer[s].q, writer[s].q[l] = b
        PROVE  InMem(p, i, b) \/ b \in cleared
    BY <2>1, <2>6 DEF StoredIsShown
  <2>7. InMem(p, i, b) => \E l \in DOMAIN o : o[l] = b
    BY <2>2 DEF InMem
  <2>8. InMem(p, i, b) => InMem(p, i, b)'
    BY <2>4, <2>7
  <2>9. b = n => InMem(p, i, b)'
    BY <2>4
  <2>10. ASSUME b # n PROVE InMem(p, i, b) \/ b \in cleared
    <3>1. PICK l \in DOMAIN writer[s].q : writer[s].q[l] = b
      BY <2>5, <2>10
    <3>2. QED BY <2>6, <3>1
  <2>11. QED BY <2>1, <2>8, <2>9, <2>10
<1>6. QED BY <1>2, <1>3, <1>4, <1>5 DEF TabFrom

\* The invariant of the screens holds at first.
LEMMA ScreenInit == ASSUME Init PROVE ScreenInv
<1>1. PromiseInv
  BY PromiseInit
<1>2. \A p \in Procs : DOMAIN tabs[p] = {}
  BY DEF Init
<1>3. QED BY <1>1, <1>2 DEF ScreenInv, MemOK, ShownIsStored, StoredIsShown

\* Every step keeps the invariant of the screens.
LEMMA ScreenNext ==
  ASSUME CalmUser, ScreenInv, [Next]_vars
  PROVE  ScreenInv'
<1> USE DEF ScreenInv
<1>1. PromiseInv' /\ Shape
  BY PromiseNext
<1>2. PaneBlocks' /\ Own' /\ Types'
  BY <1>1, PaneBlocksNext DEF PromiseInv, DiskInv, GcInv
<1>3. ASSUME NEW p \in Procs, NEW i \in DOMAIN tabs'[p], tabs'[p][i].row # 0
      PROVE  TabFrom(p, i)
  BY <1>3, TabsFrom DEF PromiseInv, DiskInv, GcInv
<1>4. MemOK'
  BY <1>1, <1>3, MemOKNext DEF MemOK
<1>5. ShownIsStored'
  BY <1>1, <1>3, ShownNext DEF ShownIsStored
<1>6. StoredIsShown'
  BY <1>1, <1>2, <1>3, StoredShownNext, QueuedShownNext DEF StoredIsShown
<1>7. QED BY <1>1, <1>4, <1>5, <1>6

\* Between two frames, with its queue empty, the writer of a live pane has on
\* disk what the pane shows.
LEMMA ScreenMeans == ScreenInv => ScreenIsStored
<1> SUFFICES ASSUME ScreenInv, NEW p \in Procs, NEW i \in DOMAIN tabs[p],
                    tabs[p][i].session # 0, Drained(tabs[p][i].session), ui[p].op = "idle"
             PROVE  /\ RestoredBlocks(tabs[p][i].row) =
                         Keep(tabs[p][i].mem, {k \in DOMAIN tabs[p][i].mem :
                                                 tabs[p][i].mem[k] \in durable \ collected})
                    /\ \A k \in DOMAIN Restore(tabs[p][i].row) :
                         Restore(tabs[p][i].row)[k].label
                           \in {0, Restore(tabs[p][i].row)[k].block}
  BY DEF ScreenIsStored
<1> USE DEF ScreenInv, PromiseInv
<1>1. PICK r, s : r = tabs[p][i].row /\ s = tabs[p][i].session
  OBVIOUS
<1>2. PICK m \in Seq(Nat) : m = tabs[p][i].mem
  BY MemType DEF DiskInv, GcInv
<1>3. r # 0 /\ s \in 1..MaxSessions /\ sessions[s] = r /\ writer[s].q = <<>>
  BY <1>1, TabWriter DEF DiskInv, GcInv, Drained
<1>4. PICK places : places = {k \in DOMAIN m : m[k] \in durable \ collected}
  OBVIOUS
<1>5. Rising(m)
  BY <1>1, <1>2, <1>3 DEF MemOK, Rising
<1>6. Rising(Keep(m, places)) /\ Elems(Keep(m, places)) = {m[k] : k \in 1..Len(m) \cap places}
  BY <1>5, RisingKeep
<1>7. Rising(RestoredBlocks(r)) /\ Elems(RestoredBlocks(r)) = Stored(r)
  BY StoreShows
<1>8. ASSUME NEW k \in 1..Len(m) \cap places PROVE m[k] \in Stored(r)
  <2>1. k \in DOMAIN tabs[p][i].mem /\ tabs[p][i].mem[k] \in durable \ collected
    BY <1>2, <1>4
  <2>2. ~Closing(p, i)
    BY DEF Closing
  <2>3. QED BY <1>1, <1>2, <1>3, <2>1, <2>2 DEF ShownIsStored
<1>9. ASSUME NEW b \in Stored(r) PROVE \E k \in 1..Len(m) \cap places : m[k] = b
  <2>1. PICK c \in StoredRows : c.pane = r /\ files[Path(c)] = b
    BY StoredMember
  <2>2. b \in durable \ collected
    BY <2>1 DEF StoredIsDurable
  <2>3. b \notin cleared
    <3>1. ASSUME NEW t \in 1..MaxSessions, writer[t].row = r, Clears(t) PROVE FALSE
      <4>1. writer[t].q # <<>> /\ Alive(t) /\ writer[t].row = sessions[t]
        BY <3>1, QueueAlive DEF Clears, DiskInv, GcInv
      <4>2. tabs[p][i].row = sessions[t]
        BY <1>1, <3>1, <4>1
      <4>3. Types /\ Own
        BY DEF DiskInv, GcInv
      <4>4. tabs[p][i].session = t
        BY <4>1, <4>2, <4>3, TabOfPane
      <4>5. QED BY <1>1, <1>3, <4>1, <4>4
    <3>2. QED BY <2>1, <3>1 DEF ClearsAhead
  <2>4. InMem(p, i, b)
    BY <1>1, <1>3, <2>3 DEF StoredIsShown
  <2>5. PICK k \in DOMAIN m : m[k] = b
    BY <1>2, <2>4 DEF InMem
  <2>6. QED BY <1>4, <2>2, <2>5
<1>10. Elems(Keep(m, places)) = Stored(r)
  BY <1>6, <1>8, <1>9
<1>11. RestoredBlocks(r) = Keep(m, places)
  BY <1>6, <1>7, <1>10, RisingEqual
<1>12. \A k \in DOMAIN Restore(r) : Restore(r)[k].label \in {0, Restore(r)[k].block}
  <2>1. DOMAIN Restore(r) = 1..Len(Restore(r))
    BY RestoreType DEF RestoreOf, DiskInv, GcInv, Types
  <2>2. QED BY <2>1, StoreShows
<1>13. QED BY <1>1, <1>2, <1>4, <1>11, <1>12

\* Between two frames, with its queue empty, the writer of a live pane has on
\* disk what the pane shows: the same blocks in the same order, less those that
\* could not be written, under their own labels or (a crash) under none.
THEOREM ScreensAreStored ==
  ASSUME CalmUser
  PROVE  Spec => []ScreenIsStored
<1>1. Init => ScreenInv
  BY ScreenInit
<1>2. ScreenInv /\ [Next]_vars => ScreenInv'
  BY ScreenNext
<1>3. QED BY <1>1, <1>2, ScreenMeans, PTL DEF Spec
=============================================================================
