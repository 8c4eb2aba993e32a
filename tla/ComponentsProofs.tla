-------------------------- MODULE ComponentsProofs ---------------------------
(***************************************************************************)
(* What is proved of what a process keeps beside its panes: what comes out *)
(* of a PTY (StreamFilter), the history (History), the chips (Probes) and  *)
(* the selection (Selection over Reflow).                                  *)
(*                                                                         *)
(* Where the reader cuts the PTY's bytes does not matter to the echo       *)
(* suppressor, for all lines, outputs and bounds.  Of the messages sent,   *)
(* what is told, begun and on the wire is always all (MarkersWhole), and   *)
(* an echo on the wire is first and expected (EchoAhead).                  *)
(*                                                                         *)
(* Promises of the history, for any number of processes, panes,            *)
(* texts and faults, and any cap on the table.  A replayed row carries the *)
(* line of the file it is of, and lines do not change when a file grows    *)
(* (RowsOfLines).  An exit code is stamped by the id a pane has held since *)
(* its command began, though the row may have been trimmed meanwhile: the  *)
(* trim keeps the newest rows, and whatever is as new as the command has   *)
(* an id at least as great, so the id is never given out again (Holding).  *)
(* A run belongs to a pane by the app run that minted the pane's id, or by *)
(* a durable row that one pane has at a time (RowsAreOwned).  The overlay  *)
(* ranks and lists a finite set by counting, for each member, those before *)
(* it: in an order no two have as many, so each is there once              *)
(* (OrderedHasAll); the table changes while the overlay is open, what it   *)
(* listed does not (Shows).                                                *)
(*                                                                         *)
(* The chips are of the directory asked for last, and the pull request is  *)
(* of the branch shown: a worker asks about the directory of the pane or   *)
(* has a newer request ahead (Asking), and a pull request of another       *)
(* branch is being asked for again, or will be once git says that the      *)
(* branch is another one (PullRequestComes).                               *)
(*                                                                         *)
(* A selection made by words or lines runs between the far edges of two    *)
(* units: the one the mouse keeps as its anchor and the one last under the *)
(* pointer (Whole), whichever rows the width makes of the lines (Screen).  *)
(***************************************************************************)
EXTENDS StreamFilter, History, Probes, Selection, SublistProofs, FiniteSetTheorems, SequenceTheorems, TLAPS

\* k bytes of b match e, and the next byte of both, if there is one, differs.
Agrees(e, b, k) ==
    /\ k \in Nat /\ k <= Len(e) /\ k <= Len(b)
    /\ \A i \in 1 .. k : e[i] = b[i]
    /\ k < Len(e) /\ k < Len(b) => e[k + 1] # b[k + 1]

\* A downward closed set of positive numbers is an interval that its size ends.
LEMMA DownwardClosed ==
    ASSUME NEW n \in Nat, NEW M \in SUBSET (1 .. n),
           \A k \in M : 1 .. k \subseteq M
    PROVE  Cardinality(M) \in Nat /\ M = 1 .. Cardinality(M)
<1> DEFINE m == Cardinality(M)
<1>1. IsFiniteSet(M) /\ m \in Nat
  <2>1. IsFiniteSet(1 .. n)
    BY FS_Interval
  <2>2. IsFiniteSet(M)
    BY <2>1, FS_Subset
  <2> QED
    BY <2>2, FS_CardinalityType
<1>2. ASSUME NEW k \in M PROVE k <= m
  <2>1. k \in Int /\ 1 .. k \subseteq M /\ k >= 1
    OBVIOUS
  <2>2. Cardinality(1 .. k) = k
    BY <2>1, FS_Interval
  <2>3. Cardinality(1 .. k) <= m
    BY <1>1, <2>1, FS_Subset
  <2> QED
    BY <2>2, <2>3
<1>3. M \subseteq 1 .. m
  BY <1>1, <1>2
<1>4. IsFiniteSet(1 .. m) /\ Cardinality(1 .. m) = m
  BY <1>1, FS_Interval
<1>5. M = 1 .. m
  BY <1>3, <1>4, FS_Subset
<1> QED
  BY <1>1, <1>5

\* The number of bytes consumed is the length of the longest agreement.
LEMMA MatchedAgrees ==
    ASSUME NEW S, NEW e \in Seq(S), NEW b \in Seq(S)
    PROVE  Agrees(e, b, Matched(e, b))
<1> DEFINE M == {k \in 1 .. Len(e) : k <= Len(b) /\ \A i \in 1 .. k : e[i] = b[i]}
           m == Matched(e, b)
<1>1. Len(e) \in Nat /\ Len(b) \in Nat
  BY LenProperties
<1>2. \A k \in M : 1 .. k \subseteq M
  BY <1>1
<1>3. m \in Nat /\ M = 1 .. m
  BY <1>1, <1>2, DownwardClosed DEF Matched
<1>4. m <= Len(e) /\ m <= Len(b) /\ \A i \in 1 .. m : e[i] = b[i]
  <2>1. CASE m = 0
    BY <2>1, <1>1
  <2>2. CASE m > 0
    <3>1. m \in M
      BY <1>3, <2>2
    <3> QED
      BY <1>1, <3>1
  <2> QED
    BY <1>3, <2>1, <2>2
<1>5. ASSUME m < Len(e), m < Len(b), e[m + 1] = b[m + 1] PROVE FALSE
  <2>1. m + 1 \in M
    <3>1. \A i \in 1 .. m + 1 : i \in 1 .. m \/ i = m + 1
      BY <1>3
    <3>2. \A i \in 1 .. m + 1 : e[i] = b[i]
      BY <1>4, <1>5, <3>1
    <3> QED
      BY <1>1, <1>3, <1>5, <3>2
  <2> QED
    BY <1>3, <2>1
<1>6. m < Len(e) /\ m < Len(b) => e[m + 1] # b[m + 1]
  BY <1>5
<1> HIDE DEF M, m
<1>7. Agrees(e, b, m)
  BY <1>3, <1>4, <1>6 DEF Agrees
<1> QED
  BY <1>7 DEF m

\* There is one such length.
LEMMA AgreesUnique ==
    ASSUME NEW S, NEW e \in Seq(S), NEW b \in Seq(S),
           NEW j, NEW k, Agrees(e, b, j), Agrees(e, b, k)
    PROVE  j = k
<1>1. Len(e) \in Nat /\ Len(b) \in Nat
  BY LenProperties
<1>2. ASSUME NEW x, NEW y, Agrees(e, b, x), Agrees(e, b, y), x < y PROVE FALSE
  <2>1. x + 1 \in 1 .. y /\ x < Len(e) /\ x < Len(b)
    BY <1>1, <1>2 DEF Agrees
  <2>2. e[x + 1] = b[x + 1]
    BY <1>2, <2>1 DEF Agrees
  <2> QED
    BY <1>2, <2>1, <2>2 DEF Agrees
<1>3. j \in Nat /\ k \in Nat
  BY DEF Agrees
<1>4. ~(j < k) /\ ~(k < j)
  BY <1>2
<1> QED
  BY <1>3, <1>4

\* What is left of an expectation is a sequence, and so are the survivors.
LEMMA LeftIsSeq ==
    ASSUME NEW S, NEW e \in Seq(S), NEW T, NEW b \in Seq(T)
    PROVE  Left(e, b) \in Seq(S)
<1>1. Len(b) + 1 \in Int /\ Len(e) \in Nat /\ Len(b) \in Nat
  BY LenProperties
<1>2. Len(b) + 1 <= Len(e) + 1 => SubSeq(e, Len(b) + 1, Len(e)) \in Seq(S)
  BY <1>1, SubSeqProperties
<1>3. Len(e) < Len(b) + 1 => SubSeq(e, Len(b) + 1, Len(e)) = <<>>
  BY <1>1, SubSeqProperties
<1> QED
  BY <1>1, <1>2, <1>3, EmptySeq DEF Left

\* All of b is consumed, or what is left of e is nothing.
LEMMA LeftCases ==
    ASSUME NEW S, NEW e \in Seq(S), NEW b \in Seq(S)
    PROVE  \/ Matched(e, b) = Len(b) /\ Left(e, b) = SubSeq(e, Len(b) + 1, Len(e))
           \/ Matched(e, b) < Len(b) /\ Left(e, b) = <<>>
<1>1. Matched(e, b) \in Nat /\ Matched(e, b) <= Len(b) /\ Len(b) \in Nat
  BY MatchedAgrees, LenProperties DEF Agrees
<1> QED
  BY <1>1 DEF Left

\* Filtering b and then c is filtering b and c at once: the bytes consumed.
LEMMA MatchedSplits ==
    ASSUME NEW S, NEW e \in Seq(S), NEW b \in Seq(S), NEW c \in Seq(S)
    PROVE  Matched(e, b \o c) =
              IF Matched(e, b) = Len(b) THEN Len(b) + Matched(Left(e, b), c)
                                        ELSE Matched(e, b)
<1> DEFINE m == Matched(e, b)
           r == Left(e, b)
           k == Matched(r, c)
<1>1. /\ Len(e) \in Nat /\ Len(b) \in Nat /\ Len(c) \in Nat
      /\ b \o c \in Seq(S) /\ Len(b \o c) = Len(b) + Len(c)
      /\ \A i \in 1 .. Len(b) + Len(c) :
            (b \o c)[i] = IF i <= Len(b) THEN b[i] ELSE c[i - Len(b)]
  BY LenProperties, ConcatProperties
<1>2. Agrees(e, b, m) /\ Agrees(e, b \o c, Matched(e, b \o c))
  BY <1>1, MatchedAgrees
<1> HIDE DEF m
<1>3. CASE m = Len(b)
  <2>1. r = SubSeq(e, Len(b) + 1, Len(e)) /\ Len(b) <= Len(e)
    BY <1>2, <1>3 DEF Left, m, Agrees
  <2>2. /\ r \in Seq(S) /\ Len(r) = Len(e) - Len(b)
        /\ \A i \in 1 .. Len(r) : r[i] = e[Len(b) + i]
    <3>1. Len(b) + 1 \in Int /\ Len(b) + 1 <= Len(e) + 1
      BY <1>1, <2>1
    <3> QED
      BY <1>1, <2>1, <3>1
  <2>3. Agrees(r, c, k)
    BY <2>2, MatchedAgrees
  <2> HIDE DEF r, k
  <2>4. Len(b) + k \in Nat /\ Len(b) + k <= Len(e) /\ Len(b) + k <= Len(b \o c)
    BY <1>1, <2>1, <2>2, <2>3 DEF Agrees
  <2>5. ASSUME NEW i \in 1 .. Len(b) + k PROVE e[i] = (b \o c)[i]
    <3>0. i \in Nat /\ i >= 1 /\ i <= Len(b) + k /\ k \in Nat /\ k <= Len(r) /\ k <= Len(c)
      BY <1>1, <2>3, <2>4 DEF Agrees
    <3>1. CASE i <= Len(b)
      <4>1. e[i] = b[i]
        BY <1>2, <1>3, <3>0, <3>1 DEF Agrees
      <4> QED
        BY <1>1, <3>0, <3>1, <4>1
    <3>2. CASE i > Len(b)
      <4>1. i - Len(b) \in 1 .. k /\ i - Len(b) \in 1 .. Len(r)
        BY <1>1, <3>0, <3>2, <2>2
      <4>2. r[i - Len(b)] = c[i - Len(b)]
        BY <2>3, <4>1 DEF Agrees
      <4>3. r[i - Len(b)] = e[i]
        BY <1>1, <2>2, <3>0, <4>1
      <4>4. (b \o c)[i] = c[i - Len(b)]
        <5>1. i \in 1 .. Len(b) + Len(c) /\ ~(i <= Len(b))
          BY <1>1, <3>0, <3>2
        <5> QED
          BY <1>1, <5>1
      <4> QED
        BY <4>2, <4>3, <4>4
    <3> QED
      BY <1>1, <3>0, <3>1, <3>2
  <2>6. ASSUME Len(b) + k < Len(e), Len(b) + k < Len(b \o c)
        PROVE  e[Len(b) + k + 1] # (b \o c)[Len(b) + k + 1]
    <3>1. k \in Nat /\ k < Len(r) /\ k < Len(c) /\ k + 1 \in 1 .. Len(r)
      BY <1>1, <2>2, <2>3, <2>6 DEF Agrees
    <3>2. r[k + 1] # c[k + 1]
      BY <2>3, <3>1 DEF Agrees
    <3>3. r[k + 1] = e[Len(b) + k + 1]
      BY <1>1, <2>2, <3>1
    <3>4. (b \o c)[Len(b) + k + 1] = c[k + 1]
      BY <1>1, <3>1
    <3> QED
      BY <3>2, <3>3, <3>4
  <2>7. Agrees(e, b \o c, Len(b) + k)
    BY <2>4, <2>5, <2>6 DEF Agrees
  <2>8. Matched(e, b \o c) = Len(b) + k
    BY <1>1, <1>2, <2>7, AgreesUnique
  <2> QED
    BY <1>3, <2>8 DEF m, k, r
<1>4. CASE m # Len(b)
  <2>1. m \in Nat /\ m < Len(b) /\ m <= Len(e)
    BY <1>1, <1>2, <1>4 DEF Agrees
  <2>2. m <= Len(b \o c) /\ \A i \in 1 .. m : e[i] = (b \o c)[i]
    BY <1>1, <1>2, <2>1 DEF Agrees
  <2>3. m < Len(e) => e[m + 1] # (b \o c)[m + 1]
    BY <1>1, <1>2, <2>1 DEF Agrees
  <2>4. Agrees(e, b \o c, m)
    BY <2>1, <2>2, <2>3 DEF Agrees
  <2>5. Matched(e, b \o c) = m
    BY <1>1, <1>2, <2>4, AgreesUnique
  <2> QED
    BY <1>4, <2>5 DEF m
<1> QED
  BY <1>3, <1>4

\* The bytes after the first k.
LEMMA AfterProperties ==
    ASSUME NEW S, NEW b \in Seq(S), NEW k \in Nat, k <= Len(b)
    PROVE  /\ After(b, k) \in Seq(S)
           /\ Len(After(b, k)) = Len(b) - k
           /\ \A i \in 1 .. Len(b) - k : After(b, k)[i] = b[k + i]
<1>1. Len(b) \in Nat /\ k + 1 \in Int /\ \A i \in k + 1 .. Len(b) : b[i] \in S
  BY LenProperties, ElementOfSeq
<1>2. /\ SubSeq(b, k + 1, Len(b)) \in Seq(S)
      /\ Len(SubSeq(b, k + 1, Len(b))) = IF k + 1 <= Len(b) THEN Len(b) - (k + 1) + 1 ELSE 0
      /\ \A i \in 1 .. Len(b) - (k + 1) + 1 : SubSeq(b, k + 1, Len(b))[i] = b[k + 1 + i - 1]
  BY <1>1, SubSeqProperties
<1> QED
  BY <1>1, <1>2 DEF After

\* Cutting the first k bytes of a concatenation, when the cut is in its first part.
LEMMA AfterInFirst ==
    ASSUME NEW S, NEW b \in Seq(S), NEW c \in Seq(S), NEW k \in Nat, k <= Len(b)
    PROVE  After(b \o c, k) = After(b, k) \o c
<1> DEFINE l == After(b \o c, k)
           r == After(b, k) \o c
<1>1. /\ Len(b) \in Nat /\ Len(c) \in Nat
      /\ b \o c \in Seq(S) /\ Len(b \o c) = Len(b) + Len(c)
      /\ \A i \in 1 .. Len(b) + Len(c) :
            (b \o c)[i] = IF i <= Len(b) THEN b[i] ELSE c[i - Len(b)]
  BY LenProperties, ConcatProperties
<1>2. k <= Len(b \o c)
  BY <1>1
<1>3. /\ After(b, k) \in Seq(S) /\ Len(After(b, k)) = Len(b) - k
      /\ \A i \in 1 .. Len(b) - k : After(b, k)[i] = b[k + i]
  BY AfterProperties
<1>4. /\ l \in Seq(S) /\ Len(l) = Len(b) + Len(c) - k
      /\ \A i \in 1 .. Len(b) + Len(c) - k : l[i] = (b \o c)[k + i]
  <2>1. /\ l \in Seq(S) /\ Len(l) = Len(b \o c) - k
        /\ \A i \in 1 .. Len(b \o c) - k : l[i] = (b \o c)[k + i]
    BY <1>1, <1>2, AfterProperties
  <2> HIDE DEF l
  <2> QED
    BY <1>1, <2>1
<1>5. /\ r \in Seq(S) /\ Len(r) = Len(b) - k + Len(c)
      /\ \A i \in 1 .. Len(b) - k + Len(c) :
            r[i] = IF i <= Len(b) - k THEN After(b, k)[i] ELSE c[i - (Len(b) - k)]
  <2> DEFINE a == After(b, k)
  <2>1. a \in Seq(S) /\ Len(a) = Len(b) - k
    BY <1>3
  <2> HIDE DEF a
  <2>2. /\ a \o c \in Seq(S) /\ Len(a \o c) = Len(a) + Len(c)
        /\ \A i \in 1 .. Len(a) + Len(c) :
              (a \o c)[i] = IF i <= Len(a) THEN a[i] ELSE c[i - Len(a)]
    BY <2>1, ConcatProperties
  <2>3. /\ a \o c \in Seq(S) /\ Len(a \o c) = Len(b) - k + Len(c)
        /\ \A i \in 1 .. Len(b) - k + Len(c) :
              (a \o c)[i] = IF i <= Len(b) - k THEN a[i] ELSE c[i - (Len(b) - k)]
    BY <2>1, <2>2
  <2> QED
    BY <2>3 DEF a
<1> HIDE DEF l, r
<1>6. ASSUME NEW i \in 1 .. Len(l) PROVE l[i] = r[i]
  <2>1. i \in Nat /\ i >= 1 /\ i <= Len(b) + Len(c) - k /\ k + i \in 1 .. Len(b) + Len(c)
    BY <1>1, <1>4
  <2>2. l[i] = IF k + i <= Len(b) THEN b[k + i] ELSE c[k + i - Len(b)]
    BY <1>1, <1>4, <2>1
  <2>3. CASE k + i <= Len(b)
    <3>1. i \in 1 .. Len(b) - k /\ i \in 1 .. Len(b) - k + Len(c) /\ i <= Len(b) - k
      BY <1>1, <2>1, <2>3
    <3> QED
      BY <1>3, <1>5, <2>2, <2>3, <3>1
  <2>4. CASE ~(k + i <= Len(b))
    <3>1. /\ i \in 1 .. Len(b) - k + Len(c) /\ ~(i <= Len(b) - k)
          /\ i - (Len(b) - k) = k + i - Len(b)
      BY <1>1, <2>1, <2>4
    <3> QED
      BY <1>5, <2>2, <2>4, <3>1
  <2> QED
    BY <2>3, <2>4
<1>7. l = r
  BY <1>1, <1>4, <1>5, <1>6, SeqEqual
<1> QED
  BY <1>7 DEF l, r

\* The same when the cut is in its second part.
LEMMA AfterInSecond ==
    ASSUME NEW S, NEW b \in Seq(S), NEW c \in Seq(S), NEW k \in Nat, k <= Len(c)
    PROVE  After(b \o c, Len(b) + k) = After(c, k)
<1> DEFINE l == After(b \o c, Len(b) + k)
           r == After(c, k)
<1>1. /\ Len(b) \in Nat /\ Len(c) \in Nat
      /\ b \o c \in Seq(S) /\ Len(b \o c) = Len(b) + Len(c)
      /\ \A i \in 1 .. Len(b) + Len(c) :
            (b \o c)[i] = IF i <= Len(b) THEN b[i] ELSE c[i - Len(b)]
  BY LenProperties, ConcatProperties
<1>2. Len(b) + k \in Nat /\ Len(b) + k <= Len(b \o c)
  BY <1>1
<1>3. /\ r \in Seq(S) /\ Len(r) = Len(c) - k
      /\ \A i \in 1 .. Len(c) - k : r[i] = c[k + i]
  BY AfterProperties
<1>4. /\ l \in Seq(S) /\ Len(l) = Len(c) - k
      /\ \A i \in 1 .. Len(c) - k : l[i] = (b \o c)[Len(b) + k + i]
  <2>1. /\ l \in Seq(S) /\ Len(l) = Len(b \o c) - (Len(b) + k)
        /\ \A i \in 1 .. Len(b \o c) - (Len(b) + k) : l[i] = (b \o c)[Len(b) + k + i]
    BY <1>1, <1>2, AfterProperties
  <2>2. Len(b \o c) - (Len(b) + k) = Len(c) - k
    BY <1>1
  <2> HIDE DEF l
  <2> QED
    BY <2>1, <2>2
<1> HIDE DEF l, r
<1>5. ASSUME NEW i \in 1 .. Len(l) PROVE l[i] = r[i]
  <2>1. /\ i \in 1 .. Len(c) - k /\ Len(b) + k + i \in 1 .. Len(b) + Len(c)
        /\ ~(Len(b) + k + i <= Len(b)) /\ Len(b) + k + i - Len(b) = k + i
    BY <1>1, <1>4
  <2>2. l[i] = (b \o c)[Len(b) + k + i]
    BY <1>4, <2>1
  <2>3. (b \o c)[Len(b) + k + i] = c[k + i]
    BY <1>1, <2>1
  <2>4. r[i] = c[k + i]
    BY <1>3, <2>1
  <2> QED
    BY <2>2, <2>3, <2>4
<1>6. l = r
  BY <1>1, <1>3, <1>4, <1>5, SeqEqual
<1> QED
  BY <1>6 DEF l, r

\* Filtering b and then c is filtering b and c at once: what is left.
LEMMA LeftSplits ==
    ASSUME NEW S, NEW e \in Seq(S), NEW b \in Seq(S), NEW c \in Seq(S)
    PROVE  Left(e, b \o c) = Left(Left(e, b), c)
<1> DEFINE r == Left(e, b)
<1>1. /\ Len(e) \in Nat /\ Len(b) \in Nat /\ Len(c) \in Nat
      /\ b \o c \in Seq(S) /\ Len(b \o c) = Len(b) + Len(c)
  BY LenProperties, ConcatProperties
<1>2. r \in Seq(S)
  BY LeftIsSeq
<1>3. Agrees(e, b, Matched(e, b)) /\ Agrees(r, c, Matched(r, c))
  BY <1>2, MatchedAgrees
<1> HIDE DEF r
<1>4. CASE Matched(e, b) = Len(b)
  <2>1. r = After(e, Len(b)) /\ Len(b) <= Len(e)
    BY <1>3, <1>4 DEF Left, r, Agrees, After
  <2>2. Len(r) = Len(e) - Len(b) /\ \A i \in 1 .. Len(r) : r[i] = e[Len(b) + i]
    <3>1. /\ Len(After(e, Len(b))) = Len(e) - Len(b)
          /\ \A i \in 1 .. Len(e) - Len(b) : After(e, Len(b))[i] = e[Len(b) + i]
      BY <1>1, <2>1, AfterProperties
    <3> QED
      BY <2>1, <3>1
  <2>3. Matched(e, b \o c) = Len(b) + Matched(r, c)
    BY <1>4, MatchedSplits DEF r
  <2>4. CASE Matched(r, c) = Len(c)
    <3>1. Len(c) <= Len(r)
      BY <1>3, <2>4 DEF Agrees
    <3>2. Left(r, c) = After(r, Len(c)) /\ Left(e, b \o c) = After(e, Len(b) + Len(c))
      BY <1>1, <2>3, <2>4 DEF Left, After
    <3>3. Len(b) + Len(c) \in Nat /\ Len(b) + Len(c) <= Len(e)
      BY <1>1, <2>1, <2>2, <3>1
    <3>4. /\ After(r, Len(c)) \in Seq(S) /\ Len(After(r, Len(c))) = Len(r) - Len(c)
          /\ \A i \in 1 .. Len(r) - Len(c) : After(r, Len(c))[i] = r[Len(c) + i]
      BY <1>1, <1>2, <3>1, AfterProperties
    <3>5. /\ After(e, Len(b) + Len(c)) \in Seq(S)
          /\ Len(After(e, Len(b) + Len(c))) = Len(e) - (Len(b) + Len(c))
          /\ \A i \in 1 .. Len(e) - (Len(b) + Len(c)) :
                After(e, Len(b) + Len(c))[i] = e[Len(b) + Len(c) + i]
      BY <3>3, AfterProperties
    <3>6. Len(e) - (Len(b) + Len(c)) = Len(r) - Len(c)
      BY <1>1, <2>2
    <3>7. ASSUME NEW i \in 1 .. Len(r) - Len(c)
          PROVE  After(r, Len(c))[i] = After(e, Len(b) + Len(c))[i]
      <4>1. Len(c) + i \in 1 .. Len(r) /\ Len(b) + (Len(c) + i) = Len(b) + Len(c) + i
        BY <1>1, <2>2, <3>1
      <4> QED
        BY <2>2, <3>4, <3>5, <3>6, <4>1
    <3>8. After(r, Len(c)) = After(e, Len(b) + Len(c))
      BY <3>4, <3>5, <3>6, <3>7, SeqEqual
    <3> QED
      BY <3>2, <3>8 DEF r
  <2>5. CASE Matched(r, c) # Len(c)
    <3>1. Matched(e, b \o c) # Len(b \o c)
      BY <1>1, <1>3, <2>3, <2>5 DEF Agrees
    <3> QED
      BY <2>5, <3>1 DEF Left, r
  <2> QED
    BY <2>4, <2>5
<1>5. CASE Matched(e, b) # Len(b)
  <2>1. r = <<>> /\ Len(r) = 0
    BY <1>5, EmptySeq DEF Left, r
  <2>2. Matched(e, b \o c) # Len(b \o c)
    <3>1. Matched(e, b \o c) = Matched(e, b)
      BY <1>5, MatchedSplits
    <3> QED
      BY <1>1, <1>3, <1>5, <3>1 DEF Agrees
  <2>3. Left(e, b \o c) = <<>>
    BY <2>2 DEF Left
  <2>4. SubSeq(r, Len(c) + 1, Len(r)) = <<>>
    BY <1>1, <2>1, SubSeqEmpty
  <2>5. Left(r, c) = <<>>
    BY <2>4 DEF Left
  <2> QED
    BY <2>3, <2>5 DEF r
<1> QED
  BY <1>4, <1>5

Item == [byte : STRING, from : {"echo", "out"}]

\* What the proof needs beside the property: everything is a sequence of its kind.
Kinds ==
    /\ expected \in Seq(STRING) /\ wire \in Seq(Item)
    /\ ghost.echo \in Seq(STRING) /\ ghost.since \in Seq(Item)

\* The bytes of tagged items are as many and in their order.
LEMMA BytesOfItems ==
    ASSUME NEW s \in Seq(Item)
    PROVE  Bytes(s) \in Seq(STRING) /\ Len(Bytes(s)) = Len(s)
           /\ \A i \in 1 .. Len(s) : Bytes(s)[i] = s[i].byte
<1>1. Len(s) \in Nat /\ DOMAIN s = 1 .. Len(s) /\ \A i \in 1 .. Len(s) : s[i] \in Item
  BY LenProperties, ElementOfSeq
<1>2. \A i \in 1 .. Len(s) : s[i].byte \in STRING
  BY <1>1 DEF Item
<1>3. Bytes(s) = [i \in 1 .. Len(s) |-> s[i].byte]
  BY <1>1 DEF Bytes
<1> QED
  BY <1>1, <1>2, <1>3

\* Bytes of joined items are the joined bytes.
LEMMA BytesOfConcat ==
    ASSUME NEW s \in Seq(Item), NEW t \in Seq(Item)
    PROVE  Bytes(s \o t) = Bytes(s) \o Bytes(t)
<1> DEFINE l == Bytes(s \o t)
           r == Bytes(s) \o Bytes(t)
<1>1. /\ Len(s) \in Nat /\ Len(t) \in Nat
      /\ s \o t \in Seq(Item) /\ Len(s \o t) = Len(s) + Len(t)
      /\ \A i \in 1 .. Len(s) + Len(t) :
            (s \o t)[i] = IF i <= Len(s) THEN s[i] ELSE t[i - Len(s)]
  BY LenProperties, ConcatProperties
<1>2. /\ Bytes(s) \in Seq(STRING) /\ Len(Bytes(s)) = Len(s)
      /\ \A i \in 1 .. Len(s) : Bytes(s)[i] = s[i].byte
  BY BytesOfItems
<1>3. /\ Bytes(t) \in Seq(STRING) /\ Len(Bytes(t)) = Len(t)
      /\ \A i \in 1 .. Len(t) : Bytes(t)[i] = t[i].byte
  BY BytesOfItems
<1>4. /\ l \in Seq(STRING) /\ Len(l) = Len(s) + Len(t)
      /\ \A i \in 1 .. Len(s) + Len(t) : l[i] = (s \o t)[i].byte
  BY <1>1, BytesOfItems
<1>5. /\ r \in Seq(STRING) /\ Len(r) = Len(s) + Len(t)
      /\ \A i \in 1 .. Len(s) + Len(t) :
            r[i] = IF i <= Len(s) THEN Bytes(s)[i] ELSE Bytes(t)[i - Len(s)]
  <2>1. /\ r \in Seq(STRING) /\ Len(r) = Len(Bytes(s)) + Len(Bytes(t))
        /\ \A i \in 1 .. Len(Bytes(s)) + Len(Bytes(t)) :
              r[i] = IF i <= Len(Bytes(s)) THEN Bytes(s)[i] ELSE Bytes(t)[i - Len(Bytes(s))]
    BY <1>2, <1>3, ConcatProperties
  <2> HIDE DEF r
  <2> QED
    BY <1>2, <1>3, <2>1
<1> HIDE DEF l, r
<1>6. ASSUME NEW i \in 1 .. Len(l) PROVE l[i] = r[i]
  <2>1. i \in 1 .. Len(s) + Len(t)
    BY <1>4
  <2>2. CASE i <= Len(s)
    <3>1. i \in 1 .. Len(s)
      BY <1>1, <2>1, <2>2
    <3> QED
      BY <1>1, <1>2, <1>4, <1>5, <2>1, <2>2, <3>1
  <2>3. CASE ~(i <= Len(s))
    <3>1. i - Len(s) \in 1 .. Len(t)
      BY <1>1, <2>1, <2>3
    <3> QED
      BY <1>1, <1>3, <1>4, <1>5, <2>1, <2>3, <3>1
  <2> QED
    BY <2>2, <2>3
<1>7. l = r
  BY <1>4, <1>5, <1>6, SeqEqual
<1> QED
  BY <1>7 DEF l, r

\* Tagged bytes are items.
LEMMA TaggedItems ==
    ASSUME NEW s \in Seq(STRING), NEW who \in {"echo", "out"}
    PROVE  Tagged(s, who) \in Seq(Item)
<1>1. Len(s) \in Nat /\ DOMAIN s = 1 .. Len(s) /\ \A i \in 1 .. Len(s) : s[i] \in STRING
  BY LenProperties, ElementOfSeq
<1>2. Tagged(s, who) = [i \in 1 .. Len(s) |-> [byte |-> s[i], from |-> who]]
  BY <1>1 DEF Tagged
<1>3. \A i \in 1 .. Len(s) : [byte |-> s[i], from |-> who] \in Item
  BY <1>1 DEF Item
<1> QED
  BY <1>1, <1>2, <1>3

FilterInv == Kinds /\ ChunksDoNotMatter

\* Nothing read leaves the expectation as it is.
LEMMA NothingYet ==
    ASSUME NEW e \in Seq(STRING)
    PROVE  /\ Left(e, Bytes(<<>>)) = e
           /\ After(<<>>, Matched(e, Bytes(<<>>))) = <<>>
<1>1. <<>> \in Seq(Item) /\ Len(<<>>) = 0
  BY EmptySeq
<1>2. Bytes(<<>>) \in Seq(STRING) /\ Len(Bytes(<<>>)) = 0
  BY <1>1, BytesOfItems
<1>3. Matched(e, Bytes(<<>>)) = 0
  BY <1>2, MatchedAgrees DEF Agrees
<1>4. SubSeq(e, 1, Len(e)) = e
  BY SubSeqFull
<1>5. SubSeq(<<>>, 1, 0) = <<>>
  BY SubSeqEmpty
<1> QED
  BY <1>1, <1>2, <1>3, <1>4, <1>5 DEF Left, After

LEMMA FilterStarts == ASSUME FilterInit PROVE FilterInv
<1>1. <<>> \in Seq(STRING) /\ <<>> \in Seq(Item)
  BY EmptySeq
<1>2. Kinds
  BY <1>1 DEF FilterInit, Kinds
<1> QED
  BY <1>1, <1>2, NothingYet DEF FilterInit, FilterInv, ChunksDoNotMatter

LEMMA FilterStep == ASSUME FilterInv, [FilterNext]_filterVars PROVE FilterInv'
<1>1. ASSUME NEW line \in Lines, Write(line) PROVE FilterInv'
  <2>1. Expect(line) \in Seq(STRING) /\ TtyEcho(line) \in Seq(STRING)
    BY StreamAssumption
  <2>2. /\ expected' = Expect(line) /\ ghost'.echo = Expect(line)
        /\ ghost'.since = <<>> /\ ghost'.shown = <<>>
    BY <1>1 DEF Write
  <2>3. wire' \in Seq(Item)
    <3>1. PICK echo \in BOOLEAN :
             wire' = wire \o Tagged(IF echo THEN TtyEcho(line) ELSE <<>>, "echo")
      BY <1>1 DEF Write
    <3>2. (IF echo THEN TtyEcho(line) ELSE <<>>) \in Seq(STRING)
      BY <2>1, EmptySeq
    <3> DEFINE t == IF echo THEN TtyEcho(line) ELSE <<>>
    <3>3. "echo" \in {"echo", "out"}
      OBVIOUS
    <3> HIDE DEF t
    <3>4. Tagged(t, "echo") \in Seq(Item)
      BY <3>2, <3>3, TaggedItems DEF t
    <3>5. wire' = wire \o Tagged(t, "echo")
      BY <3>1 DEF t
    <3> QED
      BY <3>4, <3>5, ConcatProperties DEF FilterInv, Kinds
  <2>4. Kinds'
    BY <2>1, <2>2, <2>3, EmptySeq DEF Kinds
  <2> QED
    BY <2>1, <2>2, <2>4, NothingYet DEF FilterInv, ChunksDoNotMatter
<1>2. ASSUME NEW out \in Outputs, Output(out) PROVE FilterInv'
  <2>1. /\ expected' = expected /\ ghost'.echo = ghost.echo
        /\ ghost'.since = ghost.since /\ ghost'.shown = ghost.shown
    BY <1>2 DEF Output
  <2>2. wire' \in Seq(Item)
    <3>0. "out" \in {"echo", "out"}
      OBVIOUS
    <3>1. Tagged(out, "out") \in Seq(Item)
      BY <3>0, StreamAssumption, TaggedItems
    <3> QED
      BY <1>2, <3>1, ConcatProperties DEF Output, FilterInv, Kinds
  <2> QED
    BY <2>1, <2>2 DEF FilterInv, Kinds, ChunksDoNotMatter
<1>3. ASSUME NEW n \in 1 .. Len(wire), Feed(n) PROVE FilterInv'
  <2> DEFINE chunk == SubSeq(wire, 1, n)
             b == Bytes(chunk)
             k == Matched(expected, b)
             past == ghost.since
             p == Bytes(past)
             m == Matched(ghost.echo, p)
  <2>1. /\ expected' = Left(expected, b) /\ wire' = After(wire, n)
        /\ ghost'.echo = ghost.echo /\ ghost'.since = past \o chunk
        /\ ghost'.shown = ghost.shown \o After(chunk, k)
    <3>1. expected' = Left(expected, b) /\ wire' = After(wire, n)
      BY <1>3 DEF Feed
    <3>2. ghost' = [ghost EXCEPT !.since = past \o chunk,
                                 !.shown = ghost.shown \o After(chunk, k),
                                 !.dropped = @ \cup {chunk[i] : i \in 1 .. k}]
      BY <1>3 DEF Feed
    <3> HIDE DEF past, chunk, b, k
    <3>3. ghost'.echo = ghost.echo
      BY <3>2
    <3>4. ghost'.since = past \o chunk
      BY <3>2
    <3>5. ghost'.shown = ghost.shown \o After(chunk, k)
      BY <3>2
    <3> QED
      BY <3>1, <3>3, <3>4, <3>5
  <2>2. /\ expected \in Seq(STRING) /\ wire \in Seq(Item) /\ past \in Seq(Item)
        /\ ghost.echo \in Seq(STRING)
        /\ expected = Left(ghost.echo, p) /\ ghost.shown = After(past, m)
    BY DEF FilterInv, Kinds, ChunksDoNotMatter
  <2>3. n \in Nat /\ n <= Len(wire) /\ chunk \in Seq(Item)
    <3>1. Len(wire) \in Nat /\ \A i \in 1 .. n : wire[i] \in Item
      BY <2>2, LenProperties, ElementOfSeq
    <3> QED
      BY <3>1, SubSeqProperties
  <2> HIDE DEF chunk
  <2>4. b \in Seq(STRING) /\ p \in Seq(STRING) /\ Len(b) = Len(chunk) /\ Len(p) = Len(past)
    BY <2>2, <2>3, BytesOfItems
  <2>5. Bytes(past \o chunk) = p \o b
    BY <2>2, <2>3, BytesOfConcat
  <2> HIDE DEF b, p
  <2>6. Agrees(ghost.echo, p, m) /\ Agrees(expected, b, k)
    BY <2>2, <2>4, MatchedAgrees
  <2>7. Kinds'
    <3>1. Left(expected, b) \in Seq(STRING)
      BY <2>2, <2>4, LeftIsSeq
    <3>2. After(wire, n) \in Seq(Item)
      BY <2>2, <2>3, AfterProperties
    <3>3. past \o chunk \in Seq(Item)
      BY <2>2, <2>3, ConcatProperties
    <3> QED
      BY <2>1, <2>2, <3>1, <3>2, <3>3 DEF Kinds
  <2>8. expected' = Left(ghost.echo, p \o b)
    BY <2>1, <2>2, <2>4, LeftSplits
  <2>9. ghost'.shown = After(past \o chunk, Matched(ghost.echo, p \o b))
    <3>1. Matched(ghost.echo, p \o b) = IF m = Len(p) THEN Len(p) + k ELSE m
      BY <2>2, <2>4, MatchedSplits
    <3>2. m \in Nat /\ k \in Nat /\ m <= Len(past) /\ k <= Len(chunk)
      BY <2>4, <2>6 DEF Agrees
    <3>3. CASE m = Len(p)
      <4>1. After(past, m) = <<>>
        <5>0. m = Len(past) /\ Len(past) \in Nat
          BY <2>4, <3>2, <3>3
        <5>1. After(past, m) \in Seq(Item) /\ Len(After(past, m)) = Len(past) - m
          BY <2>2, <3>2, AfterProperties
        <5>2. Len(After(past, m)) = 0
          BY <5>0, <5>1
        <5> QED
          BY <5>1, <5>2, EmptySeq
      <4>2. After(past \o chunk, Len(past) + k) = After(chunk, k)
        BY <2>2, <2>3, <3>2, AfterInSecond
      <4>3. After(chunk, k) \in Seq(Item)
        BY <2>3, <3>2, AfterProperties
      <4>4. <<>> \o After(chunk, k) = After(chunk, k)
        BY <4>3, ConcatEmptySeq
      <4> QED
        BY <2>1, <2>2, <2>4, <3>1, <3>3, <4>1, <4>2, <4>4
    <3>4. CASE m # Len(p)
      <4>1. After(past \o chunk, m) = After(past, m) \o chunk
        BY <2>2, <2>3, <3>2, AfterInFirst
      <4>2. expected = <<>>
        BY <2>2, <3>4 DEF Left
      <4>3. k = 0
        BY <2>6, <3>2, <4>2, EmptySeq DEF Agrees
      <4>4. After(chunk, 0) = chunk
        BY <2>3, SubSeqFull DEF After
      <4> QED
        BY <2>1, <2>2, <3>1, <3>4, <4>1, <4>3, <4>4
    <3> QED
      BY <3>3, <3>4
  <2> QED
    BY <2>1, <2>5, <2>7, <2>8, <2>9 DEF FilterInv, ChunksDoNotMatter
<1>4. CASE UNCHANGED filterVars
  BY <1>4 DEF filterVars, FilterInv, Kinds, ChunksDoNotMatter
<1> QED
  BY <1>1, <1>2, <1>3, <1>4 DEF FilterNext

\* Wherever the reader cuts the bytes of the PTY, the suppressor is left with, and
\* lets through, what one call on all of them would.
THEOREM FilterIgnoresChunks == FilterSpec => []ChunksDoNotMatter
<1>1. FilterInit => FilterInv
  BY FilterStarts
<1>2. FilterInv /\ [FilterNext]_filterVars => FilterInv'
  BY FilterStep
<1>3. FilterInv => ChunksDoNotMatter
  BY DEF FilterInv
<1> QED
  BY <1>1, <1>2, <1>3, PTL DEF FilterSpec

\* The message the sniffer has read and not seen the end of.
Pending(s) == IF s.in /\ Len(s.buf) = 1 /\ s.buf[1] \in Messages THEN s.buf ELSE <<>>

Sniffers == [in : BOOLEAN, buf : Seq(STRING), events : Seq(STRING), cwd : 0 .. 2]

\* The messages that a sniffer still meets in w are whole.
Framed(s, w) ==
    /\ s \in Sniffers /\ w \in Seq(STRING)
    /\ \A i \in 1 .. Len(w) : w[i] \in Messages =>
          /\ i < Len(w) /\ w[i + 1] = "unhook"
          /\ IF i = 1 THEN s.in /\ s.buf = <<>> ELSE w[i - 1] = "hook"
    /\ Pending(s) # <<>> => Len(w) > 0 /\ w[1] = "unhook"

\* Where a sniffer will say the shell is once what it has begun to read is whole.
CwdNow(s) == IF Pending(s) # <<>> /\ s.buf[1] \in Precmds THEN CwdOf(s.buf[1]) ELSE s.cwd

\* What it will have told when w has come, and where it will say the shell is.
Told(s, w) == s.events \o Pending(s) \o Kept(w)
IsAt(s, w, c) ==
    \/ \E i \in 1 .. Len(w) : TellsLast(w, i) /\ c = CwdOf(w[i])
    \/ /\ \A i \in 1 .. Len(w) : ~Tells(w[i])
       /\ c = CwdNow(s)

\* A sequence of one item.
LEMMA OneItem ==
    ASSUME NEW S, NEW b \in S
    PROVE  /\ <<b>> \in Seq(S) /\ Len(<<b>>) = 1 /\ DOMAIN <<b>> = {1} /\ <<b>>[1] = b
           /\ Append(<<>>, b) = <<b>>
<1>1. <<b>> \in Seq(S) /\ Len(<<b>>) = 1 /\ DOMAIN <<b>> = {1} /\ <<b>>[1] = b
  OBVIOUS
<1>2. Append(<<>>, b) = <<b>>
  OBVIOUS
<1> QED
  BY <1>1, <1>2

\* Of one byte the message is kept.
LEMMA KeptOne ==
    ASSUME NEW b \in STRING
    PROVE  Kept(<<b>>) = IF b \in Messages THEN <<b>> ELSE <<>>
<1> DEFINE P == {i \in DOMAIN <<b>> : <<b>>[i] \in Messages}
<1>1. <<>> \in Seq(STRING) /\ Len(<<>>) = 0
  BY EmptySeq
<1>6. Append(<<>>, b) = <<b>> /\ DOMAIN <<b>> = {1} /\ <<b>>[1] = b
  BY OneItem
<1>2. 1 \in P <=> b \in Messages
  BY <1>6
<1> HIDE DEF P
<1>3. Keep(Append(<<>>, b), P) = IF 1 \in P THEN Append(Keep(<<>>, P), b) ELSE Keep(<<>>, P)
  <2>1. Keep(Append(<<>>, b), P) =
          IF Len(<<>>) + 1 \in P THEN Append(Keep(<<>>, P), b) ELSE Keep(<<>>, P)
    <3>1. \A e \in Seq(STRING) : Keep(Append(e, b), P) =
             IF Len(e) + 1 \in P THEN Append(Keep(e, P), b) ELSE Keep(e, P)
      BY KeepAppend
    <3> QED
      BY <1>1, <3>1
  <2>2. Len(<<>>) + 1 = 1
    BY <1>1
  <2> QED
    BY <2>1, <2>2
<1>4. Keep(<<>>, P) = <<>>
  BY KeepNone
<1>5. Kept(<<b>>) = Keep(<<b>>, P)
  BY DEF Kept, P
<1> QED
  BY <1>2, <1>3, <1>4, <1>5, <1>6

LEMMA KeptOfBoth ==
    ASSUME NEW s \in Seq(STRING), NEW t \in Seq(STRING)
    PROVE  /\ Kept(s \o t) = Kept(s) \o Kept(t)
           /\ Kept(s) \in Seq(STRING) /\ Kept(t) \in Seq(STRING)
<1> DEFINE W == {i \in DOMAIN (s \o t) : (s \o t)[i] \in Messages}
           L == {i \in DOMAIN s : s[i] \in Messages}
           R == {i \in DOMAIN t : t[i] \in Messages}
<1>1. /\ Len(s) \in Nat /\ Len(t) \in Nat /\ DOMAIN s = 1 .. Len(s) /\ DOMAIN t = 1 .. Len(t)
      /\ DOMAIN (s \o t) = 1 .. Len(s) + Len(t)
      /\ \A i \in 1 .. Len(s) : (s \o t)[i] = s[i]
      /\ \A i \in 1 .. Len(t) : (s \o t)[Len(s) + i] = t[i]
  OBVIOUS
<1>2. \A n \in 1 .. Len(s) : n \in W <=> n \in L
  BY <1>1
<1>3. \A n \in 1 .. Len(t) : Len(s) + n \in W <=> n \in R
  BY <1>1
<1> HIDE DEF W, L, R
<1>4. Keep(s \o t, W) = Keep(s, L) \o Keep(t, R)
  BY <1>2, <1>3, KeepConcat
<1>5. Keep(s, L) \in Seq(STRING) /\ Keep(t, R) \in Seq(STRING)
  BY KeepType
<1> QED
  BY <1>4, <1>5 DEF Kept, W, L, R

\* Plain bytes hold no messages.
LEMMA KeptOfPlain ==
    ASSUME NEW s \in Seq(STRING), \A i \in 1 .. Len(s) : s[i] \notin Messages
    PROVE  Kept(s) = <<>>
<1> DEFINE P == {i \in DOMAIN s : s[i] \in Messages}
<1>1. \A n \in 1 .. Len(s) : n \in P <=> n \in {}
  OBVIOUS
<1> HIDE DEF P
<1>2. Keep(s, P) = Keep(s, {})
  BY <1>1, KeepAgrees
<1>3. PICK kept : KeepsStepwise(kept, s, STRING, {})
  BY KeepStepwise
<1> DEFINE T == {m \in Nat : m <= Len(s) => kept[m] = <<>>}
<1>4. 0 \in T
  BY <1>3 DEF KeepsStepwise
<1>5. ASSUME NEW m \in T PROVE m + 1 \in T
  <2>1. SUFFICES ASSUME m + 1 <= Len(s) PROVE kept[m + 1] = <<>>
    OBVIOUS
  <2>2. m + 1 \in 1 .. Len(s) /\ kept[m] = <<>> /\ (m + 1) - 1 = m
    BY <2>1
  <2>3. kept[m + 1] = kept[(m + 1) - 1]
    BY <1>3, <2>2 DEF KeepsStepwise
  <2> QED
    BY <2>2, <2>3
<1>6. T = Nat
  <2> HIDE DEF T
  <2>1. T \in SUBSET Nat
    BY DEF T
  <2> QED
    BY <1>4, <1>5, <2>1, Induction
<1>7. Keep(s, {}) = <<>>
  <2>1. Len(s) \in T
    BY <1>6
  <2> QED
    BY <2>1, <1>3 DEF KeepsStepwise
<1> QED
  BY <1>2, <1>7 DEF Kept, P


\* What one byte does to a sniffer that has framed messages ahead.
LEMMA OneByteFed ==
    ASSUME NEW b \in STRING, NEW s \in Sniffers, NEW t,
           t = FeedByte(s, b) \/ (Plain(b) /\ t = s),
           Pending(s) # <<>> => b = "unhook",
           b \in Messages => s.in /\ s.buf = <<>>
    PROVE  /\ t \in Sniffers
           /\ t.events \o Pending(t) =
                (s.events \o Pending(s)) \o (IF b \in Messages THEN <<b>> ELSE <<>>)
           /\ Pending(t) # <<>> => b \in Messages
           /\ b = "hook" => t.in /\ t.buf = <<>>
           /\ CwdNow(t) = IF Tells(b) THEN CwdOf(b) ELSE CwdNow(s)
<1>1. /\ s.in \in BOOLEAN /\ s.buf \in Seq(STRING) /\ s.events \in Seq(STRING) /\ s.cwd \in 0 .. 2
      /\ s = [in |-> s.in, buf |-> s.buf, events |-> s.events, cwd |-> s.cwd]
  BY DEF Sniffers
<1>2. \A e \in Seq(STRING) : e \o <<>> = e
  OBVIOUS
<1>3. s.events \o Pending(s) \in Seq(STRING) /\ Pending(s) \in Seq(STRING)
  <2>1. Pending(s) \in Seq(STRING)
    BY <1>1, EmptySeq DEF Pending
  <2> QED
    BY <2>1, <1>1, ConcatProperties
<1>4. CASE Plain(b) /\ t = s
  <2>1. b \notin Messages /\ ~Tells(b) /\ b # "unhook" /\ b # "hook"
    BY <1>4 DEF Plain, Tells, Messages
  <2>2. Pending(s) = <<>>
    BY <2>1
  <2> QED
    BY <1>4, <2>1, <2>2, <1>2, <1>3
<1>5. CASE t = FeedByte(s, b)
  <2>1. CASE b # "unhook" /\ b \notin Messages
    <3>0. Pending(s) = <<>>
      BY <2>1
    <3>1. /\ Unhook(s).in = FALSE /\ Unhook(s).events = s.events /\ Unhook(s).cwd = s.cwd
          /\ Unhook(s) = [in |-> FALSE, buf |-> Unhook(s).buf, events |-> s.events, cwd |-> s.cwd]
          /\ Unhook(s).buf \in Seq(STRING)
      <4>1. CASE ~s.in
        BY <4>1, <1>1 DEF Unhook
      <4>2. CASE s.in
        <5>1. ~(Len(s.buf) = 1 /\ s.buf[1] \in Messages)
          <6>1. SUFFICES ASSUME Len(s.buf) = 1, s.buf[1] \in Messages PROVE FALSE
            OBVIOUS
          <6>2. Pending(s) = s.buf
            BY <4>2, <6>1 DEF Pending
          <6> QED
            BY <6>1, <6>2, <3>0, EmptySeq
        <5>2. Unhook(s) = [s EXCEPT !.in = FALSE, !.buf = <<>>]
          BY <4>2, <5>1 DEF Unhook
        <5>3. Unhook(s) = [in |-> FALSE, buf |-> <<>>, events |-> s.events, cwd |-> s.cwd]
          BY <5>2, <1>1
        <5> QED
          BY <5>3, EmptySeq
      <4> QED
        BY <4>1, <4>2, <1>1
    <3>2. CASE b = "hook"
      <4>1. t = Hook(s)
        BY <3>2, <1>5 DEF FeedByte, Osc7s
      <4>2. t = [in |-> TRUE, buf |-> <<>>, events |-> s.events, cwd |-> s.cwd]
        BY <4>1, <3>1 DEF Hook
      <4>3. Pending(t) = <<>>
        BY <4>2 DEF Pending
      <4>4. t \in Sniffers
        BY <4>2, <1>1, EmptySeq DEF Sniffers
      <4>5. ~Tells(b)
        BY <3>2 DEF Tells, Precmds, Osc7s
      <4> QED
        BY <4>2, <4>3, <4>4, <4>5, <3>0, <2>1, <1>2, <1>1 DEF CwdNow
    <3>3. CASE b \in Osc7s
      <4>1. t = [Unhook(s) EXCEPT !.cwd = CwdOf(b)]
        BY <3>3, <1>5 DEF FeedByte, Osc7s
      <4>2. t = [in |-> FALSE, buf |-> Unhook(s).buf, events |-> s.events, cwd |-> CwdOf(b)]
        BY <4>1, <3>1
      <4>3. Pending(t) = <<>>
        BY <4>2 DEF Pending
      <4>4. CwdOf(b) \in 0 .. 2
        BY <3>3 DEF Osc7s, CwdOf
      <4>5. t \in Sniffers
        BY <4>2, <4>4, <3>1, <1>1 DEF Sniffers
      <4>6. Tells(b) /\ b # "hook"
        BY <3>3 DEF Tells, Osc7s
      <4> QED
        BY <4>2, <4>3, <4>5, <4>6, <3>0, <2>1, <1>2, <1>1 DEF CwdNow
    <3>4. CASE b \notin Osc7s /\ b # "hook"
      <4>1. t = IF s.in THEN [s EXCEPT !.buf = Append(@, b)] ELSE s
        BY <3>4, <2>1, <1>5 DEF FeedByte
      <4>2. /\ t.in = s.in /\ t.events = s.events /\ t.cwd = s.cwd /\ t \in Sniffers
            /\ t.in => t.buf = Append(s.buf, b)
        <5>1. CASE s.in
          <6>1. t = [in |-> s.in, buf |-> Append(s.buf, b), events |-> s.events, cwd |-> s.cwd]
            BY <5>1, <4>1, <1>1
          <6>2. Append(s.buf, b) \in Seq(STRING)
            BY <1>1
          <6> QED
            BY <6>1, <6>2, <1>1 DEF Sniffers
        <5>2. CASE ~s.in
          BY <5>2, <4>1, <1>1
        <5> QED
          BY <5>1, <5>2, <1>1
      <4>3. Pending(t) = <<>>
        <5>1. SUFFICES ASSUME t.in, Len(t.buf) = 1, t.buf[1] \in Messages PROVE FALSE
          BY DEF Pending
        <5>2. t.buf = Append(s.buf, b) /\ Len(s.buf) \in Nat
          BY <5>1, <4>2, <1>1
        <5>3. Len(s.buf) = 0
          BY <5>1, <5>2, <1>1
        <5>4. t.buf[1] = b
          BY <5>2, <5>3, <1>1
        <5> QED
          BY <5>1, <5>4, <2>1
      <4>4. ~Tells(b)
        BY <3>4, <2>1 DEF Tells, Messages
      <4> QED
        BY <4>2, <4>3, <4>4, <3>0, <3>4, <2>1, <1>2, <1>1 DEF CwdNow
    <3> QED
      BY <3>2, <3>3, <3>4
  <2>2. CASE b \in Messages
    <3>1. b # "hook" /\ b # "unhook" /\ b \notin Osc7s
      BY <2>2 DEF Messages, Precmds, Osc7s
    <3>2. t = [s EXCEPT !.buf = Append(@, b)] /\ s.in /\ s.buf = <<>>
      BY <3>1, <2>2, <1>5 DEF FeedByte
    <3>3. Append(<<>>, b) = <<b>> /\ <<b>> \in Seq(STRING) /\ Len(<<b>>) = 1 /\ <<b>>[1] = b
      OBVIOUS
    <3>4. t = [in |-> TRUE, buf |-> <<b>>, events |-> s.events, cwd |-> s.cwd]
      BY <3>2, <3>3, <1>1
    <3>5. Pending(t) = <<b>>
      BY <3>4, <3>3, <2>2 DEF Pending
    <3>6. Pending(s) = <<>>
      BY <3>2, EmptySeq DEF Pending
    <3>7. t \in Sniffers
      BY <3>4, <3>3, <1>1 DEF Sniffers
    <3>8. t.events = s.events /\ t.cwd = s.cwd /\ t.buf[1] = b
      BY <3>4, <3>3
    <3>9. CwdNow(t) = IF Tells(b) THEN CwdOf(b) ELSE CwdNow(s)
      <4>1. Tells(b) <=> b \in Precmds
        BY <3>1 DEF Tells
      <4>2. <<b>> # <<>>
        BY <3>3, EmptySeq
      <4> QED
        BY <4>1, <4>2, <3>5, <3>6, <3>8 DEF CwdNow
    <3>10. t.events \o Pending(t) = (s.events \o Pending(s)) \o <<b>>
      BY <3>5, <3>6, <3>8, <1>1, <1>2
    <3> QED
      BY <3>1, <3>7, <3>9, <3>10, <2>2
  <2>3. CASE b = "unhook"
    <3>1. b \notin Messages /\ ~Tells(b) /\ b # "hook"
      BY <2>3 DEF Messages, Precmds, Tells, Osc7s
    <3>2. t = Unhook(s)
      BY <2>3, <1>5 DEF FeedByte, Osc7s
    <3>3. CASE ~s.in
      <4>1. t = s /\ Pending(s) = <<>>
        BY <3>2, <3>3 DEF Unhook, Pending
      <4> QED
        BY <4>1, <3>1, <1>1, <1>2, <1>3
    <3>4. CASE s.in /\ ~(Len(s.buf) = 1 /\ s.buf[1] \in Messages)
      <4>1. t = [s EXCEPT !.in = FALSE, !.buf = <<>>] /\ Pending(s) = <<>>
        BY <3>2, <3>4 DEF Unhook, Pending
      <4>2. t = [in |-> FALSE, buf |-> <<>>, events |-> s.events, cwd |-> s.cwd]
        BY <4>1, <1>1
      <4>3. Pending(t) = <<>> /\ t \in Sniffers
        BY <4>2, <1>1, EmptySeq DEF Pending, Sniffers
      <4> QED
        BY <4>1, <4>2, <4>3, <3>1, <1>1, <1>2 DEF CwdNow
    <3>5. CASE s.in /\ Len(s.buf) = 1 /\ s.buf[1] \in Messages
      <4> DEFINE m == s.buf[1]
      <4>1. Pending(s) = s.buf /\ s.buf # <<>>
        BY <3>5, EmptySeq DEF Pending
      <4>2. t = [s EXCEPT !.in = FALSE, !.buf = <<>>, !.events = Append(@, m),
                          !.cwd = IF m \in Precmds THEN CwdOf(m) ELSE @]
        BY <3>2, <3>5 DEF Unhook
      <4>3. t = [in |-> FALSE, buf |-> <<>>, events |-> Append(s.events, m),
                 cwd |-> IF m \in Precmds THEN CwdOf(m) ELSE s.cwd]
        BY <4>2, <1>1
      <4>4. m \in STRING /\ s.buf = <<m>>
        BY <3>5, <1>1
      <4>5. m \in Precmds => CwdOf(m) \in 0 .. 2
        BY DEF Precmds, CwdOf
      <4>6. Pending(t) = <<>>
        BY <4>3 DEF Pending
      <4>7. t \in Sniffers
        <5>1. Append(s.events, m) \in Seq(STRING) /\ <<>> \in Seq(STRING)
          BY <4>4, <1>1
        <5>2. (IF m \in Precmds THEN CwdOf(m) ELSE s.cwd) \in 0 .. 2
          BY <4>5, <1>1
        <5> HIDE DEF m
        <5> QED
          BY <4>3, <5>1, <5>2 DEF Sniffers
      <4>8. t.events \o Pending(t) = s.events \o Pending(s)
        <5>1. Append(s.events, m) = s.events \o <<m>>
          BY <4>4, <1>1
        <5>2. t.events = s.events \o s.buf
          <6>1. t.events = Append(s.events, m)
            BY <4>3
          <6> HIDE DEF m
          <6> QED
            BY <6>1, <5>1, <4>4
        <5>3. t.events \in Seq(STRING)
          BY <4>7 DEF Sniffers
        <5> QED
          BY <5>2, <5>3, <4>1, <4>6, <1>2
      <4>9. CwdNow(t) = CwdNow(s)
        BY <4>1, <4>3, <4>6 DEF CwdNow
      <4> QED
        BY <4>6, <4>7, <4>8, <4>9, <3>1, <1>2, <1>3
    <3> QED
      BY <3>3, <3>4, <3>5
  <2> QED
    BY <2>1, <2>2, <2>3
<1> QED
  BY <1>4, <1>5

\* One byte more is read, and fed or dropped: what will have been told stays.
LEMMA OneByteOn ==
    ASSUME NEW b \in STRING, NEW w \in Seq(STRING), NEW s, Framed(s, <<b>> \o w), NEW t,
           t = FeedByte(s, b) \/ (Plain(b) /\ t = s)
    PROVE  /\ Framed(t, w) /\ Told(t, w) = Told(s, <<b>> \o w)
           /\ \A c : IsAt(s, <<b>> \o w, c) => IsAt(t, w, c)
<1> DEFINE v == <<b>> \o w
<1>0. <<b>> \in Seq(STRING) /\ Len(<<b>>) = 1 /\ <<b>>[1] = b
  BY OneItem
<1>1. /\ Len(w) \in Nat /\ Len(v) = Len(w) + 1 /\ v[1] = b /\ v \in Seq(STRING)
      /\ \A i \in 1 .. Len(w) : v[i + 1] = w[i]
      /\ \A i \in 1 .. Len(w) : w[i] \in STRING
  <2>1. /\ Len(w) \in Nat /\ v \in Seq(STRING) /\ Len(v) = 1 + Len(w)
        /\ \A i \in 1 .. 1 + Len(w) : v[i] = IF i <= 1 THEN <<b>>[i] ELSE w[i - 1]
    <3>1. \A p \in Seq(STRING) :
            /\ p \o w \in Seq(STRING) /\ Len(p \o w) = Len(p) + Len(w)
            /\ \A i \in 1 .. Len(p) + Len(w) : (p \o w)[i] = IF i <= Len(p) THEN p[i] ELSE w[i - Len(p)]
      BY ConcatProperties
    <3> QED
      BY <1>0, <3>1, LenProperties
  <2>2. \A i \in 1 .. Len(w) : w[i] \in STRING
    OBVIOUS
  <2> HIDE DEF v
  <2>3. v[1] = b
    <3>1. 1 \in 1 .. 1 + Len(w)
      BY <2>1
    <3>2. v[1] = IF 1 <= 1 THEN <<b>>[1] ELSE w[1 - 1]
      BY <2>1, <3>1
    <3>3. <<b>>[1] = b
      BY <1>0
    <3> QED
      BY <3>2, <3>3
  <2>4. \A i \in 1 .. Len(w) : v[i + 1] = w[i]
    <3> TAKE i \in 1 .. Len(w)
    <3>1. i + 1 \in 1 .. 1 + Len(w) /\ ~(i + 1 <= 1) /\ (i + 1) - 1 = i
      BY <2>1
    <3> QED
      BY <3>1, <2>1
  <2> QED
    BY <2>1, <2>2, <2>3, <2>4
<1>2. /\ s \in Sniffers /\ s.in \in BOOLEAN /\ s.buf \in Seq(STRING) /\ s.events \in Seq(STRING)
      /\ s.cwd \in 0 .. 2
  BY DEF Framed, Sniffers
<1>3. /\ Kept(v) = (IF b \in Messages THEN <<b>> ELSE <<>>) \o Kept(w)
      /\ Kept(w) \in Seq(STRING)
  <2> QED
    BY <1>0, KeptOne, KeptOfBoth
<1> HIDE DEF v
<1>4. ASSUME NEW c, IsAt(s, v, c)
      PROVE  \/ \E i \in 1 .. Len(w) : TellsLast(w, i) /\ c = CwdOf(w[i])
             \/ /\ \A i \in 1 .. Len(w) : ~Tells(w[i])
                /\ \/ Tells(b) /\ c = CwdOf(b)
                   \/ /\ ~Tells(b)
                      /\ c = CwdNow(s)
  <2>0. DOMAIN v = 1 .. Len(w) + 1 /\ DOMAIN w = 1 .. Len(w)
    BY <1>1
  <2>1. CASE \E i \in 1 .. Len(v) : TellsLast(v, i) /\ c = CwdOf(v[i])
    <3>1. PICK i \in 1 .. Len(w) + 1 : TellsLast(v, i) /\ c = CwdOf(v[i])
      BY <2>1, <1>1
    <3>2. CASE i = 1
      <4>1. \A j \in 1 .. Len(w) : ~Tells(w[j])
        <5> TAKE j \in 1 .. Len(w)
        <5>1. j + 1 \in DOMAIN v /\ j + 1 > 1
          BY <2>0
        <5>2. ~Tells(v[j + 1])
          BY <3>1, <3>2, <5>1 DEF TellsLast
        <5> QED
          BY <5>2, <1>1
      <4>2. Tells(b) /\ c = CwdOf(b)
        BY <3>1, <3>2, <1>1 DEF TellsLast
      <4> QED
        BY <4>1, <4>2
    <3>3. CASE i > 1
      <4>1. i - 1 \in 1 .. Len(w) /\ v[i] = w[i - 1]
        <5>1. i - 1 \in 1 .. Len(w) /\ (i - 1) + 1 = i
          BY <3>3, <1>1
        <5> QED
          BY <5>1, <1>1
      <4>2. \A j \in DOMAIN w : j > i - 1 => ~Tells(w[j])
        <5> TAKE j \in DOMAIN w
        <5> HAVE j > i - 1
        <5>1. j + 1 \in DOMAIN v /\ j + 1 > i /\ v[j + 1] = w[j]
          BY <2>0, <1>1
        <5> QED
          BY <5>1, <3>1 DEF TellsLast
      <4>3. TellsLast(w, i - 1) /\ c = CwdOf(w[i - 1])
        BY <4>1, <4>2, <3>1 DEF TellsLast
      <4> QED
        BY <4>1, <4>3
    <3>4. i = 1 \/ i > 1
      BY <1>1
    <3> QED
      BY <3>2, <3>3, <3>4
  <2>2. CASE ~\E i \in 1 .. Len(v) : TellsLast(v, i) /\ c = CwdOf(v[i])
    <3>1. /\ \A i \in 1 .. Len(v) : ~Tells(v[i])
          /\ c = CwdNow(s)
      BY <1>4, <2>2 DEF IsAt
    <3>2. \A i \in 1 .. Len(w) : ~Tells(w[i])
      <4> TAKE i \in 1 .. Len(w)
      <4>1. i + 1 \in 1 .. Len(v) /\ v[i + 1] = w[i]
        BY <1>1
      <4> QED
        BY <4>1, <3>1
    <3>3. ~Tells(b)
      <4>1. 1 \in 1 .. Len(v)
        BY <1>1
      <4> QED
        BY <4>1, <3>1, <1>1
    <3> QED
      BY <3>1, <3>2, <3>3
  <2> QED
    BY <2>1, <2>2

<1>5. \A i \in 1 .. Len(w) : w[i] \in Messages =>
        /\ i < Len(w) /\ w[i + 1] = "unhook"
        /\ IF i = 1 THEN b = "hook" ELSE w[i - 1] = "hook"
  <2> TAKE i \in 1 .. Len(w)
  <2> HAVE w[i] \in Messages
  <2>1. i + 1 \in 1 .. Len(v) /\ v[i + 1] = w[i] /\ i + 1 # 1 /\ (i + 1) - 1 = i
    BY <1>1
  <2>2. i + 1 < Len(v) /\ v[(i + 1) + 1] = "unhook" /\ v[i] = "hook"
    BY <2>1 DEF Framed, v
  <2>3. i < Len(w) /\ i + 1 \in 1 .. Len(w) /\ v[(i + 1) + 1] = w[i + 1]
    BY <2>2, <1>1
  <2>4. i # 1 => i - 1 \in 1 .. Len(w) /\ v[(i - 1) + 1] = w[i - 1] /\ (i - 1) + 1 = i
    BY <1>1
  <2> QED
    BY <2>2, <2>3, <2>4, <1>1
<1>6. 1 \in 1 .. Len(v)
  BY <1>1
<1>7. /\ Pending(s) # <<>> => b = "unhook"
      /\ b \in Messages => /\ s.in /\ s.buf = <<>>
                           /\ Len(w) > 0 /\ w[1] = "unhook"
  <2>1. Pending(s) # <<>> => b = "unhook"
    BY <1>1 DEF Framed, v
  <2>2. ASSUME b \in Messages PROVE s.in /\ s.buf = <<>> /\ Len(w) > 0 /\ w[1] = "unhook"
    <3>1. 1 < Len(v) /\ v[1 + 1] = "unhook" /\ s.in /\ s.buf = <<>>
      BY <2>2, <1>1, <1>6 DEF Framed, v
    <3>2. 1 \in 1 .. Len(w)
      BY <3>1, <1>1
    <3> QED
      BY <3>1, <3>2, <1>1
  <2> QED
    BY <2>1, <2>2
<1>8. /\ t \in Sniffers
      /\ t.events \o Pending(t) =
           (s.events \o Pending(s)) \o (IF b \in Messages THEN <<b>> ELSE <<>>)
      /\ Pending(t) # <<>> => b \in Messages
      /\ b = "hook" => t.in /\ t.buf = <<>>
      /\ CwdNow(t) = IF Tells(b) THEN CwdOf(b) ELSE CwdNow(s)
  BY <1>2, <1>7, OneByteFed
<1>9. Framed(t, w)
  BY <1>5, <1>7, <1>8 DEF Framed
<1>10. Told(t, w) = Told(s, v)
  <2> DEFINE x == s.events \o Pending(s)
             o == IF b \in Messages THEN <<b>> ELSE <<>>
  <2>1. x \in Seq(STRING) /\ o \in Seq(STRING)
    <3>1. Pending(s) \in Seq(STRING)
      BY <1>2, EmptySeq DEF Pending
    <3>2. x \in Seq(STRING)
      BY <1>2, <3>1, ConcatProperties
    <3> QED
      BY <3>2, <1>0, EmptySeq
  <2>2. Told(t, w) = (x \o o) \o Kept(w)
    BY <1>8 DEF Told
  <2>3. Told(s, v) = x \o (o \o Kept(w))
    BY <1>3 DEF Told
  <2> HIDE DEF x, o
  <2> QED
    BY <2>1, <2>2, <2>3, <1>3, ConcatAssociative
<1>11. ASSUME NEW c, IsAt(s, v, c) PROVE IsAt(t, w, c)
  BY <1>4, <1>8, <1>11 DEF IsAt
<1> QED
  BY <1>9, <1>10, <1>11 DEF v

\* The function FeedBytes is computed by exists.
FeedsStepwise(fed, s, bytes) ==
    /\ fed[0] = s
    /\ \A n \in 1 .. Len(bytes) : fed[n] = FeedByte(fed[n - 1], bytes[n])
    /\ FeedBytes(s, bytes) = fed[Len(bytes)]

LEMMA FedExists ==
    ASSUME NEW bytes \in Seq(STRING), NEW s
    PROVE  \E fed : fed = [n \in 0 .. Len(bytes) |->
                             IF n = 0 THEN s ELSE FeedByte(fed[n - 1], bytes[n])]
<1> DEFINE Fits(f, m) == f = [n \in 0 .. m |-> IF n = 0 THEN s ELSE FeedByte(f[n - 1], bytes[n])]
           T == {m \in Nat : \E f : Fits(f, m)}
<1>1. 0 \in T
  <2>1. Fits([n \in 0 .. 0 |-> s], 0)
    OBVIOUS
  <2> QED
    BY <2>1
<1>2. ASSUME NEW m \in T PROVE m + 1 \in T
  <2>1. PICK f : Fits(f, m)
    OBVIOUS
  <2> DEFINE g == [n \in 0 .. m + 1 |-> IF n = m + 1 THEN FeedByte(f[m], bytes[n]) ELSE f[n]]
  <2>2. \A n \in 0 .. m : g[n] = f[n]
    OBVIOUS
  <2>3. ASSUME NEW n \in 0 .. m + 1
        PROVE  g[n] = IF n = 0 THEN s ELSE FeedByte(g[n - 1], bytes[n])
    <3>1. CASE n = m + 1
      BY <3>1, <2>2
    <3>2. CASE n \in 0 .. m
      <4>1. g[n] = f[n] /\ (n # 0 => n - 1 \in 0 .. m /\ g[n - 1] = f[n - 1])
        BY <3>2, <2>2
      <4>2. f[n] = IF n = 0 THEN s ELSE FeedByte(f[n - 1], bytes[n])
        BY <3>2, <2>1
      <4> QED
        BY <4>1, <4>2
    <3> QED
      BY <3>1, <3>2
  <2>4. Fits(g, m + 1)
    BY <2>3
  <2>5. \E h : Fits(h, m + 1)
    <3> HIDE DEF g, Fits
    <3> QED
      BY <2>4
  <2>6. m + 1 \in Nat
    OBVIOUS
  <2> QED
    BY <2>5, <2>6
<1>3. Len(bytes) \in T
  <2>1. T = Nat
    <3> HIDE DEF T
    <3>1. T \in SUBSET Nat
      BY DEF T
    <3> QED
      BY <1>1, <1>2, <3>1, Induction
  <2> QED
    BY <2>1
<1> QED
  BY <1>3

LEMMA FeedsOneByOne ==
    ASSUME NEW bytes \in Seq(STRING), NEW s
    PROVE  \E fed : FeedsStepwise(fed, s, bytes)
<1> DEFINE fed[n \in 0 .. Len(bytes)] == IF n = 0 THEN s ELSE FeedByte(fed[n - 1], bytes[n])
<1>1. fed = [n \in 0 .. Len(bytes) |-> IF n = 0 THEN s ELSE FeedByte(fed[n - 1], bytes[n])]
  BY FedExists
<1>2. FeedBytes(s, bytes) = fed[Len(bytes)]
  BY DEF FeedBytes
<1>3. PICK f : /\ f = [n \in 0 .. Len(bytes) |-> IF n = 0 THEN s ELSE FeedByte(f[n - 1], bytes[n])]
               /\ FeedBytes(s, bytes) = f[Len(bytes)]
  <2> HIDE DEF fed
  <2> QED
    BY <1>1, <1>2
<1> HIDE DEF fed
<1>4. \A n \in 0 .. Len(bytes) : f[n] = IF n = 0 THEN s ELSE FeedByte(f[n - 1], bytes[n])
  BY <1>3
<1>5. FeedsStepwise(f, s, bytes)
  BY <1>3, <1>4 DEF FeedsStepwise
<1> QED
  BY <1>5

\* A chunk is read, its first k bytes are dropped and the others fed.
LEMMA ChunkOn ==
    ASSUME NEW x \in Seq(STRING), NEW y \in Seq(STRING), NEW k \in 0 .. Len(x),
           \A i \in 1 .. k : Plain(x[i]), NEW s, Framed(s, x \o y)
    PROVE  LET t == FeedBytes(s, After(x, k))
           IN  /\ Framed(t, y) /\ Told(t, y) = Told(s, x \o y)
               /\ \A c : IsAt(s, x \o y, c) => IsAt(t, y, c)
<1> DEFINE v == x \o y
           z == After(x, k)
           rest(m) == SubSeq(v, m + 1, Len(v))
<1>1. /\ Len(x) \in Nat /\ Len(y) \in Nat /\ v \in Seq(STRING) /\ Len(v) = Len(x) + Len(y)
      /\ \A i \in 1 .. Len(x) : v[i] = x[i]
      /\ \A i \in 1 .. Len(y) : v[Len(x) + i] = y[i]
      /\ \A i \in 1 .. Len(v) : v[i] \in STRING
  OBVIOUS
<1>2. /\ z \in Seq(STRING) /\ Len(z) = Len(x) - k
      /\ \A i \in 1 .. Len(x) - k : z[i] = x[k + i]
  <2>1. k \in Nat /\ k <= Len(x)
    BY <1>1
  <2> HIDE DEF v, rest
  <2> QED
    BY <2>1, AfterProperties
<1>3. PICK fed : FeedsStepwise(fed, s, z)
  BY <1>2, FeedsOneByOne
<1> DEFINE st(m) == IF m <= k THEN fed[0] ELSE fed[m - k]
           Fed(m) == /\ Framed(st(m), rest(m)) /\ Told(st(m), rest(m)) = Told(s, v)
                       /\ \A c : IsAt(s, v, c) => IsAt(st(m), rest(m), c)
           T == {m \in Nat : m <= Len(x) => Fed(m)}
<1> HIDE DEF v, z
<1>4. \A m \in 0 .. Len(x) :
        /\ rest(m) \in Seq(STRING) /\ Len(rest(m)) = Len(v) - m
        /\ \A i \in 1 .. Len(v) - m : rest(m)[i] = v[m + i]
  <2> TAKE m \in 0 .. Len(x)
  <2>1. m \in 0 .. Len(v)
    BY <1>1
  <2>2. m \in Nat /\ m <= Len(v)
    BY <2>1, <1>1
  <2>3. rest(m) = After(v, m)
    BY DEF After
  <2>4. /\ After(v, m) \in Seq(STRING) /\ Len(After(v, m)) = Len(v) - m
        /\ \A i \in 1 .. Len(v) - m : After(v, m)[i] = v[m + i]
    <3>1. \A q \in Seq(STRING), n \in Nat : n <= Len(q) =>
            /\ After(q, n) \in Seq(STRING) /\ Len(After(q, n)) = Len(q) - n
            /\ \A i \in 1 .. Len(q) - n : After(q, n)[i] = q[n + i]
      BY AfterProperties
    <3> QED
      BY <3>1, <1>1, <2>2
  <2> HIDE DEF rest
  <2> QED
    BY <2>3, <2>4
<1>5. 0 \in T
  <2>1. rest(0) = v
    BY <1>1, SubSeqFull
  <2>2. st(0) = s
    BY <1>3 DEF FeedsStepwise
  <2>3. Fed(0)
    BY <2>1, <2>2 DEF v
  <2> HIDE DEF Fed
  <2> QED
    BY <2>3
<1>6. ASSUME NEW m \in T PROVE m + 1 \in T
  <2>1. SUFFICES ASSUME m + 1 <= Len(x) PROVE Fed(m + 1)
    OBVIOUS
  <2>2. Fed(m) /\ m \in 0 .. Len(x) /\ m + 1 \in 0 .. Len(x) /\ m + 1 \in 1 .. Len(v)
    BY <2>1, <1>1
  <2> DEFINE b == v[m + 1]
  <2>3. b \in STRING /\ b = x[m + 1]
    BY <2>1, <2>2, <1>1
  <2>4. rest(m) = <<b>> \o rest(m + 1)
    <3> DEFINE r == <<b>> \o rest(m + 1)
    <3>1. <<b>> \in Seq(STRING) /\ Len(<<b>>) = 1 /\ <<b>>[1] = b
      BY <2>3, OneItem
    <3>2. /\ rest(m + 1) \in Seq(STRING) /\ Len(rest(m + 1)) = Len(v) - (m + 1)
          /\ \A i \in 1 .. Len(v) - (m + 1) : rest(m + 1)[i] = v[(m + 1) + i]
          /\ rest(m) \in Seq(STRING) /\ Len(rest(m)) = Len(v) - m
          /\ \A i \in 1 .. Len(v) - m : rest(m)[i] = v[m + i]
      BY <2>2, <1>4
    <3> HIDE DEF rest, b
    <3>3. /\ r \in Seq(STRING) /\ Len(r) = 1 + Len(rest(m + 1))
          /\ \A i \in 1 .. 1 + Len(rest(m + 1)) : r[i] = IF i <= 1 THEN <<b>>[i] ELSE rest(m + 1)[i - 1]
      <4>1. \A p \in Seq(STRING), q \in Seq(STRING) :
              /\ p \o q \in Seq(STRING) /\ Len(p \o q) = Len(p) + Len(q)
              /\ \A i \in 1 .. Len(p) + Len(q) : (p \o q)[i] = IF i <= Len(p) THEN p[i] ELSE q[i - Len(p)]
        BY ConcatProperties
      <4> QED
        BY <4>1, <3>1, <3>2
    <3> HIDE DEF r
    <3>4. ASSUME NEW i \in 1 .. Len(rest(m)) PROVE rest(m)[i] = r[i]
      <4>1. i \in 1 .. Len(v) - m /\ i \in 1 .. 1 + Len(rest(m + 1)) /\ Len(v) \in Nat
        BY <3>2, <1>1, <2>2
      <4>2. CASE i = 1
        <5>1. r[1] = b /\ rest(m)[1] = v[m + 1]
          BY <3>1, <3>2, <3>3, <4>1, <4>2
        <5> QED
          BY <5>1, <4>2 DEF b
      <4>3. CASE i > 1
        <5>1. i - 1 \in 1 .. Len(v) - (m + 1) /\ (m + 1) + (i - 1) = m + i /\ ~(i <= 1)
          BY <4>1, <4>3, <2>2
        <5>2. r[i] = rest(m + 1)[i - 1]
          BY <3>3, <4>1, <5>1
        <5>3. rest(m + 1)[i - 1] = v[(m + 1) + (i - 1)]
          BY <3>2, <5>1
        <5> QED
          BY <3>2, <4>1, <5>1, <5>2, <5>3
      <4> QED
        BY <4>1, <4>2, <4>3
    <3>5. Len(rest(m)) = Len(r)
      BY <3>2, <3>3, <2>2, <1>1
    <3> QED
      BY <3>2, <3>3, <3>4, <3>5, SeqEqual DEF r
  <2>5. st(m + 1) = FeedByte(st(m), b) \/ (Plain(b) /\ st(m + 1) = st(m))
    <3>1. CASE m + 1 <= k
      <4>1. m + 1 \in 1 .. k /\ m <= k
        BY <3>1, <2>2
      <4> QED
        BY <4>1, <3>1, <2>3
    <3>2. CASE m + 1 > k
      <4>1. (m + 1) - k \in 1 .. Len(z) /\ k + ((m + 1) - k) = m + 1 /\ ((m + 1) - k) - 1 = m - k
        BY <3>2, <2>1, <2>2, <1>2
      <4>2. fed[(m + 1) - k] = FeedByte(fed[m - k], z[(m + 1) - k])
        BY <4>1, <1>3 DEF FeedsStepwise
      <4>3. z[(m + 1) - k] = b
        BY <4>1, <1>2, <2>3
      <4>4. st(m + 1) = fed[(m + 1) - k] /\ st(m) = fed[m - k]
        BY <3>2, <2>2, <4>1
      <4> QED
        BY <4>2, <4>3, <4>4
    <3> QED
      BY <3>1, <3>2, <2>2
  <2>6. rest(m + 1) \in Seq(STRING)
    BY <2>2, <1>4
  <2>7. /\ Framed(st(m), rest(m)) /\ Told(st(m), rest(m)) = Told(s, v)
        /\ \A c : IsAt(s, v, c) => IsAt(st(m), rest(m), c)
    BY <2>2
  <2> DEFINE a == st(m)
             d == st(m + 1)
             r1 == rest(m + 1)
  <2> HIDE DEF st, rest, b, a, d, r1
  <2>8. /\ Framed(d, r1) /\ Told(d, r1) = Told(a, <<b>> \o r1)
        /\ \A c : IsAt(a, <<b>> \o r1, c) => IsAt(d, r1, c)
    <3>1. Framed(a, <<b>> \o r1)
      BY <2>4, <2>7 DEF a, r1
    <3>2. r1 \in Seq(STRING) /\ (d = FeedByte(a, b) \/ (Plain(b) /\ d = a))
      BY <2>5, <2>6 DEF a, d, r1
    <3> QED
      BY <3>1, <3>2, <2>3, OneByteOn
  <2> QED
    BY <2>4, <2>7, <2>8 DEF a, d, r1
<1>7. Fed(Len(x))
  <2> HIDE DEF Fed
  <2>1. T = Nat
    <3> HIDE DEF T
    <3>1. T \in SUBSET Nat
      BY DEF T
    <3> QED
      BY <1>5, <1>6, <3>1, Induction
  <2> QED
    BY <2>1, <1>1
<1>8. rest(Len(x)) = y
  <2>1. /\ rest(Len(x)) \in Seq(STRING) /\ Len(rest(Len(x))) = Len(y)
        /\ \A i \in 1 .. Len(y) : rest(Len(x))[i] = y[i]
    <3>1. Len(x) \in 0 .. Len(x) /\ Len(v) - Len(x) = Len(y)
      BY <1>1
    <3> QED
      BY <3>1, <1>1, <1>4
  <2> HIDE DEF rest
  <2> QED
    BY <2>1, SeqEqual
<1>9. st(Len(x)) = FeedBytes(s, z)
  <2>1. FeedBytes(s, z) = fed[Len(x) - k]
    BY <1>2, <1>3 DEF FeedsStepwise
  <2>2. Len(x) <= k => Len(x) - k = 0
    BY <1>1
  <2> QED
    BY <2>1, <2>2
<1>10. Framed(st(Len(x)), y) /\ Told(st(Len(x)), y) = Told(s, v)
       /\ \A c : IsAt(s, v, c) => IsAt(st(Len(x)), y, c)
  <2> HIDE DEF st
  <2> QED
    BY <1>7, <1>8
<1> HIDE DEF st
<1> QED
  BY <1>9, <1>10 DEF v, z

-----------------------------------------------------------------------------
\* Types of the sniffer and the ghost.
Ghosts == [echo : Seq(STRING), since : Seq(Item), shown : Seq(Item), dropped : SUBSET Item,
           sent : Seq(STRING), alone : BOOLEAN, writes : Nat, outputs : Nat]

\* Nothing that is expected is part of a marker; what has been told, is begun and is
\* still on the wire are the messages sent, and the same for where the shell is.
MarkersWhole ==
    /\ \A i \in 1 .. Len(expected) : Plain(expected[i])
    /\ Framed(sniffer, Bytes(wire))
    /\ Told(sniffer, Bytes(wire)) = Kept(ghost.sent)
    /\ \A i \in DOMAIN ghost.sent :
          TellsLast(ghost.sent, i) => IsAt(sniffer, Bytes(wire), CwdOf(ghost.sent[i]))

\* While every line is written alone, its echo is first on the wire and expected, or
\* there is no echo on the wire.
EchoAhead ==
    ghost.alone =>
        /\ \A i \in 1 .. Len(ghost.shown) : ghost.shown[i].from = "out"
        /\ \/ \A i \in 1 .. Len(wire) : wire[i].from = "out"
           \/ /\ Len(expected) <= Len(wire)
              /\ \A i \in 1 .. Len(expected) : wire[i].byte = expected[i]
              /\ \A i \in 1 .. Len(wire) : i > Len(expected) => wire[i].from = "out"

\* Two sequences, one behind the other, item by item.
LEMMA ItemsOfBoth ==
    ASSUME NEW S, NEW s \in Seq(S), NEW t \in Seq(S)
    PROVE  /\ s \o t \in Seq(S) /\ Len(s \o t) = Len(s) + Len(t)
           /\ Len(s) \in Nat /\ Len(t) \in Nat
           /\ \A i \in 1 .. Len(s) : (s \o t)[i] = s[i]
           /\ \A i \in 1 .. Len(t) : (s \o t)[Len(s) + i] = t[i]
           /\ \A i \in 1 .. Len(s) + Len(t) : i > Len(s) =>
                 i - Len(s) \in 1 .. Len(t) /\ (s \o t)[i] = t[i - Len(s)]
OBVIOUS

LEMMA TaggedAre ==
    ASSUME NEW s \in Seq(STRING), NEW who \in {"echo", "out"}
    PROVE  /\ Tagged(s, who) \in Seq(Item) /\ Len(Tagged(s, who)) = Len(s)
           /\ \A i \in 1 .. Len(s) : Tagged(s, who)[i].byte = s[i] /\ Tagged(s, who)[i].from = who
           /\ Bytes(Tagged(s, who)) = s
<1>1. Tagged(s, who) \in Seq(Item)
  BY TaggedItems
<1>2. /\ Len(Tagged(s, who)) = Len(s) /\ Len(s) \in Nat
      /\ \A i \in 1 .. Len(s) : Tagged(s, who)[i].byte = s[i] /\ Tagged(s, who)[i].from = who
  BY DEF Tagged
<1>3. /\ Bytes(Tagged(s, who)) \in Seq(STRING) /\ Len(Bytes(Tagged(s, who))) = Len(s)
      /\ \A i \in 1 .. Len(s) : Bytes(Tagged(s, who))[i] = s[i]
  BY <1>1, <1>2, BytesOfItems
<1>4. Bytes(Tagged(s, who)) = s
  BY <1>3, SeqEqual
<1> QED
  BY <1>1, <1>2, <1>4

\* Plain bytes behind, that nobody sent.
LEMMA PlainBehind ==
    ASSUME NEW s, NEW w \in Seq(STRING), Framed(s, w), NEW p \in Seq(STRING),
           \A i \in 1 .. Len(p) : Plain(p[i])
    PROVE  /\ Framed(s, w \o p) /\ Told(s, w \o p) = Told(s, w)
           /\ \A c : IsAt(s, w, c) => IsAt(s, w \o p, c)
<1> DEFINE v == w \o p
<1>1. /\ v \in Seq(STRING) /\ Len(v) = Len(w) + Len(p) /\ Len(w) \in Nat /\ Len(p) \in Nat
      /\ \A i \in 1 .. Len(w) : v[i] = w[i]
      /\ \A i \in 1 .. Len(w) + Len(p) : i > Len(w) =>
            i - Len(w) \in 1 .. Len(p) /\ v[i] = p[i - Len(w)]
  BY ItemsOfBoth
<1>2. \A i \in 1 .. Len(p) : p[i] \notin Messages /\ ~Tells(p[i])
  BY DEF Plain, Tells, Messages
<1>3. Kept(v) = Kept(w)
  <2>1. Kept(v) = Kept(w) \o Kept(p) /\ Kept(w) \in Seq(STRING)
    BY KeptOfBoth
  <2>2. Kept(p) = <<>>
    BY <1>2, KeptOfPlain
  <2> HIDE DEF v
  <2> QED
    BY <2>1, <2>2, ConcatEmptySeq
<1> HIDE DEF v
<1>4. \A i \in 1 .. Len(v) : v[i] \in Messages \/ Tells(v[i]) => i \in 1 .. Len(w)
  <2> TAKE i \in 1 .. Len(v)
  <2> HAVE v[i] \in Messages \/ Tells(v[i])
  <2>1. i > Len(w) => FALSE
    BY <1>1, <1>2
  <2> QED
    BY <2>1, <1>1
<1>5. Framed(s, v)
  <2>1. \A i \in 1 .. Len(v) : v[i] \in Messages =>
          /\ i < Len(v) /\ v[i + 1] = "unhook"
          /\ IF i = 1 THEN s.in /\ s.buf = <<>> ELSE v[i - 1] = "hook"
    <3> TAKE i \in 1 .. Len(v)
    <3> HAVE v[i] \in Messages
    <3>1. i \in 1 .. Len(w) /\ w[i] \in Messages
      BY <1>1, <1>4
    <3>2. /\ i < Len(w) /\ w[i + 1] = "unhook"
          /\ IF i = 1 THEN s.in /\ s.buf = <<>> ELSE w[i - 1] = "hook"
      BY <3>1 DEF Framed
    <3>3. i + 1 \in 1 .. Len(w) /\ (i # 1 => i - 1 \in 1 .. Len(w))
      BY <3>1, <3>2, <1>1
    <3> QED
      BY <3>1, <3>2, <3>3, <1>1
  <2>2. Pending(s) # <<>> => Len(v) > 0 /\ v[1] = "unhook"
    <3> HAVE Pending(s) # <<>>
    <3>1. Len(w) > 0 /\ w[1] = "unhook"
      BY DEF Framed
    <3>2. 1 \in 1 .. Len(w)
      BY <3>1, <1>1
    <3> QED
      BY <3>1, <3>2, <1>1
  <2> QED
    BY <2>1, <2>2, <1>1 DEF Framed
<1>6. ASSUME NEW c, IsAt(s, w, c) PROVE IsAt(s, v, c)
  <2>0. DOMAIN v = 1 .. Len(v) /\ DOMAIN w = 1 .. Len(w)
    BY <1>1
  <2>1. CASE \E i \in 1 .. Len(w) : TellsLast(w, i) /\ c = CwdOf(w[i])
    <3>1. PICK i \in 1 .. Len(w) : TellsLast(w, i) /\ c = CwdOf(w[i])
      BY <2>1
    <3>2. i \in 1 .. Len(v) /\ v[i] = w[i]
      BY <1>1
    <3>3. \A j \in DOMAIN v : j > i => ~Tells(v[j])
      <4> TAKE j \in DOMAIN v
      <4> HAVE j > i
      <4>1. CASE j \in 1 .. Len(w)
        BY <4>1, <3>1, <2>0, <1>1 DEF TellsLast
      <4>2. CASE j \notin 1 .. Len(w)
        BY <4>2, <2>0, <1>4
      <4> QED
        BY <4>1, <4>2
    <3>4. TellsLast(v, i) /\ c = CwdOf(v[i])
      BY <3>1, <3>2, <3>3 DEF TellsLast
    <3> QED
      BY <3>2, <3>4 DEF IsAt
  <2>2. CASE (\A i \in 1 .. Len(w) : ~Tells(w[i])) /\ c = CwdNow(s)
    <3>1. \A i \in 1 .. Len(v) : ~Tells(v[i])
      <4> TAKE i \in 1 .. Len(v)
      <4>1. Tells(v[i]) => i \in 1 .. Len(w) /\ v[i] = w[i]
        BY <1>1, <1>4
      <4> QED
        BY <4>1, <2>2
    <3> QED
      BY <3>1, <2>2 DEF IsAt
  <2> QED
    BY <2>1, <2>2, <1>6 DEF IsAt
<1>7. Told(s, v) = Told(s, w)
  BY <1>3 DEF Told
<1> QED
  BY <1>5, <1>6, <1>7 DEF v

\* What the shell sends, behind.
LEMMA SentBehind ==
    ASSUME NEW s, NEW w \in Seq(STRING), Framed(s, w), NEW sent \in Seq(STRING),
           Told(s, w) = Kept(sent),
           \A i \in DOMAIN sent : TellsLast(sent, i) => IsAt(s, w, CwdOf(sent[i])),
           NEW out \in Seq(STRING),
           \A i \in 1 .. Len(out) : out[i] \in Messages =>
               /\ i > 1 /\ out[i - 1] = "hook" /\ i < Len(out) /\ out[i + 1] = "unhook"
    PROVE  /\ Framed(s, w \o out) /\ Told(s, w \o out) = Kept(sent \o out)
           /\ \A i \in DOMAIN (sent \o out) :
                 TellsLast(sent \o out, i) => IsAt(s, w \o out, CwdOf((sent \o out)[i]))
<1> DEFINE v == w \o out
           u == sent \o out
<1>1. /\ v \in Seq(STRING) /\ Len(v) = Len(w) + Len(out) /\ Len(w) \in Nat /\ Len(out) \in Nat
      /\ \A i \in 1 .. Len(w) : v[i] = w[i]
      /\ \A i \in 1 .. Len(out) : v[Len(w) + i] = out[i]
      /\ \A i \in 1 .. Len(w) + Len(out) : i > Len(w) =>
            i - Len(w) \in 1 .. Len(out) /\ v[i] = out[i - Len(w)]
  BY ItemsOfBoth
<1>2. /\ u \in Seq(STRING) /\ Len(u) = Len(sent) + Len(out) /\ Len(sent) \in Nat
      /\ \A i \in 1 .. Len(sent) : u[i] = sent[i]
      /\ \A i \in 1 .. Len(out) : u[Len(sent) + i] = out[i]
      /\ \A i \in 1 .. Len(sent) + Len(out) : i > Len(sent) =>
            i - Len(sent) \in 1 .. Len(out) /\ u[i] = out[i - Len(sent)]
  BY ItemsOfBoth
<1>3. Told(s, v) = Kept(u)
  <2>1. Kept(v) = Kept(w) \o Kept(out) /\ Kept(w) \in Seq(STRING) /\ Kept(out) \in Seq(STRING)
    BY KeptOfBoth
  <2>2. Kept(u) = Kept(sent) \o Kept(out)
    BY KeptOfBoth
  <2>3. s.events \o Pending(s) \in Seq(STRING)
    <3>1. s.events \in Seq(STRING) /\ s.buf \in Seq(STRING)
      BY DEF Framed, Sniffers
    <3>2. Pending(s) \in Seq(STRING)
      BY <3>1, EmptySeq DEF Pending
    <3> QED
      BY <3>1, <3>2, ConcatProperties
  <2>4. Told(s, v) = Told(s, w) \o Kept(out)
    <3> DEFINE a == s.events \o Pending(s)
    <3> HIDE DEF a, v
    <3>0. a \in Seq(STRING)
      BY <2>3 DEF a
    <3>1. (a \o Kept(w)) \o Kept(out) = a \o (Kept(w) \o Kept(out))
      BY <2>1, <3>0, ConcatAssociative
    <3> QED
      BY <3>1, <2>1 DEF Told, a
  <2> QED
    BY <2>2, <2>4
<1> HIDE DEF v, u
<1>4. Framed(s, v)
  <2>1. \A i \in 1 .. Len(v) : v[i] \in Messages =>
          /\ i < Len(v) /\ v[i + 1] = "unhook"
          /\ IF i = 1 THEN s.in /\ s.buf = <<>> ELSE v[i - 1] = "hook"
    <3> TAKE i \in 1 .. Len(v)
    <3> HAVE v[i] \in Messages
    <3>1. CASE i <= Len(w)
      <4>1. i \in 1 .. Len(w) /\ w[i] \in Messages
        BY <3>1, <1>1
      <4>2. /\ i < Len(w) /\ w[i + 1] = "unhook"
            /\ IF i = 1 THEN s.in /\ s.buf = <<>> ELSE w[i - 1] = "hook"
        BY <4>1 DEF Framed
      <4>3. i + 1 \in 1 .. Len(w) /\ (i # 1 => i - 1 \in 1 .. Len(w))
        BY <4>1, <4>2, <1>1
      <4> QED
        BY <4>1, <4>2, <4>3, <1>1
    <3>2. CASE i > Len(w)
      <4> DEFINE j == i - Len(w)
      <4>1. j \in 1 .. Len(out) /\ v[i] = out[j]
        BY <3>2, <1>1
      <4>2. j > 1 /\ out[j - 1] = "hook" /\ j < Len(out) /\ out[j + 1] = "unhook"
        BY <4>1
      <4>3. /\ j - 1 \in 1 .. Len(out) /\ j + 1 \in 1 .. Len(out)
            /\ Len(w) + (j - 1) = i - 1 /\ Len(w) + (j + 1) = i + 1 /\ i # 1 /\ i < Len(v)
        BY <4>1, <4>2, <1>1
      <4>4. v[Len(w) + (j - 1)] = out[j - 1] /\ v[Len(w) + (j + 1)] = out[j + 1]
        BY <4>3, <1>1
      <4> QED
        BY <4>2, <4>3, <4>4
    <3> QED
      BY <3>1, <3>2, <1>1
  <2>2. Pending(s) # <<>> => Len(v) > 0 /\ v[1] = "unhook"
    <3> HAVE Pending(s) # <<>>
    <3>1. Len(w) > 0 /\ w[1] = "unhook"
      BY DEF Framed
    <3>2. 1 \in 1 .. Len(w)
      BY <3>1, <1>1
    <3> QED
      BY <3>1, <3>2, <1>1
  <2> QED
    BY <2>1, <2>2, <1>1 DEF Framed
<1>5. ASSUME NEW i \in DOMAIN u, TellsLast(u, i) PROVE IsAt(s, v, CwdOf(u[i]))
  <2>0. DOMAIN u = 1 .. Len(u) /\ DOMAIN v = 1 .. Len(v) /\ DOMAIN sent = 1 .. Len(sent) /\ DOMAIN w = 1 .. Len(w)
    BY <1>1, <1>2
  <2>1. CASE i > Len(sent)
    <3> DEFINE k == i - Len(sent)
               n == Len(w) + k
    <3>0. i \in 1 .. Len(sent) + Len(out)
      BY <2>0, <1>2
    <3>1. k \in 1 .. Len(out) /\ u[i] = out[k] /\ n \in 1 .. Len(v) /\ v[n] = out[k]
      <4>1. k \in 1 .. Len(out) /\ u[i] = out[k]
        BY <3>0, <2>1, <1>2
      <4>2. v[n] = out[k]
        BY <4>1, <1>1
      <4>3. n \in 1 .. Len(v)
        BY <4>1, <1>1
      <4> QED
        BY <4>1, <4>2, <4>3
    <3>2. \A j \in DOMAIN v : j > n => ~Tells(v[j])
      <4> TAKE j \in DOMAIN v
      <4> HAVE j > n
      <4> DEFINE m == Len(sent) + (j - Len(w))
      <4>1. j > Len(w) /\ j - Len(w) \in 1 .. Len(out) /\ v[j] = out[j - Len(w)]
        <5>1. j \in 1 .. Len(w) + Len(out) /\ j > Len(w)
          BY <3>1, <2>0, <1>1
        <5> QED
          BY <5>1, <1>1
      <4>2. m \in DOMAIN u /\ m > i /\ u[m] = out[j - Len(w)]
        <5>1. u[m] = out[j - Len(w)] /\ m \in 1 .. Len(u)
          BY <4>1, <1>2
        <5>2. m > i
          BY <3>0, <3>1, <4>1, <1>1, <1>2
        <5> QED
          BY <5>1, <5>2, <2>0
      <4> HIDE DEF m
      <4>3. ~Tells(u[m])
        BY <4>2, <1>5 DEF TellsLast
      <4> QED
        BY <4>1, <4>2, <4>3
    <3>3. TellsLast(v, n) /\ CwdOf(u[i]) = CwdOf(v[n])
      BY <3>1, <3>2, <1>5 DEF TellsLast
    <3> HIDE DEF n, k
    <3> QED
      BY <3>1, <3>3 DEF IsAt
  <2>2. CASE i <= Len(sent)
    <3>1. i \in DOMAIN sent /\ u[i] = sent[i]
      BY <2>2, <2>0, <1>2
    <3>2. \A k \in 1 .. Len(out) : ~Tells(out[k])
      <4> TAKE k \in 1 .. Len(out)
      <4>1. Len(sent) + k \in DOMAIN u /\ Len(sent) + k > i /\ u[Len(sent) + k] = out[k]
        BY <2>2, <2>0, <1>2
      <4> QED
        BY <4>1, <1>5 DEF TellsLast
    <3>3. TellsLast(sent, i)
      <4>1. \A j \in DOMAIN sent : j > i => ~Tells(sent[j])
        <5> TAKE j \in DOMAIN sent
        <5> HAVE j > i
        <5>1. j \in DOMAIN u /\ u[j] = sent[j]
          BY <2>0, <1>2
        <5> QED
          BY <5>1, <1>5 DEF TellsLast
      <4> QED
        BY <4>1, <3>1, <1>5 DEF TellsLast
    <3> DEFINE c == CwdOf(sent[i])
    <3>4. IsAt(s, w, c)
      BY <3>1, <3>3
    <3>5. \A j \in 1 .. Len(v) : Tells(v[j]) => j \in 1 .. Len(w)
      <4> TAKE j \in 1 .. Len(v)
      <4>1. j > Len(w) => ~Tells(v[j])
        BY <3>2, <1>1
      <4> QED
        BY <4>1, <1>1
    <3> HIDE DEF c
    <3>6. CASE \E j \in 1 .. Len(w) : TellsLast(w, j) /\ c = CwdOf(w[j])
      <4>1. PICK j \in 1 .. Len(w) : TellsLast(w, j) /\ c = CwdOf(w[j])
        BY <3>6
      <4>2. j \in 1 .. Len(v) /\ v[j] = w[j]
        BY <1>1
      <4>3. \A m \in DOMAIN v : m > j => ~Tells(v[m])
        <5> TAKE m \in DOMAIN v
        <5> HAVE m > j
        <5>1. CASE m \in 1 .. Len(w)
          BY <5>1, <4>1, <2>0, <1>1 DEF TellsLast
        <5>2. CASE m \notin 1 .. Len(w)
          BY <5>2, <2>0, <3>5
        <5> QED
          BY <5>1, <5>2
      <4>4. TellsLast(v, j) /\ c = CwdOf(v[j])
        BY <4>1, <4>2, <4>3 DEF TellsLast
      <4>5. IsAt(s, v, c)
        BY <4>2, <4>4 DEF IsAt
      <4> QED
        BY <4>5, <3>1 DEF c
    <3>7. CASE (\A j \in 1 .. Len(w) : ~Tells(w[j])) /\ c = CwdNow(s)
      <4>1. \A j \in 1 .. Len(v) : ~Tells(v[j])
        <5> TAKE j \in 1 .. Len(v)
        <5>1. Tells(v[j]) => j \in 1 .. Len(w) /\ v[j] = w[j]
          BY <1>1, <3>5
        <5> QED
          BY <5>1, <3>7
      <4>2. IsAt(s, v, c)
        BY <4>1, <3>7 DEF IsAt
      <4> QED
        BY <4>2, <3>1 DEF c
    <3> QED
      BY <3>4, <3>6, <3>7 DEF IsAt
  <2> QED
    BY <2>1, <2>2, <2>0, <1>2
<1> QED
  BY <1>3, <1>4, <1>5 DEF v, u

LEMMA BytesAfter ==
    ASSUME NEW c \in Seq(Item), NEW k \in Nat, k <= Len(c)
    PROVE  Bytes(After(c, k)) = After(Bytes(c), k)
<1>1. /\ After(c, k) \in Seq(Item) /\ Len(After(c, k)) = Len(c) - k
      /\ \A i \in 1 .. Len(c) - k : After(c, k)[i] = c[k + i]
  BY AfterProperties
<1>2. /\ Bytes(c) \in Seq(STRING) /\ Len(Bytes(c)) = Len(c) /\ Len(c) \in Nat
      /\ \A i \in 1 .. Len(c) : Bytes(c)[i] = c[i].byte
  BY BytesOfItems, LenProperties
<1>3. /\ After(Bytes(c), k) \in Seq(STRING) /\ Len(After(Bytes(c), k)) = Len(c) - k
      /\ \A i \in 1 .. Len(c) - k : After(Bytes(c), k)[i] = Bytes(c)[k + i]
  <2>1. \A q \in Seq(STRING), n \in Nat : n <= Len(q) =>
            /\ After(q, n) \in Seq(STRING) /\ Len(After(q, n)) = Len(q) - n
            /\ \A i \in 1 .. Len(q) - n : After(q, n)[i] = q[n + i]
    BY AfterProperties
  <2> QED
    BY <2>1, <1>2
<1>4. /\ Bytes(After(c, k)) \in Seq(STRING) /\ Len(Bytes(After(c, k))) = Len(c) - k
      /\ \A i \in 1 .. Len(c) - k : Bytes(After(c, k))[i] = After(c, k)[i].byte
  <2>1. \A q \in Seq(Item) : /\ Bytes(q) \in Seq(STRING) /\ Len(Bytes(q)) = Len(q)
                             /\ \A i \in 1 .. Len(q) : Bytes(q)[i] = q[i].byte
    BY BytesOfItems
  <2> QED
    BY <2>1, <1>1
<1> DEFINE l == Bytes(After(c, k))
           r == After(Bytes(c), k)
<1>5. ASSUME NEW i \in 1 .. Len(l) PROVE l[i] = r[i]
  <2>1. i \in 1 .. Len(c) - k /\ k + i \in 1 .. Len(c)
    BY <1>2, <1>4
  <2> QED
    BY <2>1, <1>1, <1>2, <1>3, <1>4
<1>6. l \in Seq(STRING) /\ r \in Seq(STRING) /\ Len(l) = Len(r)
  BY <1>3, <1>4
<1> HIDE DEF l, r
<1>7. l = r
  BY <1>5, <1>6, SeqEqual
<1> QED
  BY <1>7 DEF l, r

\* What a step of the reader takes, and what it leaves.
LEMMA ChunkIs ==
    ASSUME Kinds, NEW n \in 1 .. Len(wire)
    PROVE  LET chunk == SubSeq(wire, 1, n)
               x == Bytes(chunk)
               k == Matched(expected, x)
           IN  /\ chunk \in Seq(Item) /\ Len(chunk) = n /\ After(wire, n) \in Seq(Item)
               /\ \A i \in 1 .. n : chunk[i] = wire[i]
               /\ Len(After(wire, n)) = Len(wire) - n
               /\ \A i \in 1 .. Len(wire) - n : After(wire, n)[i] = wire[n + i]
               /\ x \in Seq(STRING) /\ Len(x) = n /\ \A i \in 1 .. n : x[i] = wire[i].byte
               /\ Bytes(wire) = x \o Bytes(After(wire, n))
               /\ k \in 0 .. n /\ k <= Len(expected) /\ \A i \in 1 .. k : x[i] = expected[i]
               /\ k < Len(expected) /\ k < n => expected[k + 1] # x[k + 1]
<1> DEFINE chunk == SubSeq(wire, 1, n)
           x == Bytes(chunk)
           k == Matched(expected, x)
<1>1. wire \in Seq(Item) /\ expected \in Seq(STRING) /\ Len(wire) \in Nat /\ n \in Nat /\ n <= Len(wire)
  BY LenProperties DEF Kinds
<1>2. chunk \in Seq(Item) /\ Len(chunk) = n /\ \A i \in 1 .. n : chunk[i] = wire[i]
  BY <1>1
<1>3. /\ After(wire, n) \in Seq(Item) /\ Len(After(wire, n)) = Len(wire) - n
      /\ \A i \in 1 .. Len(wire) - n : After(wire, n)[i] = wire[n + i]
  BY <1>1, AfterProperties
<1> HIDE DEF chunk
<1>4. x \in Seq(STRING) /\ Len(x) = n /\ \A i \in 1 .. n : x[i] = wire[i].byte
  BY <1>2, BytesOfItems
<1>5. wire = chunk \o After(wire, n)
  <2> DEFINE a == After(wire, n)
             r == chunk \o a
  <2> HIDE DEF a
  <2>0. a \in Seq(Item) /\ Len(a) = Len(wire) - n /\ \A i \in 1 .. Len(wire) - n : a[i] = wire[n + i]
    BY <1>3 DEF a
  <2>1. /\ r \in Seq(Item) /\ Len(r) = n + Len(a)
        /\ \A i \in 1 .. n : r[i] = chunk[i]
        /\ \A i \in 1 .. n + Len(a) : i > n => i - n \in 1 .. Len(a) /\ r[i] = a[i - n]
    <3>1. \A p, q \in Seq(Item) :
            /\ p \o q \in Seq(Item) /\ Len(p \o q) = Len(p) + Len(q)
            /\ \A i \in 1 .. Len(p) : (p \o q)[i] = p[i]
            /\ \A i \in 1 .. Len(p) + Len(q) : i > Len(p) =>
                 i - Len(p) \in 1 .. Len(q) /\ (p \o q)[i] = q[i - Len(p)]
      BY ItemsOfBoth
    <3> QED
      BY <3>1, <2>0, <1>2
  <2> HIDE DEF r
  <2>2. ASSUME NEW i \in 1 .. Len(wire) PROVE wire[i] = r[i]
    <3>1. CASE i <= n
      BY <3>1, <2>1, <1>1, <1>2
    <3>2. CASE i > n
      <4>1. i \in 1 .. n + Len(a) /\ n + (i - n) = i
        BY <2>0, <1>1
      <4>2. i - n \in 1 .. Len(a) /\ r[i] = a[i - n]
        BY <4>1, <3>2, <2>1
      <4>3. a[i - n] = wire[n + (i - n)]
        BY <4>2, <2>0
      <4> QED
        BY <4>1, <4>2, <4>3
    <3> QED
      BY <3>1, <3>2, <1>1
  <2>3. Len(wire) = Len(r)
    BY <2>0, <2>1, <1>1
  <2> QED
    BY <2>1, <2>2, <2>3, <1>1, SeqEqual DEF r, a
<1>6. Bytes(wire) = x \o Bytes(After(wire, n))
  BY <1>2, <1>3, <1>5, BytesOfConcat
<1> HIDE DEF x
<1>7. Agrees(expected, x, k)
  BY <1>1, <1>4, MatchedAgrees
<1>8. /\ k \in 0 .. n /\ k <= Len(expected) /\ \A i \in 1 .. k : x[i] = expected[i]
      /\ k < Len(expected) /\ k < n => expected[k + 1] # x[k + 1]
  BY <1>4, <1>7, <1>1 DEF Agrees
<1> HIDE DEF k
<1> QED
  BY <1>2, <1>3, <1>4, <1>6, <1>8 DEF chunk, x, k

\* What is left of the expectation is its end, or nothing.
LEMMA LeftIs ==
    ASSUME NEW e \in Seq(STRING), NEW b \in Seq(STRING)
    PROVE  \/ Left(e, b) = <<>> /\ Matched(e, b) # Len(b)
           \/ /\ Matched(e, b) = Len(b) /\ Len(b) <= Len(e)
              /\ Left(e, b) \in Seq(STRING) /\ Len(Left(e, b)) = Len(e) - Len(b)
              /\ \A i \in 1 .. Len(e) - Len(b) : Left(e, b)[i] = e[Len(b) + i]
<1>1. CASE Matched(e, b) # Len(b)
  BY <1>1 DEF Left
<1>2. CASE Matched(e, b) = Len(b)
  <2>1. Len(b) \in Nat /\ Len(b) <= Len(e)
    BY <1>2, MatchedAgrees DEF Agrees
  <2>2. Left(e, b) = After(e, Len(b))
    BY <1>2 DEF Left, After
  <2>3. /\ After(e, Len(b)) \in Seq(STRING) /\ Len(After(e, Len(b))) = Len(e) - Len(b)
        /\ \A i \in 1 .. Len(e) - Len(b) : After(e, Len(b))[i] = e[Len(b) + i]
    BY <2>1, AfterProperties
  <2> QED
    BY <1>2, <2>1, <2>2, <2>3
<1> QED
  BY <1>1, <1>2

\* What each action does to the ghost.
LEMMA GhostsStay == ASSUME FilterInv, ghost \in Ghosts, [FilterNext]_filterVars PROVE ghost' \in Ghosts
<1>1. ASSUME NEW line \in Lines, Write(line) PROVE ghost' \in Ghosts
  <2>1. Expect(line) \in Seq(STRING)
    BY StreamAssumption
  <2>2. ghost' = [ghost EXCEPT !.echo = Expect(line), !.since = <<>>, !.shown = <<>>,
                               !.writes = @ + 1, !.alone = @ /\ expected = <<>> /\ wire = <<>>]
    BY <1>1 DEF Write
  <2>3. <<>> \in Seq(Item)
    BY EmptySeq
  <2>4. ghost.writes + 1 \in Nat /\ (ghost.alone /\ expected = <<>> /\ wire = <<>>) \in BOOLEAN
    BY DEF Ghosts
  <2> DEFINE a == ghost.alone /\ expected = <<>> /\ wire = <<>>
             m == ghost.writes + 1
             e == Expect(line)
  <2>5. ghost' = [ghost EXCEPT !.echo = e, !.since = <<>>, !.shown = <<>>,
                               !.writes = m, !.alone = a]
    BY <2>2
  <2>6. e \in Seq(STRING) /\ m \in Nat /\ a \in BOOLEAN
    BY <2>1, <2>4
  <2> HIDE DEF a, m, e
  <2> QED
    BY <2>3, <2>5, <2>6 DEF Ghosts
<1>2. ASSUME NEW out \in Outputs, Output(out) PROVE ghost' \in Ghosts
  <2>1. ghost' = [ghost EXCEPT !.outputs = @ + 1, !.sent = ghost.sent \o out]
    BY <1>2 DEF Output
  <2>2. ghost.sent \in Seq(STRING)
    BY DEF Ghosts
  <2>4. out \in Seq(STRING)
    BY StreamAssumption
  <2>3. ghost.sent \o out \in Seq(STRING)
    BY <2>2, <2>4, ConcatProperties
  <2>5. ghost.outputs + 1 \in Nat
    BY DEF Ghosts
  <2> DEFINE m == ghost.outputs + 1
             u == ghost.sent \o out
  <2>6. ghost' = [ghost EXCEPT !.outputs = m, !.sent = u]
    BY <2>1
  <2>7. m \in Nat /\ u \in Seq(STRING)
    BY <2>3, <2>5
  <2> HIDE DEF m, u
  <2> QED
    BY <2>6, <2>7 DEF Ghosts
<1>3. ASSUME NEW n \in 1 .. Len(wire), Feed(n) PROVE ghost' \in Ghosts
  <2> DEFINE chunk == SubSeq(wire, 1, n)
             k == Matched(expected, Bytes(chunk))
             rest == After(chunk, k)
  <2>1. ghost' = [ghost EXCEPT !.since = ghost.since \o chunk, !.shown = ghost.shown \o rest,
                               !.dropped = @ \cup {chunk[i] : i \in 1 .. k}]
    BY <1>3 DEF Feed
  <2>0. Kinds
    BY DEF FilterInv
  <2>2. chunk \in Seq(Item) /\ Len(chunk) = n /\ k \in 0 .. n
    BY <2>0, ChunkIs
  <2> HIDE DEF chunk, k
  <2>3. rest \in Seq(Item)
    BY <2>2, AfterProperties
  <2>4. {chunk[i] : i \in 1 .. k} \in SUBSET Item
    BY <2>2
  <2> HIDE DEF rest
  <2>5. ghost.since \o chunk \in Seq(Item) /\ ghost.shown \o rest \in Seq(Item)
    BY <2>2, <2>3, ConcatProperties DEF Ghosts
  <2> QED
    BY <2>1, <2>4, <2>5 DEF Ghosts
<1>4. CASE UNCHANGED filterVars
  BY <1>4 DEF filterVars
<1> QED
  BY <1>1, <1>2, <1>3, <1>4 DEF FilterNext

\* What Termica writes is plain, with its echo or without.
LEMMA WrittenIs ==
    ASSUME StreamIsPlain, Kinds, NEW line \in Lines, Write(line)
    PROVE  \E p \in Seq(STRING) :
              /\ \A i \in 1 .. Len(p) : Plain(p[i])
              /\ wire' = wire \o Tagged(p, "echo")
              /\ p = expected' \/ p = <<>>
              /\ Bytes(wire') = Bytes(wire) \o p
              /\ expected' = Expect(line) /\ expected' \in Seq(STRING)
              /\ \A i \in 1 .. Len(expected') : Plain(expected'[i])
<1>1. /\ TtyEcho(line) \in Seq(STRING) /\ Expect(line) = TtyEcho(line)
      /\ \A i \in 1 .. Len(TtyEcho(line)) : Plain(TtyEcho(line)[i])
  <2>1. TtyEcho(line) \in Seq(STRING)
    BY StreamAssumption
  <2>2. DOMAIN TtyEcho(line) = 1 .. Len(TtyEcho(line))
    BY <2>1
  <2> QED
    BY <2>1, <2>2 DEF StreamIsPlain, Expect
<1>2. PICK echo \in BOOLEAN :
         wire' = wire \o Tagged(IF echo THEN TtyEcho(line) ELSE <<>>, "echo")
  BY DEF Write
<1> DEFINE p == IF echo THEN TtyEcho(line) ELSE <<>>
<1>3. p \in Seq(STRING) /\ \A i \in 1 .. Len(p) : Plain(p[i])
  <2>1. CASE echo
    BY <1>1, <2>1
  <2>2. CASE ~echo
    <3>1. p = <<>>
      BY <2>2
    <3> HIDE DEF p
    <3> QED
      BY <3>1, EmptySeq
  <2> QED
    BY <2>1, <2>2
<1>4. wire' = wire \o Tagged(p, "echo")
  BY <1>2
<1>5. p = TtyEcho(line) \/ p = <<>>
  OBVIOUS
<1>6. expected' = TtyEcho(line)
  BY <1>1 DEF Write
<1> HIDE DEF p
<1>7. Bytes(wire') = Bytes(wire) \o p
  <2>1. "echo" \in {"echo", "out"} /\ wire \in Seq(Item)
    BY DEF Kinds
  <2>2. Tagged(p, "echo") \in Seq(Item) /\ Bytes(Tagged(p, "echo")) = p
    BY <1>3, <2>1, TaggedAre
  <2>3. Bytes(wire \o Tagged(p, "echo")) = Bytes(wire) \o Bytes(Tagged(p, "echo"))
    BY <2>1, <2>2, BytesOfConcat
  <2> QED
    BY <1>4, <2>2, <2>3
<1> QED
  BY <1>1, <1>3, <1>4, <1>5, <1>6, <1>7

\* Each action keeps the markers whole.
LEMMA MarkersStay ==
    ASSUME StreamIsPlain, FilterInv, ghost \in Ghosts, MarkersWhole, [FilterNext]_filterVars
    PROVE  MarkersWhole'
<1>0. Kinds /\ wire \in Seq(Item) /\ expected \in Seq(STRING) /\ ghost.sent \in Seq(STRING)
  BY DEF FilterInv, Kinds, Ghosts
<1> DEFINE w == Bytes(wire)
<1>1. w \in Seq(STRING)
  BY <1>0, BytesOfItems
<1>2. /\ Framed(sniffer, w) /\ Told(sniffer, w) = Kept(ghost.sent)
      /\ \A i \in DOMAIN ghost.sent : TellsLast(ghost.sent, i) => IsAt(sniffer, w, CwdOf(ghost.sent[i]))
      /\ \A i \in 1 .. Len(expected) : Plain(expected[i])
  BY DEF MarkersWhole
<1> HIDE DEF w
<1>3. ASSUME NEW line \in Lines, Write(line) PROVE MarkersWhole'
  <2>1. PICK p \in Seq(STRING) :
              /\ \A i \in 1 .. Len(p) : Plain(p[i])
              /\ Bytes(wire') = w \o p
              /\ \A i \in 1 .. Len(expected') : Plain(expected'[i])
    BY <1>0, <1>3, WrittenIs DEF w
  <2>2. sniffer' = sniffer /\ ghost'.sent = ghost.sent
    <3>1. ghost' = [ghost EXCEPT !.echo = Expect(line), !.since = <<>>, !.shown = <<>>,
                                 !.writes = @ + 1, !.alone = @ /\ expected = <<>> /\ wire = <<>>]
      BY <1>3 DEF Write
    <3> QED
      BY <3>1, <1>3 DEF Write, Ghosts
  <2>3. /\ Framed(sniffer, w \o p) /\ Told(sniffer, w \o p) = Told(sniffer, w)
        /\ \A c : IsAt(sniffer, w, c) => IsAt(sniffer, w \o p, c)
    BY <1>1, <1>2, <2>1, PlainBehind
  <2>4. /\ Framed(sniffer', Bytes(wire'))
        /\ Told(sniffer', Bytes(wire')) = Kept(ghost'.sent)
        /\ \A i \in DOMAIN ghost'.sent :
              TellsLast(ghost'.sent, i) => IsAt(sniffer', Bytes(wire'), CwdOf(ghost'.sent[i]))
    BY <2>1, <2>2, <2>3, <1>2
  <2> QED
    BY <2>1, <2>4 DEF MarkersWhole
<1>4. ASSUME NEW out \in Outputs, Output(out) PROVE MarkersWhole'
  <2>1. out \in Seq(STRING)
    BY StreamAssumption
  <2>2. \A i \in 1 .. Len(out) : out[i] \in Messages =>
               /\ i > 1 /\ out[i - 1] = "hook" /\ i < Len(out) /\ out[i + 1] = "unhook"
    <3>1. DOMAIN out = 1 .. Len(out)
      BY <2>1
    <3> QED
      BY <3>1 DEF StreamIsPlain
  <2>3. Bytes(wire') = w \o out
    <3>1. "out" \in {"echo", "out"}
      OBVIOUS
    <3>2. Tagged(out, "out") \in Seq(Item) /\ Bytes(Tagged(out, "out")) = out
      BY <2>1, <3>1, TaggedAre
    <3>3. Bytes(wire \o Tagged(out, "out")) = Bytes(wire) \o Bytes(Tagged(out, "out"))
      BY <1>0, <3>2, BytesOfConcat
    <3>4. wire' = wire \o Tagged(out, "out")
      BY <1>4 DEF Output
    <3> QED
      BY <3>2, <3>3, <3>4 DEF w
  <2>4. sniffer' = sniffer /\ expected' = expected /\ ghost'.sent = ghost.sent \o out
    <3>1. ghost' = [ghost EXCEPT !.outputs = @ + 1, !.sent = ghost.sent \o out]
      BY <1>4 DEF Output
    <3> QED
      BY <3>1, <1>4 DEF Output, Ghosts
  <2>5. /\ Framed(sniffer, w \o out) /\ Told(sniffer, w \o out) = Kept(ghost.sent \o out)
        /\ \A i \in DOMAIN (ghost.sent \o out) :
              TellsLast(ghost.sent \o out, i) => IsAt(sniffer, w \o out, CwdOf((ghost.sent \o out)[i]))
    <3> DEFINE sent == ghost.sent
    <3>1. /\ sent \in Seq(STRING) /\ Told(sniffer, w) = Kept(sent)
          /\ \A i \in DOMAIN sent : TellsLast(sent, i) => IsAt(sniffer, w, CwdOf(sent[i]))
      BY <1>0, <1>2
    <3> HIDE DEF sent
    <3>2. /\ Framed(sniffer, w \o out) /\ Told(sniffer, w \o out) = Kept(sent \o out)
          /\ \A i \in DOMAIN (sent \o out) :
              TellsLast(sent \o out, i) => IsAt(sniffer, w \o out, CwdOf((sent \o out)[i]))
      BY <1>1, <1>2, <2>1, <2>2, <3>1, SentBehind
    <3> QED
      BY <3>2 DEF sent
  <2>6. /\ Framed(sniffer', Bytes(wire'))
        /\ Told(sniffer', Bytes(wire')) = Kept(ghost'.sent)
        /\ \A i \in DOMAIN ghost'.sent :
              TellsLast(ghost'.sent, i) => IsAt(sniffer', Bytes(wire'), CwdOf(ghost'.sent[i]))
    BY <2>3, <2>4, <2>5
  <2> QED
    BY <2>4, <2>6, <1>2 DEF MarkersWhole
<1>5. ASSUME NEW n \in 1 .. Len(wire), Feed(n) PROVE MarkersWhole'
  <2> DEFINE chunk == SubSeq(wire, 1, n)
             x == Bytes(chunk)
             y == Bytes(After(wire, n))
             k == Matched(expected, x)
             z == Bytes(After(chunk, k))
  <2>1. /\ chunk \in Seq(Item) /\ Len(chunk) = n /\ After(wire, n) \in Seq(Item)
        /\ x \in Seq(STRING) /\ Len(x) = n /\ w = x \o y
        /\ k \in 0 .. n /\ k <= Len(expected) /\ \A i \in 1 .. k : x[i] = expected[i]
    BY <1>0, ChunkIs DEF w
  <2>2. y \in Seq(STRING)
    BY <2>1, BytesOfItems
  <2>3. /\ expected' = Left(expected, x) /\ wire' = After(wire, n)
        /\ sniffer' = FeedBytes(sniffer, z) /\ ghost'.sent = ghost.sent
    <3>1. ghost' = [ghost EXCEPT !.since = ghost.since \o chunk, !.shown = ghost.shown \o After(chunk, k),
                                 !.dropped = @ \cup {chunk[i] : i \in 1 .. k}]
      BY <1>5 DEF Feed
    <3>2. expected' = Left(expected, x) /\ wire' = After(wire, n) /\ sniffer' = FeedBytes(sniffer, z)
      BY <1>5 DEF Feed
    <3> HIDE DEF chunk, x, k, z
    <3> QED
      BY <3>1, <3>2 DEF Ghosts
  <2> HIDE DEF chunk, y, k
  <2>4. z = After(x, k)
    <3>1. k \in Nat /\ k <= Len(chunk)
      BY <2>1
    <3> QED
      BY <2>1, <3>1, BytesAfter
  <2> HIDE DEF x, z
  <2>5. \A i \in 1 .. k : Plain(x[i])
    BY <1>0, <1>2, <2>1
  <2>6. /\ Framed(FeedBytes(sniffer, z), y) /\ Told(FeedBytes(sniffer, z), y) = Told(sniffer, w)
        /\ \A c : IsAt(sniffer, w, c) => IsAt(FeedBytes(sniffer, z), y, c)
    <3>1. k \in 0 .. Len(x) /\ Framed(sniffer, x \o y)
      BY <1>2, <2>1
    <3>2. LET t == FeedBytes(sniffer, After(x, k))
          IN  /\ Framed(t, y) /\ Told(t, y) = Told(sniffer, x \o y)
              /\ \A c : IsAt(sniffer, x \o y, c) => IsAt(t, y, c)
      BY <2>1, <2>2, <2>5, <3>1, ChunkOn
    <3> QED
      BY <3>2, <2>1, <2>4
  <2>7. /\ Framed(sniffer', Bytes(wire'))
        /\ Told(sniffer', Bytes(wire')) = Kept(ghost'.sent)
        /\ \A i \in DOMAIN ghost'.sent :
              TellsLast(ghost'.sent, i) => IsAt(sniffer', Bytes(wire'), CwdOf(ghost'.sent[i]))
    BY <2>3, <2>6, <1>2 DEF y
  <2>8. \A i \in 1 .. Len(expected') : Plain(expected'[i])
    <3>1. CASE expected' = <<>>
      BY <3>1, EmptySeq
    <3>2. CASE /\ n <= Len(expected) /\ expected' \in Seq(STRING) /\ Len(expected') = Len(expected) - n
               /\ \A i \in 1 .. Len(expected) - n : expected'[i] = expected[n + i]
      BY <3>2, <1>0, <1>2, <2>1
    <3>3. Len(x) = n /\ x \in Seq(STRING) /\ expected \in Seq(STRING) /\ expected' = Left(expected, x)
      BY <1>0, <2>1, <2>3
    <3>4. \/ Left(expected, x) = <<>> /\ Matched(expected, x) # Len(x)
          \/ /\ Matched(expected, x) = Len(x) /\ Len(x) <= Len(expected)
             /\ Left(expected, x) \in Seq(STRING) /\ Len(Left(expected, x)) = Len(expected) - Len(x)
             /\ \A i \in 1 .. Len(expected) - Len(x) : Left(expected, x)[i] = expected[Len(x) + i]
      BY <3>3, LeftIs
    <3> QED
      BY <3>1, <3>2, <3>3, <3>4
  <2> QED
    BY <2>7, <2>8 DEF MarkersWhole
<1>6. CASE UNCHANGED filterVars
  BY <1>6 DEF filterVars, MarkersWhole
<1> QED
  BY <1>3, <1>4, <1>5, <1>6 DEF FilterNext

\* Each action keeps the echoes ahead.
LEMMA EchoesStay ==
    ASSUME StreamIsPlain, FilterInv, ghost \in Ghosts, EchoAhead, [FilterNext]_filterVars
    PROVE  EchoAhead'
<1>0. /\ Kinds /\ wire \in Seq(Item) /\ expected \in Seq(STRING) /\ ghost.shown \in Seq(Item)
      /\ ghost.alone \in BOOLEAN /\ Len(wire) \in Nat /\ Len(expected) \in Nat
  BY LenProperties DEF FilterInv, Kinds, Ghosts
<1>1. ASSUME NEW line \in Lines, Write(line) PROVE EchoAhead'
  <2>1. PICK p \in Seq(STRING) :
           wire' = wire \o Tagged(p, "echo") /\ (p = expected' \/ p = <<>>) /\ expected' \in Seq(STRING)
    BY <1>0, <1>1, WrittenIs
  <2>2. /\ ghost'.shown = <<>>
        /\ ghost'.alone = (ghost.alone /\ expected = <<>> /\ wire = <<>>)
    <3>1. ghost' = [ghost EXCEPT !.echo = Expect(line), !.since = <<>>, !.shown = <<>>,
                                 !.writes = @ + 1, !.alone = @ /\ expected = <<>> /\ wire = <<>>]
      BY <1>1 DEF Write
    <3> QED
      BY <3>1 DEF Ghosts
  <2>3. SUFFICES ASSUME ghost'.alone
                  PROVE  \/ \A i \in 1 .. Len(wire') : wire'[i].from = "out"
                         \/ /\ Len(expected') <= Len(wire')
                            /\ \A i \in 1 .. Len(expected') : wire'[i].byte = expected'[i]
                            /\ \A i \in 1 .. Len(wire') : i > Len(expected') => wire'[i].from = "out"
    <3>1. \A i \in 1 .. Len(ghost'.shown) : ghost'.shown[i].from = "out"
      BY <2>2, EmptySeq
    <3> QED
      BY <3>1 DEF EchoAhead
  <2>4. wire = <<>>
    BY <2>2, <2>3
  <2>5. "echo" \in {"echo", "out"}
    OBVIOUS
  <2>6. /\ Tagged(p, "echo") \in Seq(Item) /\ Len(Tagged(p, "echo")) = Len(p)
        /\ \A i \in 1 .. Len(p) : Tagged(p, "echo")[i].byte = p[i]
    BY <2>5, TaggedAre
  <2>7. wire' = Tagged(p, "echo")
    BY <2>1, <2>4, <2>6, ConcatEmptySeq
  <2>8. CASE p = expected'
    <3>1. Len(wire') = Len(expected') /\ Len(wire') \in Nat
      BY <2>1, <2>6, <2>7, <2>8, LenProperties
    <3>2. \A i \in 1 .. Len(expected') : wire'[i].byte = expected'[i]
      BY <2>6, <2>7, <2>8
    <3>3. \A i \in 1 .. Len(wire') : ~(i > Len(expected'))
      BY <3>1
    <3> QED
      BY <3>1, <3>2, <3>3
  <2>9. CASE p = <<>>
    BY <2>6, <2>7, <2>9, EmptySeq
  <2> QED
    BY <2>1, <2>8, <2>9
<1>2. ASSUME NEW out \in Outputs, Output(out) PROVE EchoAhead'
  <2>1. "out" \in {"echo", "out"} /\ out \in Seq(STRING)
    BY StreamAssumption
  <2> DEFINE t == Tagged(out, "out")
  <2>2. t \in Seq(Item) /\ Len(t) = Len(out) /\ \A i \in 1 .. Len(out) : t[i].from = "out"
    BY <2>1, TaggedAre
  <2>3. /\ expected' = expected /\ wire' = wire \o t
        /\ ghost'.shown = ghost.shown /\ ghost'.alone = ghost.alone
    <3>1. ghost' = [ghost EXCEPT !.outputs = @ + 1, !.sent = ghost.sent \o out]
      BY <1>2 DEF Output
    <3> QED
      BY <3>1, <1>2 DEF Output, Ghosts
  <2> HIDE DEF t
  <2>4. /\ Len(wire') = Len(wire) + Len(t) /\ Len(t) \in Nat
        /\ \A i \in 1 .. Len(wire) : wire'[i] = wire[i]
        /\ \A i \in 1 .. Len(wire) + Len(t) : i > Len(wire) =>
              i - Len(wire) \in 1 .. Len(t) /\ wire'[i] = t[i - Len(wire)]
    <3>1. \A p, q \in Seq(Item) :
            /\ Len(p \o q) = Len(p) + Len(q) /\ Len(q) \in Nat
            /\ \A i \in 1 .. Len(p) : (p \o q)[i] = p[i]
            /\ \A i \in 1 .. Len(p) + Len(q) : i > Len(p) =>
                 i - Len(p) \in 1 .. Len(q) /\ (p \o q)[i] = q[i - Len(p)]
      BY ItemsOfBoth
    <3> QED
      BY <1>0, <2>2, <2>3, <3>1
  <2>5. \A i \in 1 .. Len(wire') : i > Len(wire) => wire'[i].from = "out"
    BY <2>2, <2>4, <1>0
  <2>6. SUFFICES ASSUME ghost.alone
                 PROVE  \/ \A i \in 1 .. Len(wire') : wire'[i].from = "out"
                        \/ /\ Len(expected) <= Len(wire')
                           /\ \A i \in 1 .. Len(expected) : wire'[i].byte = expected[i]
                           /\ \A i \in 1 .. Len(wire') : i > Len(expected) => wire'[i].from = "out"
    BY <2>3 DEF EchoAhead
  <2>7. CASE \A i \in 1 .. Len(wire) : wire[i].from = "out"
    <3>1. \A i \in 1 .. Len(wire') : wire'[i].from = "out"
      <4> TAKE i \in 1 .. Len(wire')
      <4>1. CASE i <= Len(wire)
        BY <4>1, <2>4, <2>7, <1>0
      <4>2. CASE i > Len(wire)
        BY <4>2, <2>5
      <4> QED
        BY <4>1, <4>2, <2>4, <1>0
    <3> QED
      BY <3>1
  <2>8. CASE /\ Len(expected) <= Len(wire)
             /\ \A i \in 1 .. Len(expected) : wire[i].byte = expected[i]
             /\ \A i \in 1 .. Len(wire) : i > Len(expected) => wire[i].from = "out"
    <3>1. Len(expected) <= Len(wire') /\ \A i \in 1 .. Len(expected) : wire'[i].byte = expected[i]
      BY <2>4, <2>8, <1>0
    <3>2. \A i \in 1 .. Len(wire') : i > Len(expected) => wire'[i].from = "out"
      <4> TAKE i \in 1 .. Len(wire')
      <4>1. CASE i <= Len(wire)
        BY <4>1, <2>4, <2>8, <1>0
      <4>2. CASE i > Len(wire)
        BY <4>2, <2>5
      <4> QED
        BY <4>1, <4>2, <2>4, <1>0
    <3> QED
      BY <3>1, <3>2
  <2> QED
    BY <2>6, <2>7, <2>8 DEF EchoAhead
<1>3. ASSUME NEW n \in 1 .. Len(wire), Feed(n) PROVE EchoAhead'
  <2> DEFINE chunk == SubSeq(wire, 1, n)
             x == Bytes(chunk)
             k == Matched(expected, x)
             rest == After(chunk, k)
             left == After(wire, n)
  <2>1. /\ chunk \in Seq(Item) /\ Len(chunk) = n
        /\ \A i \in 1 .. n : chunk[i] = wire[i]
        /\ Len(left) = Len(wire) - n /\ \A i \in 1 .. Len(wire) - n : left[i] = wire[n + i]
        /\ x \in Seq(STRING) /\ Len(x) = n /\ \A i \in 1 .. n : x[i] = wire[i].byte
        /\ k \in 0 .. n /\ k <= Len(expected)
        /\ k < Len(expected) /\ k < n => expected[k + 1] # x[k + 1]
    BY <1>0, ChunkIs
  <2>2. /\ expected' = Left(expected, x) /\ wire' = left
        /\ ghost'.shown = ghost.shown \o rest /\ ghost'.alone = ghost.alone
    <3>1. ghost' = [ghost EXCEPT !.since = ghost.since \o chunk, !.shown = ghost.shown \o rest,
                                 !.dropped = @ \cup {chunk[i] : i \in 1 .. k}]
      BY <1>3 DEF Feed
    <3>2. expected' = Left(expected, x) /\ wire' = left
      BY <1>3 DEF Feed
    <3> HIDE DEF chunk, x, k, rest, left
    <3> QED
      BY <3>1, <3>2 DEF Ghosts
  <2> HIDE DEF chunk, k, left
  <2>3. rest \in Seq(Item) /\ Len(rest) = n - k /\ \A i \in 1 .. n - k : rest[i] = wire[k + i]
    <3>1. k \in Nat /\ k <= Len(chunk)
      BY <2>1
    <3>2. rest \in Seq(Item) /\ Len(rest) = Len(chunk) - k /\ \A i \in 1 .. Len(chunk) - k : rest[i] = chunk[k + i]
      <4>1. \A q \in Seq(Item), m \in Nat : m <= Len(q) =>
               /\ After(q, m) \in Seq(Item) /\ Len(After(q, m)) = Len(q) - m
               /\ \A i \in 1 .. Len(q) - m : After(q, m)[i] = q[m + i]
        BY AfterProperties
      <4> QED
        BY <2>1, <3>1, <4>1
    <3>3. \A i \in 1 .. n - k : k + i \in 1 .. n
      BY <2>1
    <3> HIDE DEF rest
    <3> QED
      BY <2>1, <3>2, <3>3
  <2>4. \/ expected' = <<>> /\ k # n
        \/ /\ k = n /\ n <= Len(expected) /\ Len(expected') = Len(expected) - n
           /\ \A i \in 1 .. Len(expected) - n : expected'[i] = expected[n + i]
    <3>1. Len(x) = n /\ x \in Seq(STRING) /\ expected \in Seq(STRING) /\ expected' = Left(expected, x)
          /\ k = Matched(expected, x)
      BY <1>0, <2>1, <2>2 DEF k
    <3>4. \/ Left(expected, x) = <<>> /\ Matched(expected, x) # Len(x)
          \/ /\ Matched(expected, x) = Len(x) /\ Len(x) <= Len(expected)
             /\ Left(expected, x) \in Seq(STRING) /\ Len(Left(expected, x)) = Len(expected) - Len(x)
             /\ \A i \in 1 .. Len(expected) - Len(x) : Left(expected, x)[i] = expected[Len(x) + i]
      BY <3>1, LeftIs
    <3> HIDE DEF x
    <3> QED
      BY <3>1, <3>4
  <2> HIDE DEF rest, x
  <2>5. SUFFICES ASSUME ghost.alone PROVE EchoAhead'
    BY <2>2 DEF EchoAhead
  <2>6. \A i \in 1 .. Len(ghost.shown) : ghost.shown[i].from = "out"
    BY <2>5 DEF EchoAhead
  <2>7. ASSUME \A i \in 1 .. Len(rest) : rest[i].from = "out"
        PROVE  \A i \in 1 .. Len(ghost'.shown) : ghost'.shown[i].from = "out"
    <3> DEFINE s == ghost.shown
               u == s \o rest
    <3>1. s \in Seq(Item) /\ \A i \in 1 .. Len(s) : s[i].from = "out"
      BY <1>0, <2>6
    <3> HIDE DEF s
    <3>2. /\ Len(u) = Len(s) + Len(rest) /\ Len(s) \in Nat /\ Len(rest) \in Nat
          /\ \A i \in 1 .. Len(s) : u[i] = s[i]
          /\ \A i \in 1 .. Len(s) + Len(rest) : i > Len(s) =>
               i - Len(s) \in 1 .. Len(rest) /\ u[i] = rest[i - Len(s)]
      BY <2>3, <3>1, ItemsOfBoth
    <3> HIDE DEF u
    <3>3. \A i \in 1 .. Len(u) : u[i].from = "out"
      <4> TAKE i \in 1 .. Len(u)
      <4>1. CASE i <= Len(s)
        BY <4>1, <3>1, <3>2
      <4>2. CASE i > Len(s)
        BY <4>2, <3>2, <2>7
      <4> QED
        BY <4>1, <4>2, <3>2
    <3> QED
      BY <3>3, <2>2 DEF u, s
  <2>8. CASE \A i \in 1 .. Len(wire) : wire[i].from = "out"
    <3>1. \A i \in 1 .. Len(rest) : rest[i].from = "out"
      BY <2>1, <2>3, <2>8, <1>0
    <3>2. \A i \in 1 .. Len(wire') : wire'[i].from = "out"
      <4> TAKE i \in 1 .. Len(wire')
      <4>1. i \in 1 .. Len(wire) - n /\ n + i \in 1 .. Len(wire)
        BY <2>1, <2>2, <1>0
      <4> QED
        BY <4>1, <2>1, <2>2, <2>8
    <3> QED
      BY <3>1, <3>2, <2>7 DEF EchoAhead
  <2>9. CASE /\ Len(expected) <= Len(wire)
             /\ \A i \in 1 .. Len(expected) : wire[i].byte = expected[i]
             /\ \A i \in 1 .. Len(wire) : i > Len(expected) => wire[i].from = "out"
    <3>1. k = n \/ k = Len(expected)
      <4>1. SUFFICES ASSUME k < Len(expected), k < n PROVE FALSE
        BY <2>1, <1>0
      <4>2. k + 1 \in 1 .. n /\ k + 1 \in 1 .. Len(expected)
        BY <4>1, <2>1, <1>0
      <4>3. x[k + 1] = wire[k + 1].byte /\ wire[k + 1].byte = expected[k + 1]
        BY <4>2, <2>1, <2>9
      <4> QED
        BY <4>1, <4>3, <2>1
    <3>2. \A i \in 1 .. Len(rest) : rest[i].from = "out"
      <4> TAKE i \in 1 .. Len(rest)
      <4>1. i \in 1 .. n - k /\ k + i \in 1 .. Len(wire) /\ k = Len(expected) /\ k + i > Len(expected)
        BY <3>1, <2>1, <2>3, <1>0
      <4> QED
        BY <4>1, <2>3, <2>9
    <3>3. CASE expected' = <<>> /\ k # n
      <4>1. \A i \in 1 .. Len(wire') : wire'[i].from = "out"
        <5> TAKE i \in 1 .. Len(wire')
        <5>1. i \in 1 .. Len(wire) - n /\ n + i \in 1 .. Len(wire) /\ n + i > Len(expected)
          BY <3>1, <3>3, <2>1, <2>2, <1>0
        <5> QED
          BY <5>1, <2>1, <2>2, <2>9
      <4> QED
        BY <4>1, <3>2, <2>7 DEF EchoAhead
    <3>4. CASE /\ k = n /\ n <= Len(expected) /\ Len(expected') = Len(expected) - n
               /\ \A i \in 1 .. Len(expected) - n : expected'[i] = expected[n + i]
      <4>1. Len(expected') <= Len(wire')
        BY <3>4, <2>1, <2>2, <2>9, <1>0
      <4>2. \A i \in 1 .. Len(expected') : wire'[i].byte = expected'[i]
        <5> TAKE i \in 1 .. Len(expected')
        <5>1. i \in 1 .. Len(expected) - n /\ i \in 1 .. Len(wire) - n /\ n + i \in 1 .. Len(expected)
          BY <3>4, <2>1, <2>9, <1>0
        <5>2. wire'[i] = wire[n + i] /\ expected'[i] = expected[n + i]
          BY <5>1, <3>4, <2>1, <2>2
        <5> QED
          BY <5>1, <5>2, <2>9
      <4>3. \A i \in 1 .. Len(wire') : i > Len(expected') => wire'[i].from = "out"
        <5> TAKE i \in 1 .. Len(wire')
        <5> HAVE i > Len(expected')
        <5>1. i \in 1 .. Len(wire) - n /\ n + i \in 1 .. Len(wire) /\ n + i > Len(expected)
          BY <3>4, <2>1, <2>2, <1>0
        <5> QED
          BY <5>1, <2>1, <2>2, <2>9
      <4> QED
        BY <4>1, <4>2, <4>3, <3>2, <2>7 DEF EchoAhead
    <3> QED
      BY <3>3, <3>4, <2>4
  <2> QED
    BY <2>5, <2>8, <2>9 DEF EchoAhead
<1>4. CASE UNCHANGED filterVars
  BY <1>4 DEF filterVars, EchoAhead
<1> QED
  BY <1>1, <1>2, <1>3, <1>4 DEF FilterNext

\* With nothing on the wire every marker has arrived.
LEMMA MarkersHaveCome ==
    ASSUME FilterInv, ghost \in Ghosts, MarkersWhole
    PROVE  EveryMarkerArrives
<1>1. SUFFICES ASSUME wire = <<>>
               PROVE  /\ sniffer.events = Kept(ghost.sent)
                      /\ \A i \in DOMAIN ghost.sent :
                            TellsLast(ghost.sent, i) => sniffer.cwd = CwdOf(ghost.sent[i])
  BY DEF EveryMarkerArrives
<1> DEFINE w == Bytes(wire)
<1>2. w \in Seq(STRING) /\ Len(w) = 0
  <2>1. wire \in Seq(Item) /\ Len(wire) = 0
    BY <1>1, EmptySeq
  <2> QED
    BY <2>1, BytesOfItems
<1> HIDE DEF w
<1>3. /\ Framed(sniffer, w) /\ Told(sniffer, w) = Kept(ghost.sent)
      /\ \A i \in DOMAIN ghost.sent : TellsLast(ghost.sent, i) => IsAt(sniffer, w, CwdOf(ghost.sent[i]))
  BY DEF MarkersWhole, w
<1>4. Pending(sniffer) = <<>> /\ sniffer.events \in Seq(STRING)
  BY <1>2, <1>3 DEF Framed, Sniffers
<1>5. Kept(w) = <<>>
  <2>1. \A i \in 1 .. Len(w) : w[i] \notin Messages
    BY <1>2
  <2> QED
    BY <1>2, <2>1, KeptOfPlain
<1>6. sniffer.events = Kept(ghost.sent)
  <2>1. sniffer.events \o <<>> = sniffer.events
    BY <1>4, ConcatEmptySeq
  <2> QED
    BY <2>1, <1>3, <1>4, <1>5 DEF Told
<1>7. ASSUME NEW i \in DOMAIN ghost.sent, TellsLast(ghost.sent, i)
      PROVE  sniffer.cwd = CwdOf(ghost.sent[i])
  <2>1. IsAt(sniffer, w, CwdOf(ghost.sent[i]))
    BY <1>3, <1>7
  <2>2. CwdOf(ghost.sent[i]) = CwdNow(sniffer)
    BY <2>1, <1>2 DEF IsAt
  <2> QED
    BY <2>2, <1>4 DEF CwdNow
<1> QED
  BY <1>6, <1>7

\* At first no marker has been sent and nothing is on the wire.
LEMMA MarkersStart ==
    ASSUME FilterInit
    PROVE  ghost \in Ghosts /\ MarkersWhole /\ EchoAhead
<1>1. /\ expected = <<>> /\ sniffer = Start /\ wire = <<>>
      /\ ghost = [echo |-> <<>>, since |-> <<>>, shown |-> <<>>, dropped |-> {},
                  sent |-> <<>>, alone |-> TRUE, writes |-> 0, outputs |-> 0]
  BY DEF FilterInit
<1>2. <<>> \in Seq(STRING) /\ <<>> \in Seq(Item) /\ Len(<<>>) = 0 /\ DOMAIN <<>> = {}
  BY EmptySeq
<1>3. ghost \in Ghosts
  <2>1. {} \in SUBSET Item /\ TRUE \in BOOLEAN /\ 0 \in Nat
    OBVIOUS
  <2> QED
    BY <1>1, <1>2, <2>1 DEF Ghosts
<1> DEFINE w == Bytes(wire)
<1>4. w \in Seq(STRING) /\ Len(w) = 0
  BY <1>1, <1>2, BytesOfItems
<1> HIDE DEF w
<1>5. /\ sniffer.in = FALSE /\ sniffer.buf = <<>> /\ sniffer.events = <<>> /\ sniffer.cwd = 0
      /\ sniffer \in Sniffers
  BY <1>1, <1>2 DEF Start, Sniffers
<1>6. Pending(sniffer) = <<>>
  BY <1>5 DEF Pending
<1>7. Framed(sniffer, w)
  BY <1>4, <1>5, <1>6 DEF Framed
<1>8. Told(sniffer, w) = Kept(ghost.sent)
  <2>5. \A s \in Seq(STRING) : Len(s) = 0 => Kept(s) = <<>>
    <3> TAKE s \in Seq(STRING)
    <3> HAVE Len(s) = 0
    <3>1. \A i \in 1 .. Len(s) : s[i] \notin Messages
      OBVIOUS
    <3> QED
      BY <3>1, KeptOfPlain
  <2>1. Kept(w) = <<>>
    BY <1>4, <2>5
  <2>2. Kept(<<>>) = <<>>
    BY <1>2, <2>5
  <2>3. <<>> \o <<>> = <<>>
    BY <1>2, ConcatEmptySeq
  <2>4. ghost.sent = <<>>
    BY <1>1
  <2> QED
    BY <2>1, <2>2, <2>3, <2>4, <1>5, <1>6 DEF Told
<1>9. MarkersWhole
  BY <1>1, <1>2, <1>7, <1>8 DEF MarkersWhole, w
<1>10. EchoAhead
  BY <1>1, <1>2 DEF EchoAhead
<1> QED
  BY <1>3, <1>9, <1>10

\* The echo of what Termica wrote does not show while each line is written to a
\* terminal whose output has been read and whose last echo has come whole; and every
\* message of the shell arrives once, in order, with the directory told last
\* (echo_suppress.rs, osc.rs).
THEOREM EchoesStayOut == ASSUME StreamIsPlain PROVE FilterSpec => []EchoAndMarkersAreOut
<1> DEFINE EchoInv == FilterInv /\ ghost \in Ghosts /\ MarkersWhole /\ EchoAhead
<1>1. FilterInit => EchoInv
  BY FilterStarts, MarkersStart
<1>2. EchoInv /\ [FilterNext]_filterVars => EchoInv'
  <2> SUFFICES ASSUME EchoInv, [FilterNext]_filterVars PROVE EchoInv'
    OBVIOUS
  <2>1. FilterInv'
    BY FilterStep
  <2>2. ghost' \in Ghosts
    BY GhostsStay
  <2>3. MarkersWhole'
    BY MarkersStay
  <2>4. EchoAhead'
    BY EchoesStay
  <2> QED
    BY <2>1, <2>2, <2>3, <2>4
<1>3. EchoInv => EchoAndMarkersAreOut
  <2> SUFFICES ASSUME EchoInv PROVE EchoAndMarkersAreOut
    OBVIOUS
  <2>1. EveryMarkerArrives
    BY MarkersHaveCome
  <2>2. EchoIsHidden
    <3>1. DOMAIN ghost.shown = 1 .. Len(ghost.shown)
      BY LenProperties DEF Ghosts
    <3> QED
      BY <3>1 DEF EchoAhead, EchoIsHidden
  <2> QED
    BY <2>1, <2>2 DEF EchoAndMarkersAreOut
<1> QED
  BY <1>1, <1>2, <1>3, PTL DEF FilterSpec

-----------------------------------------------------------------------------
\* The history

Files == {"bash", "zsh"}

\* The lines the files have now, as a replay would read them.
LinesNow == UNION {{LinesOf(sh)[i] : i \in DOMAIN shelf[sh]} : sh \in Files}

ShelfLines == [text : HistTexts, ts : Nat]
ReplayLines == [src : Files, text : HistTexts, at : Nat, ts : Int]

Shelves ==
  /\ shelf \in [Files -> Seq(ShelfLines)]
  /\ clock \in Nat \ {0}
  /\ \A sh \in Files : \A i \in DOMAIN shelf[sh] : shelf[sh][i].ts < clock

Replays ==
  /\ apps \in [HistProcs -> [run : Nat, left : Seq(ReplayLines)]]
  /\ launched \in Nat
  /\ \A a \in HistProcs : apps[a].left \in Seq(LinesNow)

\* A row of a file is one of its lines.
IsOfLine(r) ==
  \E line \in LinesNow : r.src = line.src /\ r.text = line.text /\ r.ts = line.ts /\ r.of = line.at

Columns == {"id", "text", "ts", "src", "run", "pane", "db", "cwd", "exit", "of"}

RowsOfLines ==
  \A r \in rows :
    /\ DOMAIN r = Columns
    /\ r.src = "termica" \/ (r.src \in Files /\ IsOfLine(r))

ReplayInv == Shelves /\ Replays /\ RowsOfLines /\ ReplayIsIdempotent

-----------------------------------------------------------------------------
(* Lines.                                                                  *)

\* A line is known by its file and place, and is older than the clock.
LEMMA LinesAreLines ==
  ASSUME Shelves
  PROVE  /\ LinesNow \subseteq ReplayLines
         /\ \A l, m \in LinesNow : l.src = m.src /\ l.at = m.at => l = m
         /\ \A l \in LinesNow : l.ts < clock
         /\ \A sh \in Files : LinesOf(sh) \in Seq(LinesNow)
<1> DEFINE Line(sh, i) == [src |-> sh, text |-> shelf[sh][i].text, at |-> i,
                           ts |-> IF sh = "bash" THEN -i ELSE shelf[sh][i].ts]
<1>1. \A sh \in Files : /\ DOMAIN LinesOf(sh) = DOMAIN shelf[sh]
                        /\ \A i \in DOMAIN shelf[sh] : LinesOf(sh)[i] = Line(sh, i)
  BY DEF LinesOf
<1>2. ASSUME NEW sh \in Files, NEW i \in DOMAIN shelf[sh]
      PROVE  Line(sh, i) \in ReplayLines /\ Line(sh, i).ts < clock
  <2>1. shelf[sh] \in Seq(ShelfLines)
    BY DEF Shelves
  <2>2. shelf[sh][i] \in ShelfLines /\ i \in Nat /\ i >= 1
    BY <2>1
  <2>3. shelf[sh][i].text \in HistTexts /\ shelf[sh][i].ts \in Nat
    BY <2>2 DEF ShelfLines
  <2>4. shelf[sh][i].ts < clock /\ clock \in Nat \ {0}
    BY DEF Shelves
  <2>5. QED BY <2>2, <2>3, <2>4 DEF ReplayLines
<1>3. \A l \in LinesNow : \E sh \in Files : \E i \in DOMAIN shelf[sh] : l = Line(sh, i)
  <2> SUFFICES ASSUME NEW l \in LinesNow
               PROVE  \E sh \in Files : \E i \in DOMAIN shelf[sh] : l = Line(sh, i)
    OBVIOUS
  <2>1. PICK sh \in Files : l \in {LinesOf(sh)[i] : i \in DOMAIN shelf[sh]}
    BY DEF LinesNow
  <2>2. PICK i \in DOMAIN shelf[sh] : l = LinesOf(sh)[i]
    BY <2>1
  <2> HIDE DEF Line
  <2>3. QED BY <1>1, <2>2
<1>4. \A sh \in Files : \A i \in DOMAIN shelf[sh] : Line(sh, i) \in LinesNow
  BY <1>1 DEF LinesNow
<1>5. \A sh \in Files : \A i \in DOMAIN shelf[sh] : Line(sh, i).src = sh /\ Line(sh, i).at = i
  OBVIOUS
<1>6. ASSUME NEW sh \in Files PROVE LinesOf(sh) \in Seq(LinesNow)
  <2>1. shelf[sh] \in Seq(ShelfLines)
    BY DEF Shelves
  <2>2. DOMAIN shelf[sh] = 1..Len(shelf[sh]) /\ Len(shelf[sh]) \in Nat
    BY <2>1
  <2>3. LinesOf(sh) = [i \in DOMAIN shelf[sh] |-> Line(sh, i)]
    BY DEF LinesOf
  <2> HIDE DEF Line
  <2>4. [i \in 1..Len(shelf[sh]) |-> Line(sh, i)] \in [1..Len(shelf[sh]) -> LinesNow]
    BY <1>4, <2>2
  <2>5. QED BY <2>2, <2>3, <2>4
<1> HIDE DEF Line
<1>7. ASSUME NEW l \in LinesNow, NEW m \in LinesNow, l.src = m.src, l.at = m.at PROVE l = m
  <2>1. PICK sh \in Files : \E i \in DOMAIN shelf[sh] : l = Line(sh, i)
    BY <1>3
  <2>2. PICK sg \in Files : \E j \in DOMAIN shelf[sg] : m = Line(sg, j)
    BY <1>3
  <2>3. QED BY <1>5, <1>7, <2>1, <2>2
<1>8. QED BY <1>2, <1>3, <1>6, <1>7

\* A file that grows keeps its lines, and the clock moves on.
LEMMA LinesStay ==
  ASSUME Shelves, ShelfGrows
  PROVE  Shelves' /\ LinesNow \subseteq LinesNow'
<1>1. clock' = clock + 1 /\ clock \in Nat \ {0}
  BY DEF ShelfGrows, Tick, Shelves
<1>2. PICK sg \in DOMAIN shelf, t \in HistTexts :
        shelf' = [shelf EXCEPT ![sg] = Append(@, [text |-> t, ts |-> clock])]
  BY DEF ShelfGrows
<1> DEFINE line == [text |-> t, ts |-> clock]
<1>3. line \in ShelfLines /\ line.ts = clock
  BY <1>1 DEF ShelfLines
<1>4. DOMAIN shelf = Files /\ \A sh \in Files : shelf[sh] \in Seq(ShelfLines)
  BY DEF Shelves
<1>5. shelf' = [shelf EXCEPT ![sg] = Append(shelf[sg], line)]
  BY <1>2
<1> HIDE DEF line
<1>6. \A sh \in Files : /\ shelf'[sh] \in Seq(ShelfLines)
                        /\ \A i \in DOMAIN shelf[sh] : i \in DOMAIN shelf'[sh]
                                                       /\ shelf'[sh][i] = shelf[sh][i]
                        /\ \A i \in DOMAIN shelf'[sh] : i \in DOMAIN shelf[sh]
                                                        \/ shelf'[sh][i] = line
  <2> SUFFICES ASSUME NEW sh \in Files
               PROVE  /\ shelf'[sh] \in Seq(ShelfLines)
                      /\ \A i \in DOMAIN shelf[sh] : i \in DOMAIN shelf'[sh]
                                                     /\ shelf'[sh][i] = shelf[sh][i]
                      /\ \A i \in DOMAIN shelf'[sh] : i \in DOMAIN shelf[sh]
                                                      \/ shelf'[sh][i] = line
    OBVIOUS
  <2>1. CASE sh = sg
    <3>1. shelf'[sh] = Append(shelf[sh], line) /\ shelf[sh] \in Seq(ShelfLines)
      BY <1>4, <1>5, <2>1
    <3>2. QED BY <1>3, <3>1
  <2>2. CASE sh # sg
    BY <1>4, <1>5, <2>2
  <2>3. QED BY <2>1, <2>2
<1>7. shelf' \in [Files -> Seq(ShelfLines)]
  BY <1>4, <1>5, <1>6
<1>8. \A sh \in Files : \A i \in DOMAIN shelf'[sh] : shelf'[sh][i].ts < clock'
  <2> SUFFICES ASSUME NEW sh \in Files, NEW i \in DOMAIN shelf'[sh] PROVE shelf'[sh][i].ts < clock'
    OBVIOUS
  <2>1. CASE i \in DOMAIN shelf[sh]
    <3>1. shelf'[sh][i] = shelf[sh][i] /\ shelf[sh][i].ts < clock
      BY <1>6, <2>1 DEF Shelves
    <3>2. shelf[sh][i] \in ShelfLines
      BY <1>4, <2>1
    <3>3. shelf[sh][i].ts \in Nat
      BY <3>2 DEF ShelfLines
    <3>4. QED BY <1>1, <3>1, <3>3
  <2>2. CASE shelf'[sh][i] = line
    BY <1>1, <1>3, <2>2
  <2>3. QED BY <1>6, <2>1, <2>2
<1>9. Shelves'
  BY <1>1, <1>7, <1>8 DEF Shelves
<1>10. LinesNow \subseteq LinesNow'
  <2> SUFFICES ASSUME NEW l \in LinesNow PROVE l \in LinesNow'
    OBVIOUS
  <2>1. PICK sh \in Files : l \in {LinesOf(sh)[i] : i \in DOMAIN shelf[sh]}
    BY DEF LinesNow
  <2>2. PICK i \in DOMAIN shelf[sh] : l = LinesOf(sh)[i]
    BY <2>1
  <2>3. i \in DOMAIN shelf'[sh] /\ LinesOf(sh)'[i] = LinesOf(sh)[i]
    BY <1>6 DEF LinesOf
  <2>4. QED BY <2>2, <2>3 DEF LinesNow
<1>11. QED BY <1>9, <1>10

-----------------------------------------------------------------------------
(* Rows.                                                                   *)

\* What rows are left after a trim are the same rows.
LEMMA FewerRows ==
  ASSUME RowsOfLines, ReplayIsIdempotent, rows' \subseteq rows, LinesNow \subseteq LinesNow'
  PROVE  RowsOfLines' /\ ReplayIsIdempotent'
<1>1. \A r \in rows : IsOfLine(r) => IsOfLine(r)'
  BY DEF IsOfLine
<1>2. RowsOfLines'
  BY <1>1 DEF RowsOfLines
<1>3. ReplayIsIdempotent'
  BY DEF ReplayIsIdempotent
<1>4. QED BY <1>2, <1>3

\* A row of a command of ours is of no file.
LEMMA OneMoreRow ==
  ASSUME RowsOfLines, ReplayIsIdempotent, NEW row, rows' = rows \cup {row}, UNCHANGED shelf,
         DOMAIN row = Columns,
         \/ row.src = "termica"
         \/ /\ row.src \in Files /\ IsOfLine(row)
            /\ \A r \in rows : r.src = row.src => r.of # row.of
  PROVE  RowsOfLines' /\ ReplayIsIdempotent'
<1>1. LinesNow' = LinesNow
  BY DEF LinesNow, LinesOf
<1>2. \A r : IsOfLine(r)' <=> IsOfLine(r)
  BY <1>1 DEF IsOfLine
<1>3. RowsOfLines'
  BY <1>2 DEF RowsOfLines
<1>4. ReplayIsIdempotent'
  BY DEF ReplayIsIdempotent
<1>5. QED BY <1>3, <1>4

\* A row that gets its exit code stays the row it was.
LEMMA StampedRows ==
  ASSUME RowsOfLines, ReplayIsIdempotent, UNCHANGED shelf, NEW id, NEW code,
         rows' = {IF r.id = id THEN [r EXCEPT !.exit = code] ELSE r : r \in rows}
  PROVE  RowsOfLines' /\ ReplayIsIdempotent'
<1> DEFINE Image(r) == IF r.id = id THEN [r EXCEPT !.exit = code] ELSE r
<1>1. \A r \in rows : /\ DOMAIN Image(r) = DOMAIN r
                      /\ \A c \in Columns \ {"exit"} : Image(r)[c] = r[c]
  BY DEF RowsOfLines, Columns
<1>2. rows' = {Image(r) : r \in rows}
  OBVIOUS
<1> HIDE DEF Image
<1>3. \A r \in rows : /\ Image(r).src = r.src /\ Image(r).text = r.text
                      /\ Image(r).ts = r.ts /\ Image(r).of = r.of
  BY <1>1 DEF Columns
<1>4. LinesNow' = LinesNow
  BY DEF LinesNow, LinesOf
<1>5. \A r \in rows : IsOfLine(r) => IsOfLine(Image(r))'
  BY <1>3, <1>4 DEF IsOfLine
<1>6. RowsOfLines'
  BY <1>1, <1>2, <1>3, <1>5 DEF RowsOfLines
<1>7. ReplayIsIdempotent'
  BY <1>2, <1>3 DEF ReplayIsIdempotent
<1>8. QED BY <1>6, <1>7

\* INSERT OR IGNORE: a line that is already there is the row of that line.
LEMMA ReplayedRow ==
  ASSUME Shelves, RowsOfLines, ReplayIsIdempotent, UNCHANGED shelf,
         NEW line \in LinesNow, RecordReplayed(line)
  PROVE  RowsOfLines' /\ ReplayIsIdempotent'
<1>1. CASE UNCHANGED rows
  <2>1. LinesNow' = LinesNow
    BY DEF LinesNow, LinesOf
  <2>2. QED BY <1>1, <2>1, FewerRows
<1>2. CASE ~UNCHANGED rows
  <2>1. /\ \A r \in rows : ~(r.src = line.src /\ r.text = line.text /\ r.ts = line.ts)
        /\ \E id \in NextIds :
             Insert([id |-> id, text |-> line.text, ts |-> line.ts, src |-> line.src, run |-> Null,
                     pane |-> Null, db |-> Null, cwd |-> Null, exit |-> <<>>, of |-> line.at])
    BY <1>2 DEF RecordReplayed
  <2>2. PICK id : rows' = rows \cup {[id |-> id, text |-> line.text, ts |-> line.ts,
                     src |-> line.src, run |-> Null, pane |-> Null, db |-> Null, cwd |-> Null,
                     exit |-> <<>>, of |-> line.at]}
    BY <2>1 DEF Insert
  <2> DEFINE row == [id |-> id, text |-> line.text, ts |-> line.ts, src |-> line.src,
                     run |-> Null, pane |-> Null, db |-> Null, cwd |-> Null, exit |-> <<>>,
                     of |-> line.at]
  <2>3. /\ row.src = line.src /\ row.text = line.text /\ row.ts = line.ts /\ row.of = line.at
        /\ DOMAIN row = Columns
    BY DEF Columns
  <2>4. rows' = rows \cup {row}
    BY <2>2
  <2> HIDE DEF row
  <2>5. line.src \in Files
    BY LinesAreLines DEF ReplayLines
  <2>6. IsOfLine(row)
    BY <2>3 DEF IsOfLine
  <2>7. ASSUME NEW r \in rows, r.src = row.src, r.of = row.of PROVE FALSE
    <3>1. r.src # "termica"
      BY <2>3, <2>5, <2>7 DEF Files
    <3>2. PICK l \in LinesNow : r.src = l.src /\ r.text = l.text /\ r.ts = l.ts /\ r.of = l.at
      BY <3>1 DEF RowsOfLines, IsOfLine
    <3>3. l = line
      BY <2>3, <2>7, <3>2, LinesAreLines
    <3>4. QED BY <2>1, <3>2, <3>3
  <2>8. QED BY <2>3, <2>4, <2>5, <2>6, <2>7, OneMoreRow
<1>3. QED BY <1>1, <1>2

-----------------------------------------------------------------------------
(* Replay.                                                                 *)

\* What a process has left to replay stays lines of the files.
LEMMA ReplaysStep ==
  ASSUME Shelves, Replays, [HistoryNext]_historyVars, LinesNow \subseteq LinesNow'
  PROVE  Replays'
<1> DEFINE Gone == Seq(ReplayLines) \cap Seq(LinesNow)
<1>1. Gone \subseteq Seq(LinesNow')
  OBVIOUS
<1>2. \A a \in HistProcs : apps[a].left \in Gone /\ apps[a].run \in Nat
  BY DEF Replays
<1>3. CASE UNCHANGED <<apps, launched>>
  BY <1>1, <1>2, <1>3 DEF Replays
<1>4. CASE Launch
  <2>1. PICK a \in HistProcs :
          apps' = [apps EXCEPT ![a] = [run |-> launched + 1,
                                       left |-> LinesOf("zsh") \o LinesOf("bash")]]
    BY <1>4 DEF Launch
  <2>2. LinesOf("zsh") \o LinesOf("bash") \in Seq(LinesNow)
    BY LinesAreLines DEF Files
  <2>3. LinesOf("zsh") \o LinesOf("bash") \in Gone
    BY <2>2, LinesAreLines
  <2> HIDE DEF Gone
  <2>4. launched \in Nat /\ launched' = launched + 1
    BY <1>4 DEF Replays, Launch
  <2>5. \A b \in HistProcs : apps'[b].left \in Gone
    BY <1>2, <2>1, <2>3 DEF Replays
  <2>6. apps' \in [HistProcs -> [run : Nat, left : Seq(ReplayLines)]]
    BY <2>1, <2>3, <2>4 DEF Replays, Gone
  <2>7. QED BY <1>1, <2>4, <2>5, <2>6 DEF Replays
<1>5. CASE Replay
  <2>1. PICK a \in HistProcs : apps[a].left # <<>> /\ apps' = [apps EXCEPT ![a].left = Tail(@)]
    BY <1>5 DEF Replay
  <2>2. Tail(apps[a].left) \in Gone
    BY <1>2, <2>1
  <2> HIDE DEF Gone
  <2>3. \A b \in HistProcs : apps'[b].left \in Gone
    BY <1>2, <2>1, <2>2 DEF Replays
  <2>4. apps' \in [HistProcs -> [run : Nat, left : Seq(ReplayLines)]]
    BY <2>1, <2>2 DEF Replays, Gone
  <2>5. launched' = launched
    BY <1>5 DEF Replay
  <2>6. QED BY <1>1, <2>3, <2>4, <2>5 DEF Replays
<1>6. CASE Exit
  <2>1. PICK a \in HistProcs : apps' = [apps EXCEPT ![a] = Down]
    BY <1>6 DEF Exit
  <2>2. Down.left \in Gone /\ Down \in [run : Nat, left : Seq(ReplayLines)]
    BY DEF Down, Null
  <2> HIDE DEF Gone
  <2>3. \A b \in HistProcs : apps'[b].left \in Gone
    BY <1>2, <2>1, <2>2 DEF Replays
  <2>4. apps' \in [HistProcs -> [run : Nat, left : Seq(ReplayLines)]]
    BY <2>1, <2>2 DEF Replays
  <2>5. launched' = launched
    BY <1>6 DEF Exit
  <2>6. QED BY <1>1, <2>3, <2>4, <2>5 DEF Replays
<1>7. QED
  BY <1>3, <1>4, <1>5, <1>6
     DEF HistoryNext, historyVars, ShelfGrows, OpenPane, Preexec, CommandFinished, Trim,
         OpenOverlay, UseOverlay

\* Files and lines over a step.
LEMMA ShelvesStep ==
  ASSUME Shelves, [HistoryNext]_historyVars
  PROVE  Shelves' /\ LinesNow \subseteq LinesNow'
<1>1. CASE ShelfGrows
  BY <1>1, LinesStay
<1>2. CASE UNCHANGED shelf /\ (UNCHANGED clock \/ Tick)
  <2>1. LinesNow' = LinesNow
    BY <1>2 DEF LinesNow, LinesOf
  <2>2. \A sh \in Files : \A i \in DOMAIN shelf[sh] : shelf[sh][i].ts \in Nat
    <3> SUFFICES ASSUME NEW sh \in Files, NEW i \in DOMAIN shelf[sh] PROVE shelf[sh][i].ts \in Nat
      OBVIOUS
    <3>1. shelf[sh] \in Seq(ShelfLines)
      BY DEF Shelves
    <3>2. shelf[sh][i] \in ShelfLines
      BY <3>1
    <3>3. QED BY <3>2 DEF ShelfLines
  <2>3. Shelves'
    BY <1>2, <2>2 DEF Shelves, Tick
  <2>4. QED BY <2>1, <2>3
<1>3. QED
  BY <1>1, <1>2
     DEF HistoryNext, historyVars, Launch, Replay, OpenPane, Exit, Preexec, CommandFinished, Trim,
         OpenOverlay, UseOverlay

\* The rows over a step.
LEMMA RowsStep ==
  ASSUME ReplayInv, [HistoryNext]_historyVars
  PROVE  RowsOfLines' /\ ReplayIsIdempotent'
<1> USE DEF ReplayInv
<1>1. CASE rows' \subseteq rows
  BY <1>1, ShelvesStep, FewerRows
<1>2. CASE Replay
  <2>1. PICK a \in HistProcs : apps[a].left # <<>> /\ RecordReplayed(Head(apps[a].left))
    BY <1>2 DEF Replay
  <2>2. apps[a].left \in Seq(LinesNow)
    BY DEF Replays
  <2>3. Head(apps[a].left) \in LinesNow
    BY <2>1, <2>2
  <2>4. UNCHANGED shelf
    BY <1>2 DEF Replay
  <2>5. QED BY <2>1, <2>3, <2>4, ReplayedRow
<1>3. CASE Preexec
  <2>1. CASE UNCHANGED rows
    BY <2>1, <1>1
  <2>2. CASE \E k \in Panes, t \in HistTexts : \E id \in NextIds :
               Insert([id |-> id, text |-> t, ts |-> clock, src |-> "termica",
                       run |-> panes[k].run, pane |-> panes[k].id, db |-> panes[k].db,
                       cwd |-> panes[k].cwd, exit |-> <<>>, of |-> <<k, clock>>])
    <3>1. PICK k, t, id : rows' = rows \cup
            {[id |-> id, text |-> t, ts |-> clock, src |-> "termica",
              run |-> panes[k].run, pane |-> panes[k].id, db |-> panes[k].db,
              cwd |-> panes[k].cwd, exit |-> <<>>, of |-> <<k, clock>>]}
      BY <2>2 DEF Insert
    <3> DEFINE row == [id |-> id, text |-> t, ts |-> clock, src |-> "termica",
              run |-> panes[k].run, pane |-> panes[k].id, db |-> panes[k].db,
              cwd |-> panes[k].cwd, exit |-> <<>>, of |-> <<k, clock>>]
    <3>2. row.src = "termica" /\ DOMAIN row = Columns
      BY DEF Columns
    <3>3. rows' = rows \cup {row}
      BY <3>1
    <3> HIDE DEF row
    <3>4. UNCHANGED shelf
      BY <1>3 DEF Preexec
    <3>5. QED BY <3>2, <3>3, <3>4, OneMoreRow
  <2>3. QED BY <1>3, <2>1, <2>2 DEF Preexec
<1>4. CASE CommandFinished
  <2>1. UNCHANGED shelf
    BY <1>4 DEF CommandFinished
  <2>2. CASE UNCHANGED rows
    BY <2>2, <1>1
  <2>3. CASE \E k \in Panes :
               rows' = {IF r.id = panes[k].current THEN [r EXCEPT !.exit = panes[k].doing]
                        ELSE r : r \in rows}
    BY <2>1, <2>3, StampedRows
  <2>4. QED BY <1>4, <2>2, <2>3 DEF CommandFinished
<1>5. CASE Trim
  <2>1. rows' \subseteq rows
    BY <1>5 DEF Trim, kSubset
  <2>2. QED BY <1>1, <2>1
<1>6. QED
  BY <1>1, <1>2, <1>3, <1>4, <1>5
     DEF HistoryNext, historyVars, ShelfGrows, Launch, OpenPane, Exit, OpenOverlay, UseOverlay

\* Every step keeps shelves, replays and rows right together.
LEMMA ReplayStep == ReplayInv /\ [HistoryNext]_historyVars => ReplayInv'
  BY ShelvesStep, ReplaysStep, RowsStep DEF ReplayInv

\* They are empty at first.
LEMMA ReplayStarts == HistoryInit => ReplayInv
<1> SUFFICES ASSUME HistoryInit PROVE ReplayInv
  OBVIOUS
<1>1. shelf \in [Files -> Seq(ShelfLines)] /\ \A sh \in Files : shelf[sh] = <<>>
  BY DEF HistoryInit, Files
<1>2. Shelves
  BY <1>1 DEF HistoryInit, Shelves
<1>3. Down \in [run : Nat, left : Seq(ReplayLines)] /\ Down.left \in Seq(LinesNow)
  BY DEF Down, Null
<1>4. Replays
  BY <1>3 DEF HistoryInit, Replays
<1>5. RowsOfLines /\ ReplayIsIdempotent
  BY DEF HistoryInit, RowsOfLines, ReplayIsIdempotent
<1>6. QED BY <1>2, <1>4, <1>5 DEF ReplayInv

\* A line of a shell's file is one run, however often it is replayed, by
\* however many processes and while shells append to it (record_replayed).
THEOREM LinesAreRunOnce == HistorySpec => []ReplayIsIdempotent
<1>1. ReplayInv => ReplayIsIdempotent
  BY DEF ReplayInv
<1>2. QED BY <1>1, ReplayStarts, ReplayStep, PTL DEF HistorySpec

-----------------------------------------------------------------------------
(* Exit codes.                                                             *)

\* The row with the id a pane holds is of the command that runs in it, and no
\* id that is still to come is the one it holds.
HoldsItsRun(p, table) ==
  /\ \A r \in table : r.id = p.current => r.of = p.doing
  /\ \E s \in table : s.id >= p.current /\ s.ts >= p.doing[2]
  /\ \A s \in table : s.ts >= p.doing[2] => s.id >= p.current

Dated == \A r \in rows : r.id \in Nat \ {0} /\ r.ts \in Int /\ r.ts < clock

Holding ==
  \A k \in Panes :
    /\ {"current", "doing"} \subseteq DOMAIN panes[k]
    /\ panes[k].doing = <<>> => panes[k].current = Null
    /\ panes[k].current # Null =>
         /\ panes[k].current \in Nat \ {0} /\ panes[k].doing[2] \in Int
         /\ HoldsItsRun(panes[k], rows)

ExitInv == ReplayInv /\ Dated /\ Holding /\ ExitIsOfItsRun

\* With another row whose id is new, every pane still holds its run.
LEMMA NewRow ==
  ASSUME Shelves, Dated, Holding, ExitIsOfItsRun, clock' \in {clock, clock + 1},
         NEW id \in NextIds, NEW row, row.id = id, row.ts \in Int, row.ts < clock',
         row.exit = <<>>, rows' = rows \cup {row}
  PROVE  /\ Dated' /\ ExitIsOfItsRun'
         /\ \A r \in rows : r.id < id
         /\ \A k \in Panes : panes[k].current # Null => HoldsItsRun(panes[k], rows')
<1>1. id \in Nat \ {0} /\ \A r \in rows : r.id < id
  BY DEF NextIds, Dated
<1>2. clock \in Nat /\ Dated'
  BY <1>1 DEF Dated, Shelves
<1>3. ExitIsOfItsRun'
  BY DEF ExitIsOfItsRun
<1>4. ASSUME NEW k \in Panes, panes[k].current # Null PROVE HoldsItsRun(panes[k], rows')
  <2> DEFINE c == panes[k].current
             t == panes[k].doing[2]
  <2>1. c \in Nat \ {0} /\ t \in Int
    BY <1>4 DEF Holding
  <2>2. /\ \A r \in rows : r.id = c => r.of = panes[k].doing
        /\ \E s \in rows : s.id >= c /\ s.ts >= t
        /\ \A s \in rows : s.ts >= t => s.id >= c
    BY <1>4 DEF Holding, HoldsItsRun
  <2> HIDE DEF c, t
  <2>3. id > c
    BY <1>1, <2>1, <2>2 DEF Dated
  <2>4. /\ \A r \in rows' : r.id = c => r.of = panes[k].doing
        /\ \E s \in rows' : s.id >= c /\ s.ts >= t
        /\ \A s \in rows' : s.ts >= t => s.id >= c
    BY <1>1, <2>1, <2>2, <2>3
  <2>5. \A r : r \in rows' <=> r \in rows \cup {row}
    OBVIOUS
  <2>6. QED
    BY <2>4 DEF c, t, HoldsItsRun
<1>5. QED BY <1>1, <1>2, <1>3, <1>4

\* A trim keeps the newest rows, so every id that is held stays out of reach.
LEMMA TrimmedRows ==
  ASSUME RunsCap \in Nat \ {0}, Dated, Holding, Trim, NEW k \in Panes, panes[k].current # Null
  PROVE  HoldsItsRun(panes[k], rows')
<1>1. PICK kept \in kSubset(RunsCap, rows) :
        (\A r \in kept, s \in rows \ kept : Newest(r, s)) /\ rows' = kept
  BY DEF Trim
<1>2. kept \subseteq rows /\ kept # {}
  BY <1>1, FS_EmptySet DEF kSubset
<1> DEFINE c == panes[k].current
           t == panes[k].doing[2]
<1>3. /\ \A r \in rows : r.id = c => r.of = panes[k].doing
      /\ \E s \in rows : s.id >= c /\ s.ts >= t
      /\ \A s \in rows : s.ts >= t => s.id >= c
  BY DEF Holding, HoldsItsRun
<1>4. c \in Nat \ {0} /\ t \in Int
  BY DEF Holding
<1> HIDE DEF c, t
<1>5. \E s \in kept : s.id >= c /\ s.ts >= t
  <2>1. PICK s \in rows : s.id >= c /\ s.ts >= t
    BY <1>3
  <2>2. CASE s \in kept
    BY <2>1, <2>2
  <2>3. CASE s \notin kept
    <3>1. PICK r \in kept : Newest(r, s)
      BY <1>1, <1>2, <2>3
    <3>2. r \in rows /\ r.ts \in Int /\ s.ts \in Int
      BY <1>2 DEF Dated
    <3>3. r.ts >= t
      BY <1>4, <2>1, <3>1, <3>2 DEF Newest
    <3>4. QED BY <1>3, <3>2, <3>3
  <2>4. QED BY <2>2, <2>3
<1>6. /\ \A r \in rows' : r.id = c => r.of = panes[k].doing
      /\ \E s \in rows' : s.id >= c /\ s.ts >= t
      /\ \A s \in rows' : s.ts >= t => s.id >= c
  BY <1>1, <1>2, <1>3, <1>5
<1>7. QED BY <1>6 DEF c, t, HoldsItsRun

\* A command begins: its row is the newest there is.
LEMMA BeginStep ==
  ASSUME ExitInv, Preexec, "overrun" \notin HistFaults
  PROVE  Dated' /\ Holding' /\ ExitIsOfItsRun'
<1> USE DEF ExitInv, ReplayInv
<1>1. clock \in Nat \ {0} /\ clock' = clock + 1
  BY DEF Preexec, Tick, Shelves
<1>2. PICK k \in Panes, t \in HistTexts :
        \/ \E id \in NextIds :
             /\ Insert([id |-> id, text |-> t, ts |-> clock, src |-> "termica",
                        run |-> panes[k].run, pane |-> panes[k].id, db |-> panes[k].db,
                        cwd |-> panes[k].cwd, exit |-> <<>>, of |-> <<k, clock>>])
             /\ Set(k, [panes[k] EXCEPT !.current = id, !.doing = <<k, clock>>])
        \/ /\ panes[k].doing = <<>> \/ panes[k].current = Null
           /\ UNCHANGED rows /\ Set(k, [panes[k] EXCEPT !.doing = <<k, clock>>])
  BY DEF Preexec
<1>3. {"current", "doing"} \subseteq DOMAIN panes[k]
  BY DEF Holding
<1>4. CASE /\ panes[k].doing = <<>> \/ panes[k].current = Null
           /\ UNCHANGED rows /\ Set(k, [panes[k] EXCEPT !.doing = <<k, clock>>])
  <2> DEFINE new == [panes[k] EXCEPT !.doing = <<k, clock>>]
  <2>1. panes' = [panes EXCEPT ![k] = new]
    BY <1>4 DEF Set
  <2>2. {"current", "doing"} \subseteq DOMAIN new /\ new.current = Null /\ new.doing # <<>>
    <3>1. panes[k].current = Null
      BY <1>4 DEF Holding
    <3>2. QED BY <1>3, <3>1
  <2> HIDE DEF new
  <2>3. Panes' = Panes /\ panes'[k] = new /\ \A j \in Panes : j # k => panes'[j] = panes[j]
    BY <2>1 DEF Panes
  <2>4. Holding'
    BY <1>4, <2>2, <2>3 DEF Holding
  <2>5. Dated'
    BY <1>1, <1>4 DEF Dated
  <2>6. QED BY <1>4, <2>4, <2>5 DEF ExitIsOfItsRun
<1>5. CASE \E id \in NextIds :
             /\ Insert([id |-> id, text |-> t, ts |-> clock, src |-> "termica",
                        run |-> panes[k].run, pane |-> panes[k].id, db |-> panes[k].db,
                        cwd |-> panes[k].cwd, exit |-> <<>>, of |-> <<k, clock>>])
             /\ Set(k, [panes[k] EXCEPT !.current = id, !.doing = <<k, clock>>])
  <2>1. PICK id \in NextIds :
             /\ Insert([id |-> id, text |-> t, ts |-> clock, src |-> "termica",
                        run |-> panes[k].run, pane |-> panes[k].id, db |-> panes[k].db,
                        cwd |-> panes[k].cwd, exit |-> <<>>, of |-> <<k, clock>>])
             /\ Set(k, [panes[k] EXCEPT !.current = id, !.doing = <<k, clock>>])
    BY <1>5
  <2> DEFINE row == [id |-> id, text |-> t, ts |-> clock, src |-> "termica",
                     run |-> panes[k].run, pane |-> panes[k].id, db |-> panes[k].db,
                     cwd |-> panes[k].cwd, exit |-> <<>>, of |-> <<k, clock>>]
             new == [panes[k] EXCEPT !.current = id, !.doing = <<k, clock>>]
  <2>2. rows' = rows \cup {row} /\ panes' = [panes EXCEPT ![k] = new]
    BY <2>1 DEF Insert, Set
  <2>3. row.id = id /\ row.ts = clock /\ row.exit = <<>> /\ row.of = <<k, clock>>
    OBVIOUS
  <2>4. /\ {"current", "doing"} \subseteq DOMAIN new
        /\ new.current = id /\ new.doing = <<k, clock>> /\ new.doing # <<>> /\ new.doing[2] = clock
    BY <1>3
  <2> HIDE DEF row, new
  <2>5. /\ Dated' /\ ExitIsOfItsRun'
        /\ \A r \in rows : r.id < id
        /\ \A j \in Panes : panes[j].current # Null => HoldsItsRun(panes[j], rows')
    <3>1. row.ts \in Int /\ row.ts < clock' /\ clock' \in {clock, clock + 1}
      BY <1>1, <2>3
    <3>2. Shelves /\ Dated /\ Holding /\ ExitIsOfItsRun
      OBVIOUS
    <3>3. QED BY <2>2, <2>3, <3>1, <3>2, NewRow
  <2>6. id \in Nat \ {0}
    BY DEF NextIds, Dated
  <2>7. HoldsItsRun(new, rows')
    <3>1. \A r \in rows : r.id \in Nat /\ r.ts \in Int /\ r.ts < clock
      BY DEF Dated
    <3>2. /\ \A r \in rows' : r.id = id => r.of = <<k, clock>>
          /\ \E s \in rows' : s.id >= id /\ s.ts >= clock
          /\ \A s \in rows' : s.ts >= clock => s.id >= id
      BY <1>1, <2>2, <2>3, <2>5, <2>6, <3>1
    <3>3. QED BY <2>4, <3>2 DEF HoldsItsRun
  <2>8. Panes' = Panes /\ panes'[k] = new /\ \A j \in Panes : j # k => panes'[j] = panes[j]
    BY <2>2 DEF Panes
  <2>9. Holding'
    <3> SUFFICES ASSUME NEW j \in Panes
                 PROVE  /\ {"current", "doing"} \subseteq DOMAIN panes'[j]
                        /\ panes'[j].doing = <<>> => panes'[j].current = Null
                        /\ panes'[j].current # Null =>
                             /\ panes'[j].current \in Nat \ {0} /\ panes'[j].doing[2] \in Int
                             /\ HoldsItsRun(panes'[j], rows')
      BY <2>8 DEF Holding
    <3>1. CASE j = k
      <4>1. panes'[j] = new
        BY <2>8, <3>1
      <4>2. new.doing[2] \in Int
        BY <1>1, <2>4
      <4>3. QED BY <2>4, <2>6, <2>7, <4>1, <4>2
    <3>2. CASE j # k
      BY <2>5, <2>8, <3>2 DEF Holding
    <3>3. QED BY <3>1, <3>2
  <2>10. QED BY <2>5, <2>9
<1>6. QED BY <1>2, <1>4, <1>5

\* A command ends: its pane stamps the row of the id it holds and lets go.
LEMMA EndStep == ASSUME ExitInv, CommandFinished PROVE Dated' /\ Holding' /\ ExitIsOfItsRun'
<1> USE DEF ExitInv, ReplayInv
<1>1. PICK k \in Panes :
        /\ panes' = [panes EXCEPT ![k] = Finished(panes[k])]
        /\ \/ rows' = {IF r.id = panes[k].current THEN [r EXCEPT !.exit = panes[k].doing] ELSE r :
                       r \in rows}
           \/ UNCHANGED rows
  BY DEF CommandFinished, Set
<1>2. UNCHANGED clock
  BY DEF CommandFinished
<1> DEFINE new == Finished(panes[k])
           Image(r) == IF r.id = panes[k].current THEN [r EXCEPT !.exit = panes[k].doing] ELSE r
<1>3. {"current", "doing"} \subseteq DOMAIN new /\ new.current = Null /\ new.doing = <<>>
  BY DEF Finished, Holding
<1>4. \A r \in rows : /\ Image(r).id = r.id /\ Image(r).ts = r.ts /\ Image(r).of = r.of
                      /\ Image(r).exit = IF r.id = panes[k].current THEN panes[k].doing ELSE r.exit
  BY DEF RowsOfLines, Columns
<1>5. rows' = {Image(r) : r \in rows} \/ rows' = rows
  BY <1>1
<1> HIDE DEF new, Image
<1>6. Dated'
  BY <1>2, <1>4, <1>5 DEF Dated
<1>7. ExitIsOfItsRun'
  <2>1. ASSUME NEW r \in rows PROVE Image(r).exit # <<>> => Image(r).exit = Image(r).of
    <3>1. CASE r.id # panes[k].current
      BY <1>4, <3>1 DEF ExitIsOfItsRun
    <3>2. CASE r.id = panes[k].current
      <4>1. panes[k].current # Null
        BY <3>2 DEF Dated, Null
      <4>2. r.of = panes[k].doing
        BY <3>2, <4>1 DEF Holding, HoldsItsRun
      <4>3. QED BY <1>4, <3>2, <4>2
    <3>3. QED BY <3>1, <3>2
  <2>2. QED BY <1>5, <2>1 DEF ExitIsOfItsRun
<1>8. \A p : HoldsItsRun(p, rows) => HoldsItsRun(p, rows')
  <2> SUFFICES ASSUME NEW p, HoldsItsRun(p, rows) PROVE HoldsItsRun(p, rows')
    OBVIOUS
  <2>1. CASE rows' = rows
    BY <2>1
  <2>2. CASE rows' = {Image(r) : r \in rows}
    BY <1>4, <2>2 DEF HoldsItsRun
  <2>3. QED BY <1>5, <2>1, <2>2
<1>9. Panes' = Panes /\ panes'[k] = new /\ \A j \in Panes : j # k => panes'[j] = panes[j]
  BY <1>1 DEF Panes, new
<1>10. Holding'
  BY <1>3, <1>8, <1>9 DEF Holding
<1>11. QED BY <1>6, <1>7, <1>10

\* Every step keeps the exit codes at their runs.
LEMMA ExitStep ==
  ASSUME RunsCap \in Nat \ {0}, "overrun" \notin HistFaults, ExitInv, [HistoryNext]_historyVars
  PROVE  ExitInv'
<1>1. ReplayInv'
  BY ReplayStep DEF ExitInv
<1>2. Dated' /\ Holding' /\ ExitIsOfItsRun'
  <2> USE DEF ExitInv, ReplayInv
  <2>1. CASE UNCHANGED rows /\ (UNCHANGED clock \/ Tick)
             /\ \A k \in Panes' : \/ k \in Panes /\ panes'[k] = panes[k]
                                  \/ /\ {"current", "doing"} \subseteq DOMAIN panes'[k]
                                     /\ panes'[k].current = Null
    <3>1. clock \in Nat
      BY DEF Shelves
    <3>2. Dated' /\ ExitIsOfItsRun'
      BY <2>1, <3>1 DEF Dated, ExitIsOfItsRun, Tick
    <3>3. Holding'
      BY <2>1 DEF Holding
    <3>4. QED BY <3>2, <3>3
  <2>2. CASE UNCHANGED <<rows, panes>> /\ (UNCHANGED clock \/ Tick)
    BY <2>1, <2>2 DEF Panes
  <2>3. CASE Replay
    <3>1. PICK a \in HistProcs : apps[a].left # <<>> /\ RecordReplayed(Head(apps[a].left))
      BY <2>3 DEF Replay
    <3> DEFINE line == Head(apps[a].left)
    <3>2. line \in LinesNow
      <4>1. apps[a].left \in Seq(LinesNow)
        BY DEF Replays
      <4>2. QED BY <3>1, <4>1
    <3>3. line.ts \in Int /\ line.ts < clock
      BY <3>2, LinesAreLines DEF ReplayLines
    <3>4. UNCHANGED <<panes, clock>>
      BY <2>3 DEF Replay
    <3>5. RecordReplayed(line)
      BY <3>1
    <3> HIDE DEF line
    <3>6. CASE UNCHANGED rows
      BY <2>2, <3>4, <3>6
    <3>7. CASE ~UNCHANGED rows
      <4>1. PICK id \in NextIds :
              rows' = rows \cup {[id |-> id, text |-> line.text, ts |-> line.ts,
                        src |-> line.src, run |-> Null, pane |-> Null, db |-> Null, cwd |-> Null,
                        exit |-> <<>>, of |-> line.at]}
        BY <3>5, <3>7 DEF RecordReplayed, Insert
      <4> DEFINE row == [id |-> id, text |-> line.text, ts |-> line.ts, src |-> line.src,
                         run |-> Null, pane |-> Null, db |-> Null, cwd |-> Null, exit |-> <<>>,
                         of |-> line.at]
      <4>2. row.id = id /\ row.ts = line.ts /\ row.exit = <<>> /\ rows' = rows \cup {row}
        BY <4>1
      <4> HIDE DEF row
      <4>3. /\ Dated' /\ ExitIsOfItsRun'
            /\ \A k \in Panes : panes[k].current # Null => HoldsItsRun(panes[k], rows')
        BY <3>3, <3>4, <4>2, NewRow
      <4>4. Holding'
        BY <3>4, <4>3 DEF Holding, Panes
      <4>5. QED BY <4>3, <4>4
    <3>8. QED BY <3>6, <3>7
  <2>4. CASE OpenPane
    <3>1. PICK a, id, db : panes' = [k \in Panes \cup {<<a, id>>} |->
                                       IF k \in Panes THEN panes[k] ELSE Opened(a, id, db, id)]
      BY <2>4 DEF OpenPane
    <3> DEFINE fresh == Opened(a, id, db, id)
    <3>2. {"current", "doing"} \subseteq DOMAIN fresh /\ fresh.current = Null
      BY DEF Opened
    <3> HIDE DEF fresh
    <3>3. \A k \in Panes' : (k \in Panes /\ panes'[k] = panes[k]) \/ panes'[k] = fresh
      BY <3>1 DEF Panes, fresh
    <3>4. UNCHANGED <<rows, clock>>
      BY <2>4 DEF OpenPane
    <3>5. QED BY <2>1, <3>2, <3>3, <3>4
  <2>5. CASE Exit
    <3>1. \A k \in Panes' : k \in Panes /\ panes'[k] = panes[k]
      BY <2>5 DEF Exit, Restrict, Panes
    <3>2. UNCHANGED <<rows, clock>>
      BY <2>5 DEF Exit
    <3>3. QED BY <2>1, <3>1, <3>2
  <2>6. CASE Trim
    <3>1. rows' \subseteq rows /\ UNCHANGED <<panes, clock>>
      BY <2>6 DEF Trim, kSubset
    <3>2. Dated' /\ ExitIsOfItsRun'
      BY <3>1 DEF Dated, ExitIsOfItsRun
    <3>3. Holding'
      BY <2>6, <3>1, TrimmedRows DEF Holding, Panes
    <3>4. QED BY <3>2, <3>3
  <2>7. CASE Preexec
    BY <2>7, BeginStep
  <2>8. CASE CommandFinished
    BY <2>8, EndStep
  <2>9. QED
    BY <2>2, <2>3, <2>4, <2>5, <2>6, <2>7, <2>8
       DEF HistoryNext, historyVars, ShelfGrows, Launch, OpenOverlay, UseOverlay
<1>3. QED BY <1>1, <1>2 DEF ExitInv

\* An exit code is stamped on the run of the command that ended with it, for
\* any cap that keeps a row: commands that never finish, inserts and stamps that
\* fail, trims and ids that are used again included (capture::on_event,
\* trim_runs_to_newest) - but for an insert that fails while a run is unfinished.
THEOREM ExitsAreStamped ==
  ASSUME RunsCap \in Nat \ {0}, "overrun" \notin HistFaults
  PROVE  HistorySpec => []ExitIsOfItsRun
<1>1. HistoryInit => ExitInv
  <2>1. HistoryInit => Dated /\ Holding /\ ExitIsOfItsRun
    BY DEF HistoryInit, Dated, Holding, ExitIsOfItsRun, Panes
  <2>2. QED BY <2>1, ReplayStarts DEF ExitInv
<1>2. ExitInv /\ [HistoryNext]_historyVars => ExitInv'
  BY ExitStep
<1>3. ExitInv => ExitIsOfItsRun
  BY DEF ExitInv
<1>4. QED BY <1>1, <1>2, <1>3, PTL DEF HistorySpec

-----------------------------------------------------------------------------
(* Recall: whose a run is.                                                 *)

PaneFields == {"run", "id", "db", "cwd", "current", "doing"}

\* Every start of the application mints an app run of its own.
RunsAreMinted ==
  /\ \A a \in HistProcs : apps[a].run <= launched
  /\ \A a, b \in HistProcs : apps[a].run = apps[b].run /\ apps[a].run # Null => a = b

\* A pane is of a process that runs, and shares its durable row with no other.
PanesAreOwned ==
  \A k \in Panes :
    /\ DOMAIN panes[k] = PaneFields
    /\ k = <<k[1], k[2]>> /\ k[1] \in HistProcs
    /\ panes[k].id = k[2] /\ panes[k].run = apps[k[1]].run /\ panes[k].run # Null
    /\ \A j \in Panes : panes[j].db = panes[k].db /\ panes[k].db # Null => j = k

\* A row of an app run that still goes on is of a pane of that process, and has
\* the durable row of that pane, or none when the pane has none.
OwnedBy(a, r) == <<a, r.pane>> \in Panes /\ r.db = panes[<<a, r.pane>>].db
RowsAreOwned ==
  \A r \in rows :
    /\ r.run \in Nat /\ r.run <= launched
    /\ \A a \in HistProcs : apps[a].run # Null /\ r.run = apps[a].run => OwnedBy(a, r)

RecallInv == ReplayInv /\ RunsAreMinted /\ PanesAreOwned /\ RowsAreOwned

\* What is of one pane is of no other, though another process counts its panes
\* from 1 as well and a pane may have no durable row.
LEMMA OwnedIsOwn ==
  ASSUME RunsAreMinted, PanesAreOwned, RowsAreOwned
  PROVE  RecallIsOwn
<1> SUFFICES ASSUME NEW j \in Panes, NEW k \in Panes,
                    NEW r \in PaneRows(panes[j]), r \in PaneRows(panes[k])
             PROVE  j = k
  BY DEF RecallIsOwn
<1>1. r \in rows
  BY DEF PaneRows
<1>2. ASSUME NEW i \in Panes, r \in PaneRows(panes[i]), panes[i].db = Null
      PROVE  /\ r.run = apps[i[1]].run /\ r.run # Null /\ r.pane = i[2]
             /\ i[1] \in HistProcs /\ i = <<i[1], r.pane>> /\ r.db = Null
  <2>1. r.pane = panes[i].id /\ r.run = panes[i].run
    BY <1>2 DEF PaneRows
  <2>2. /\ i = <<i[1], i[2]>> /\ i[1] \in HistProcs
        /\ panes[i].id = i[2] /\ panes[i].run = apps[i[1]].run /\ panes[i].run # Null
    BY DEF PanesAreOwned
  <2>3. OwnedBy(i[1], r)
    BY <1>1, <2>1, <2>2 DEF RowsAreOwned
  <2>4. <<i[1], r.pane>> = i
    BY <2>1, <2>2
  <2>5. r.db = panes[i].db
    BY <2>3, <2>4 DEF OwnedBy
  <2>6. QED BY <1>2, <2>1, <2>2, <2>4, <2>5
<1>3. ASSUME NEW i \in Panes, r \in PaneRows(panes[i]), panes[i].db # Null
      PROVE  r.db = panes[i].db
  BY <1>3 DEF PaneRows
<1>4. CASE panes[j].db # Null /\ panes[k].db # Null
  <2>1. panes[j].db = panes[k].db
    BY <1>3, <1>4
  <2>2. QED BY <1>4, <2>1 DEF PanesAreOwned
<1>5. CASE panes[j].db = Null /\ panes[k].db = Null
  <2>1. /\ r.run = apps[j[1]].run /\ r.run # Null /\ j[1] \in HistProcs /\ j = <<j[1], r.pane>>
        /\ r.run = apps[k[1]].run /\ k[1] \in HistProcs /\ k = <<k[1], r.pane>>
    BY <1>2, <1>5
  <2>2. j[1] = k[1]
    BY <2>1 DEF RunsAreMinted
  <2>3. QED BY <2>1, <2>2
<1>6. CASE panes[j].db # Null /\ panes[k].db = Null
  BY <1>2, <1>3, <1>6
<1>7. CASE panes[j].db = Null /\ panes[k].db # Null
  BY <1>2, <1>3, <1>7
<1>8. QED BY <1>4, <1>5, <1>6, <1>7

\* Rows that go, or get their exit code, are of the panes they were of.
LEMMA SameOwners ==
  ASSUME RunsAreMinted, RowsAreOwned, UNCHANGED <<apps, launched>>,
         Panes \subseteq Panes', \A k \in Panes : panes'[k].db = panes[k].db,
         \A r \in rows' : \E s \in rows : r.run = s.run /\ r.pane = s.pane /\ r.db = s.db
  PROVE  RunsAreMinted' /\ RowsAreOwned'
<1>1. RunsAreMinted'
  BY DEF RunsAreMinted
<1>2. ASSUME NEW r \in rows'
      PROVE  /\ r.run \in Nat /\ r.run <= launched'
             /\ \A a \in HistProcs : apps'[a].run # Null /\ r.run = apps'[a].run => OwnedBy(a, r)'
  <2>1. PICK s \in rows : r.run = s.run /\ r.pane = s.pane /\ r.db = s.db
    OBVIOUS
  <2>2. QED BY <2>1 DEF RowsAreOwned, OwnedBy
<1>3. QED BY <1>1, <1>2 DEF RowsAreOwned

\* One more row: of no run of the application, or of a pane that is open.
LEMMA OneMoreOwned ==
  ASSUME RunsAreMinted, PanesAreOwned, RowsAreOwned,
         apps \in [HistProcs -> [run : Nat, left : Seq(ReplayLines)]],
         launched \in Nat, UNCHANGED <<apps, launched>>, Panes' = Panes,
         \A k \in Panes : panes'[k].db = panes[k].db,
         NEW row, rows' = rows \cup {row},
         \/ row.run = Null
         \/ \E k \in Panes : row.run = panes[k].run /\ row.pane = panes[k].id /\ row.db = panes[k].db
  PROVE  RunsAreMinted' /\ RowsAreOwned'
<1>1. RunsAreMinted'
  BY DEF RunsAreMinted
<1>2. /\ row.run \in Nat /\ row.run <= launched
      /\ \A a \in HistProcs : apps[a].run # Null /\ row.run = apps[a].run => OwnedBy(a, row)
  <2>1. CASE row.run = Null
    BY <2>1 DEF Null
  <2>2. CASE \E k \in Panes : row.run = panes[k].run /\ row.pane = panes[k].id /\ row.db = panes[k].db
    <3>1. PICK k \in Panes : row.run = panes[k].run /\ row.pane = panes[k].id /\ row.db = panes[k].db
      BY <2>2
    <3>2. /\ k = <<k[1], k[2]>> /\ k[1] \in HistProcs
          /\ panes[k].id = k[2] /\ panes[k].run = apps[k[1]].run
      BY DEF PanesAreOwned
    <3>3. row.run \in Nat /\ row.run <= launched
      BY <3>1, <3>2 DEF RunsAreMinted
    <3>4. ASSUME NEW a \in HistProcs, apps[a].run # Null, row.run = apps[a].run
          PROVE  OwnedBy(a, row)
      <4>1. a = k[1]
        BY <3>1, <3>2, <3>4 DEF RunsAreMinted
      <4>2. <<a, row.pane>> = k
        BY <3>1, <3>2, <4>1
      <4>3. QED BY <3>1, <4>2 DEF OwnedBy
    <3>5. QED BY <3>3, <3>4
  <2>3. QED BY <2>1, <2>2
<1>3. \A r, a : OwnedBy(a, r)' <=> OwnedBy(a, r)
  BY DEF OwnedBy
<1>4. RowsAreOwned'
  BY <1>2, <1>3 DEF RowsAreOwned
<1>5. QED BY <1>1, <1>4

\* A process starts: its run is newer than any there is.
LEMMA LaunchOwns ==
  ASSUME RecallInv, Launch
  PROVE  RunsAreMinted' /\ PanesAreOwned' /\ RowsAreOwned'
<1> USE DEF RecallInv, ReplayInv
<1>1. PICK a \in HistProcs :
        /\ apps[a] = Down
        /\ apps' = [apps EXCEPT ![a] = [run |-> launched + 1, left |-> LinesOf("zsh") \o LinesOf("bash")]]
  BY DEF Launch
<1>2. launched \in Nat /\ launched' = launched + 1 /\ UNCHANGED <<rows, panes>>
  BY DEF Launch, Replays
<1>3. /\ apps'[a].run = launched + 1 /\ apps[a].run = Null
      /\ \A b \in HistProcs : apps[b].run \in Nat /\ (b # a => apps'[b] = apps[b])
  BY <1>1 DEF Replays, Down
<1>4. RunsAreMinted'
  <2>1. \A b \in HistProcs : apps'[b].run <= launched'
    BY <1>2, <1>3 DEF RunsAreMinted
  <2>2. ASSUME NEW b \in HistProcs, NEW c \in HistProcs,
               apps'[b].run = apps'[c].run, apps'[b].run # Null
        PROVE  b = c
    BY <1>2, <1>3, <2>2 DEF RunsAreMinted
  <2>3. QED BY <2>1, <2>2 DEF RunsAreMinted
<1>5. Panes' = Panes /\ \A k \in Panes : k[1] # a /\ apps'[k[1]] = apps[k[1]]
  BY <1>2, <1>3 DEF PanesAreOwned, Panes
<1>6. PanesAreOwned'
  BY <1>2, <1>5 DEF PanesAreOwned
<1>7. RowsAreOwned'
  <2> SUFFICES ASSUME NEW r \in rows
               PROVE  /\ r.run \in Nat /\ r.run <= launched'
                      /\ \A b \in HistProcs :
                           apps'[b].run # Null /\ r.run = apps'[b].run => OwnedBy(b, r)'
    BY <1>2 DEF RowsAreOwned
  <2>1. r.run \in Nat /\ r.run <= launched
    BY DEF RowsAreOwned
  <2>2. ASSUME NEW b \in HistProcs, apps'[b].run # Null, r.run = apps'[b].run PROVE OwnedBy(b, r)'
    <3>1. b # a
      BY <1>2, <1>3, <2>1, <2>2
    <3>2. OwnedBy(b, r)
      BY <1>3, <2>2, <3>1 DEF RowsAreOwned
    <3>3. QED BY <1>2, <3>2 DEF OwnedBy, Panes
  <2>3. QED BY <1>2, <2>1, <2>2
<1>8. QED BY <1>4, <1>6, <1>7

\* A process ends, and its panes with it.
LEMMA ExitOwns ==
  ASSUME RecallInv, Exit
  PROVE  RunsAreMinted' /\ PanesAreOwned' /\ RowsAreOwned'
<1> USE DEF RecallInv, ReplayInv
<1>1. PICK a \in HistProcs :
        /\ apps' = [apps EXCEPT ![a] = Down] /\ panes' = Restrict(panes, Panes \ Live(a))
  BY DEF Exit
<1>2. UNCHANGED <<rows, launched>> /\ launched \in Nat
  BY DEF Exit, Replays
<1>3. /\ apps'[a].run = Null
      /\ \A b \in HistProcs : b # a => apps'[b] = apps[b]
  BY <1>1 DEF Replays, Down
<1>4. /\ Panes' = {k \in Panes : k[1] # a}
      /\ \A k \in Panes' : panes'[k] = panes[k]
  BY <1>1 DEF Panes, Live, Restrict
<1>5. RunsAreMinted'
  BY <1>2, <1>3 DEF RunsAreMinted, Null
<1>6. PanesAreOwned'
  <2>1. ASSUME NEW k \in Panes'
        PROVE  k \in Panes /\ panes'[k] = panes[k] /\ apps'[k[1]] = apps[k[1]]
    BY <1>3, <1>4 DEF PanesAreOwned
  <2>2. QED BY <2>1 DEF PanesAreOwned
<1>7. RowsAreOwned'
  <2> SUFFICES ASSUME NEW r \in rows, NEW b \in HistProcs, apps'[b].run # Null, r.run = apps'[b].run
               PROVE  OwnedBy(b, r)'
    BY <1>2 DEF RowsAreOwned
  <2>1. b # a /\ apps'[b] = apps[b]
    BY <1>3
  <2>2. OwnedBy(b, r)
    BY <2>1 DEF RowsAreOwned
  <2>3. <<b, r.pane>> \in Panes'
    BY <1>4, <2>1, <2>2 DEF OwnedBy
  <2>4. QED BY <1>4, <2>2, <2>3 DEF OwnedBy
<1>8. QED BY <1>5, <1>6, <1>7

\* A pane opens, with a durable row that no other shows or with none.
LEMMA OpenOwns ==
  ASSUME RecallInv, OpenPane
  PROVE  RunsAreMinted' /\ PanesAreOwned' /\ RowsAreOwned'
<1> USE DEF RecallInv, ReplayInv
<1>1. PICK a, id, db :
        /\ a \in HistProcs /\ apps[a].run # Null /\ <<a, id>> \notin Panes
        /\ db # Null => \A k \in Panes : panes[k].db # db
        /\ panes' = [k \in Panes \cup {<<a, id>>} |->
                       IF k \in Panes THEN panes[k] ELSE Opened(a, id, db, id)]
  BY DEF OpenPane
<1>2. UNCHANGED <<rows, apps, launched>>
  BY DEF OpenPane
<1> DEFINE fresh == Opened(a, id, db, id)
<1>3. /\ DOMAIN fresh = PaneFields /\ fresh.id = id /\ fresh.db = db /\ fresh.run = apps[a].run
  BY DEF Opened, PaneFields
<1> HIDE DEF fresh
<1>4. /\ Panes' = Panes \cup {<<a, id>>} /\ panes'[<<a, id>>] = fresh
      /\ \A k \in Panes : panes'[k] = panes[k]
  BY <1>1 DEF Panes, fresh
<1>5. RunsAreMinted' /\ RowsAreOwned'
  <2>1. \A k \in Panes : panes'[k].db = panes[k].db
    BY <1>4
  <2>2. QED BY <1>2, <1>4, <2>1, SameOwners
<1>6. PanesAreOwned'
  <2>1. ASSUME NEW k \in Panes'
        PROVE  /\ DOMAIN panes'[k] = PaneFields
               /\ k = <<k[1], k[2]>> /\ k[1] \in HistProcs
               /\ panes'[k].id = k[2] /\ panes'[k].run = apps[k[1]].run /\ panes'[k].run # Null
    <3>1. CASE k \in Panes
      BY <1>4, <3>1 DEF PanesAreOwned
    <3>2. CASE k = <<a, id>>
      BY <1>1, <1>3, <1>4, <3>2
    <3>3. QED BY <1>4, <3>1, <3>2
  <2>2. ASSUME NEW k \in Panes', NEW j \in Panes', panes'[j].db = panes'[k].db, panes'[k].db # Null
        PROVE  j = k
    <3>1. CASE j \in Panes /\ k \in Panes
      BY <1>4, <2>2, <3>1 DEF PanesAreOwned
    <3>2. CASE j = <<a, id>> \/ k = <<a, id>>
      BY <1>1, <1>3, <1>4, <2>2, <3>2
    <3>3. QED BY <1>4, <3>1, <3>2
  <2>3. QED BY <1>2, <2>1, <2>2 DEF PanesAreOwned
<1>7. QED BY <1>5, <1>6

\* A pane that is set: what it is known by stays.
LEMMA SetOwns ==
  ASSUME RecallInv, NEW k \in Panes, NEW new, Set(k, new), UNCHANGED apps,
         DOMAIN new = PaneFields, new.id = panes[k].id, new.db = panes[k].db, new.run = panes[k].run
  PROVE  /\ PanesAreOwned' /\ Panes' = Panes
         /\ \A j \in Panes : panes'[j].db = panes[j].db
<1>1. Panes' = Panes /\ panes'[k] = new /\ \A j \in Panes : j # k => panes'[j] = panes[j]
  BY DEF Set, Panes
<1>2. \A j \in Panes : /\ DOMAIN panes'[j] = PaneFields /\ panes'[j].id = panes[j].id
                       /\ panes'[j].db = panes[j].db /\ panes'[j].run = panes[j].run
  BY <1>1 DEF RecallInv, PanesAreOwned
<1>3. PanesAreOwned'
  BY <1>1, <1>2 DEF RecallInv, PanesAreOwned
<1>4. QED BY <1>1, <1>2, <1>3

\* A command begins: its row is of its pane.
LEMMA BeginOwns ==
  ASSUME RecallInv, Preexec
  PROVE  RunsAreMinted' /\ PanesAreOwned' /\ RowsAreOwned'
<1> USE DEF RecallInv, ReplayInv
<1>1. UNCHANGED <<apps, launched>>
  BY DEF Preexec
<1>2. PICK k \in Panes, t \in HistTexts :
        \/ \E id \in NextIds :
                /\ Insert([id |-> id, text |-> t, ts |-> clock, src |-> "termica",
                           run |-> panes[k].run, pane |-> panes[k].id, db |-> panes[k].db,
                           cwd |-> panes[k].cwd, exit |-> <<>>, of |-> <<k, clock>>])
                /\ Set(k, [panes[k] EXCEPT !.current = id, !.doing = <<k, clock>>])
        \/ UNCHANGED rows /\ Set(k, [panes[k] EXCEPT !.doing = <<k, clock>>])
  BY DEF Preexec
<1>3. DOMAIN panes[k] = PaneFields
  BY DEF PanesAreOwned
<1>4. CASE UNCHANGED rows /\ Set(k, [panes[k] EXCEPT !.doing = <<k, clock>>])
  <2> DEFINE new == [panes[k] EXCEPT !.doing = <<k, clock>>]
  <2>1. /\ DOMAIN new = PaneFields
        /\ new.id = panes[k].id /\ new.db = panes[k].db /\ new.run = panes[k].run
    BY <1>3 DEF PaneFields
  <2>2. Set(k, new)
    BY <1>4
  <2> HIDE DEF new
  <2>3. PanesAreOwned' /\ Panes' = Panes /\ \A j \in Panes : panes'[j].db = panes[j].db
    BY <1>1, <2>1, <2>2, SetOwns
  <2>4. RunsAreMinted' /\ RowsAreOwned'
    BY <1>1, <1>4, <2>3, SameOwners
  <2>5. QED BY <2>3, <2>4
<1>5. ASSUME NEW id,
             Insert([id |-> id, text |-> t, ts |-> clock, src |-> "termica",
                     run |-> panes[k].run, pane |-> panes[k].id, db |-> panes[k].db,
                     cwd |-> panes[k].cwd, exit |-> <<>>, of |-> <<k, clock>>]),
             Set(k, [panes[k] EXCEPT !.current = id, !.doing = <<k, clock>>])
      PROVE  RunsAreMinted' /\ PanesAreOwned' /\ RowsAreOwned'
  <2> DEFINE new == [panes[k] EXCEPT !.current = id, !.doing = <<k, clock>>]
             row == [id |-> id, text |-> t, ts |-> clock, src |-> "termica",
                     run |-> panes[k].run, pane |-> panes[k].id, db |-> panes[k].db,
                     cwd |-> panes[k].cwd, exit |-> <<>>, of |-> <<k, clock>>]
  <2>1. /\ DOMAIN new = PaneFields
        /\ new.id = panes[k].id /\ new.db = panes[k].db /\ new.run = panes[k].run
    BY <1>3 DEF PaneFields
  <2>2. row.run = panes[k].run /\ row.pane = panes[k].id /\ row.db = panes[k].db
    OBVIOUS
  <2>3. Set(k, new) /\ rows' = rows \cup {row}
    BY <1>5 DEF Insert
  <2> HIDE DEF new, row
  <2>4. PanesAreOwned' /\ Panes' = Panes /\ \A j \in Panes : panes'[j].db = panes[j].db
    BY <1>1, <2>1, <2>3, SetOwns
  <2>5. apps \in [HistProcs -> [run : Nat, left : Seq(ReplayLines)]] /\ launched \in Nat
    BY DEF Replays
  <2>6. RunsAreMinted' /\ RowsAreOwned'
    BY <1>1, <2>2, <2>3, <2>4, <2>5, OneMoreOwned
  <2>7. QED BY <2>4, <2>6
<1>6. QED BY <1>2, <1>4, <1>5

\* A command ends: its row stays of its pane.
LEMMA EndOwns ==
  ASSUME RecallInv, CommandFinished
  PROVE  RunsAreMinted' /\ PanesAreOwned' /\ RowsAreOwned'
<1> USE DEF RecallInv, ReplayInv
<1>1. UNCHANGED <<apps, launched>>
  BY DEF CommandFinished
<1>2. PICK k \in Panes :
        /\ Set(k, Finished(panes[k]))
        /\ \/ rows' = {IF r.id = panes[k].current THEN [r EXCEPT !.exit = panes[k].doing] ELSE r :
                       r \in rows}
           \/ UNCHANGED rows
  BY DEF CommandFinished
<1> DEFINE new == Finished(panes[k])
           Image(r) == IF r.id = panes[k].current THEN [r EXCEPT !.exit = panes[k].doing] ELSE r
<1>3. DOMAIN panes[k] = PaneFields
  BY DEF PanesAreOwned
<1>4. /\ DOMAIN new = PaneFields
      /\ new.id = panes[k].id /\ new.db = panes[k].db /\ new.run = panes[k].run
  BY <1>3 DEF PaneFields, Finished
<1>5. \A r \in rows : Image(r).run = r.run /\ Image(r).pane = r.pane /\ Image(r).db = r.db
  BY DEF RowsOfLines, Columns
<1>6. Set(k, new) /\ (rows' = {Image(r) : r \in rows} \/ rows' = rows)
  BY <1>2
<1> HIDE DEF new, Image
<1>7. PanesAreOwned' /\ Panes' = Panes /\ \A j \in Panes : panes'[j].db = panes[j].db
  BY <1>1, <1>4, <1>6, SetOwns
<1>8. \A r \in rows' : \E s \in rows : r.run = s.run /\ r.pane = s.pane /\ r.db = s.db
  BY <1>5, <1>6
<1>9. RunsAreMinted' /\ RowsAreOwned'
  BY <1>1, <1>7, <1>8, SameOwners
<1>10. QED BY <1>7, <1>9

\* Every step keeps the runs with their panes.
LEMMA RecallStep == RecallInv /\ [HistoryNext]_historyVars => RecallInv'
<1> SUFFICES ASSUME RecallInv, [HistoryNext]_historyVars PROVE RecallInv'
  OBVIOUS
<1>1. ReplayInv'
  BY ReplayStep DEF RecallInv
<1>2. RunsAreMinted' /\ PanesAreOwned' /\ RowsAreOwned'
  <2> USE DEF RecallInv, ReplayInv
  <2>1. CASE UNCHANGED <<apps, panes, launched>> /\ rows' \subseteq rows
    <3>1. PanesAreOwned'
      BY <2>1 DEF PanesAreOwned, Panes
    <3>2. RunsAreMinted' /\ RowsAreOwned'
      BY <2>1, SameOwners DEF Panes
    <3>3. QED BY <3>1, <3>2
  <2>2. CASE Replay
    <3>1. PICK a \in HistProcs :
            apps' = [apps EXCEPT ![a].left = Tail(@)] /\ RecordReplayed(Head(apps[a].left))
      BY <2>2 DEF Replay
    <3>2. UNCHANGED <<panes, launched>> /\ launched \in Nat
      BY <2>2 DEF Replay, Replays
    <3>3. \A b \in HistProcs : apps'[b].run = apps[b].run
      BY <3>1 DEF Replays
    <3>4. PanesAreOwned' /\ RunsAreMinted'
      BY <3>2, <3>3 DEF PanesAreOwned, RunsAreMinted, Panes
    <3>5. \A r \in rows' : r \in rows \/ r.run = Null
      <4>1. RecordReplayed(Head(apps[a].left))
        BY <3>1
      <4>2. QED BY <4>1 DEF RecordReplayed, Insert
    <3>6. \A r, b : OwnedBy(b, r)' <=> OwnedBy(b, r)
      BY <3>2 DEF OwnedBy, Panes
    <3>7. RowsAreOwned'
      BY <3>2, <3>3, <3>5, <3>6 DEF RowsAreOwned, Null
    <3>8. QED BY <3>4, <3>7
  <2>3. CASE Trim
    <3>1. rows' \subseteq rows /\ UNCHANGED <<apps, panes, launched>>
      BY <2>3 DEF Trim, kSubset
    <3>2. QED BY <2>1, <3>1
  <2>4. QED
    BY <2>1, <2>2, <2>3, LaunchOwns, ExitOwns, OpenOwns, BeginOwns, EndOwns
       DEF HistoryNext, historyVars, ShelfGrows, OpenOverlay, UseOverlay
<1>3. QED BY <1>1, <1>2 DEF RecallInv

-----------------------------------------------------------------------------
(* The overlay: what it lists, and in which order.                         *)

Orders(before, S) ==
  /\ \A x \in S : <<x, x>> \notin before
  /\ \A x, y, z \in S : <<x, y>> \in before /\ <<y, z>> \in before => <<x, z>> \in before
  /\ \A x, y \in S : x # y => <<x, y>> \in before \/ <<y, x>> \in before

\* Put in order, a finite set is all there, each member once: no two have as many
\* before them, so every number below the size of the set is that of one.
LEMMA OrderedHasAll ==
  ASSUME NEW S, IsFiniteSet(S), NEW before, Orders(before, S)
  PROVE  /\ Ordered(S, before) \in Seq(S)
         /\ \A k, l \in 1..Len(Ordered(S, before)) :
              Ordered(S, before)[k] = Ordered(S, before)[l] => k = l
<1> DEFINE N == Cardinality(S)
           B(x) == {y \in S : <<y, x>> \in before}
           f == [x \in S |-> Cardinality(B(x))]
<1>1. N \in Nat
  BY FS_CardinalityType
<1>2. ASSUME NEW x \in S PROVE IsFiniteSet(B(x)) /\ Cardinality(B(x)) \in 0..(N - 1)
  <2>1. B(x) \in SUBSET (S \ {x})
    BY DEF Orders
  <2>2. IsFiniteSet(S \ {x}) /\ Cardinality(S \ {x}) = N - 1
    BY FS_RemoveElement
  <2> HIDE DEF B, N
  <2>3. IsFiniteSet(B(x)) /\ Cardinality(B(x)) <= N - 1
    BY <2>1, <2>2, FS_Subset
  <2>4. Cardinality(B(x)) \in Nat
    BY <2>3, FS_CardinalityType
  <2>5. QED BY <1>1, <2>3, <2>4
<1>3. ASSUME NEW x \in S, NEW y \in S, <<x, y>> \in before
      PROVE  Cardinality(B(x)) < Cardinality(B(y))
  <2>1. B(x) \cup {x} \in SUBSET B(y) /\ x \notin B(x)
    BY <1>3 DEF Orders
  <2>2. IsFiniteSet(B(x)) /\ IsFiniteSet(B(y))
        /\ Cardinality(B(x)) \in Nat /\ Cardinality(B(y)) \in Nat
    BY <1>1, <1>2
  <2> HIDE DEF B
  <2>3. Cardinality(B(x) \cup {x}) = Cardinality(B(x)) + 1
    BY <2>1, <2>2, FS_AddElement
  <2>4. Cardinality(B(x) \cup {x}) <= Cardinality(B(y))
    BY <2>1, <2>2, FS_Subset
  <2>5. QED BY <2>2, <2>3, <2>4
<1> HIDE DEF B
<1>4. f \in Injection(S, 0..(N - 1))
  <2>1. f \in [S -> 0..(N - 1)]
    BY <1>2
  <2>2. ASSUME NEW x \in S, NEW y \in S, x # y PROVE f[x] # f[y]
    <3>1. CASE <<x, y>> \in before
      BY <1>1, <1>2, <1>3, <3>1
    <3>2. CASE <<y, x>> \in before
      BY <1>1, <1>2, <1>3, <3>2
    <3>3. QED BY <2>2, <3>1, <3>2 DEF Orders
  <2>3. QED BY <2>1, <2>2 DEF Injection, IsInjective
<1>5. IsFiniteSet(0..(N - 1)) /\ Cardinality(0..(N - 1)) = N
  <2>1. 0 \in Int /\ N - 1 \in Int
    BY <1>1
  <2>2. /\ IsFiniteSet(0..(N - 1))
        /\ Cardinality(0..(N - 1)) = IF 0 > N - 1 THEN 0 ELSE (N - 1) - 0 + 1
    BY <2>1, FS_Interval
  <2>3. QED BY <1>1, <2>2
<1>6. f \in Surjection(S, 0..(N - 1))
  <2>1. Cardinality(S) = Cardinality(0..(N - 1))
    BY <1>5
  <2> DEFINE T == 0..(N - 1)
  <2>2. f \in Injection(S, T) /\ IsFiniteSet(T) /\ Cardinality(S) = Cardinality(T)
    BY <1>4, <1>5, <2>1
  <2> HIDE DEF f, T
  <2>3. f \in Surjection(S, T)
    BY <2>2, FS_Injection
  <2>4. QED BY <2>3 DEF T
<1>7. ASSUME NEW k \in 1..N PROVE \E x \in S : Cardinality(B(x)) = k - 1
  <2>1. k - 1 \in 0..(N - 1)
    BY <1>1
  <2>2. PICK x \in S : f[x] = k - 1
    <3> HIDE DEF f
    <3>1. QED BY <1>6, <2>1 DEF Surjection
  <2>3. QED BY <2>2
<1> DEFINE s == Ordered(S, before)
<1>8. s = [k \in 1..N |-> CHOOSE x \in S : Cardinality(B(x)) = k - 1]
  BY DEF Ordered, B
<1>9. \A k \in 1..N : s[k] \in S /\ Cardinality(B(s[k])) = k - 1
  <2> HIDE DEF s
  <2>1. QED BY <1>7, <1>8
<1>10. s \in Seq(S) /\ Len(s) = N
  <2> HIDE DEF s, N
  <2>1. QED BY <1>1, <1>8, <1>9
<1>11. \A k, l \in 1..Len(s) : s[k] = s[l] => k = l
  <2> HIDE DEF s, N
  <2>1. QED BY <1>1, <1>9, <1>10
<1>12. QED BY <1>10, <1>11

\* Newest first is an order of runs with ids of their own.
LEMMA NewestOrders ==
  ASSUME NEW S, \A r \in S : r.id \in Int /\ r.ts \in Int, \A r, s \in S : r.id = s.id => r = s
  PROVE  Orders({rs \in S \X S : Newest(rs[1], rs[2])}, S)
<1> DEFINE before == {rs \in S \X S : Newest(rs[1], rs[2])}
<1>1. \A r, s \in S : <<r, s>> \in before <=> Newest(r, s)
  OBVIOUS
<1> HIDE DEF before
<1>2. \A r \in S : <<r, r>> \notin before
  BY <1>1 DEF Newest
<1>3. ASSUME NEW x \in S, NEW y \in S, NEW z \in S, <<x, y>> \in before, <<y, z>> \in before
      PROVE  <<x, z>> \in before
  BY <1>1, <1>3 DEF Newest
<1>4. ASSUME NEW x \in S, NEW y \in S, x # y
      PROVE  <<x, y>> \in before \/ <<y, x>> \in before
  BY <1>1, <1>4 DEF Newest
<1>5. QED BY <1>2, <1>3, <1>4 DEF Orders, before

\* A list of runs: each has its id and its text for itself.
Listing(l) ==
  /\ Len(l) \in Nat /\ DOMAIN l = 1..Len(l)
  /\ \A i \in 1..Len(l) : l[i].id \in Int /\ l[i].ts \in Int /\ l[i].text \in HistTexts
  /\ \A i, j \in 1..Len(l) : l[i].id = l[j].id => i = j
  /\ \A i, j \in 1..Len(l) : l[i].text = l[j].text => i = j

\* So is the ranking of what a query finds.
LEMMA BetterOrders ==
  ASSUME NEW l, Listing(l), NEW S \in SUBSET (1..Len(l)), NEW query, NEW cwd
  PROVE  Orders({ij \in S \X S : Better(l[ij[1]], l[ij[2]], query, cwd)}, S)
<1> DEFINE before == {ij \in S \X S : Better(l[ij[1]], l[ij[2]], query, cwd)}
           h(i) == Here(l[i], cwd)
           n(i) == Hits(l[i], query)
           o(i) == InOrder(l[i], query)
           newer(i, j) == Newest(l[i], l[j])
<1>1. ASSUME NEW i \in S PROVE h(i) \in BOOLEAN /\ o(i) \in BOOLEAN /\ n(i) \in Nat
  <2>1. h(i) \in BOOLEAN
    BY DEF Here
  <2>2. o(i) \in BOOLEAN
    BY DEF InOrder
  <2>3. n(i) \in Nat
    <3> DEFINE t == l[i].text
               hits == {k \in DOMAIN t : t[k] \in ToSet(query)}
    <3>1. t \in Seq(STRING)
      BY HistoryAssumption DEF Listing
    <3> HIDE DEF t
    <3>2. Len(t) \in Nat /\ DOMAIN t = 1..Len(t)
      BY <3>1
    <3>3. IsFiniteSet(1..Len(t))
      BY <3>2, FS_Interval
    <3>4. hits \in SUBSET (1..Len(t))
      BY <3>2
    <3> HIDE DEF hits
    <3>5. Cardinality(hits) \in Nat
      BY <3>3, <3>4, FS_Subset, FS_CardinalityType
    <3>6. QED BY <3>5 DEF Hits, hits, t
  <2>4. QED BY <2>1, <2>2, <2>3
<1>2. \A i, j \in S : newer(i, j) \in BOOLEAN
  BY DEF Newest
<1>3. /\ \A i \in S : ~newer(i, i)
      /\ \A i, j, k \in S : newer(i, j) /\ newer(j, k) => newer(i, k)
      /\ \A i, j \in S : i # j => newer(i, j) \/ newer(j, i)
  BY DEF Listing, Newest
<1>4. ASSUME NEW i \in S, NEW j \in S
      PROVE  <<i, j>> \in before <=>
               \/ h(i) /\ ~h(j)
               \/ /\ h(i) <=> h(j)
                  /\ \/ n(i) > n(j)
                     \/ /\ n(i) = n(j)
                        /\ (o(i) /\ ~o(j)) \/ ((o(i) <=> o(j)) /\ newer(i, j))
  <2>1. <<i, j>> \in before <=> Better(l[i], l[j], query, cwd)
    OBVIOUS
  <2> HIDE DEF before
  <2>2. QED BY <2>1 DEF Better
<1> HIDE DEF h, n, o, newer, before
<1>5. \A i, j \in S : <<i, j>> \in before <=>
        \/ h(i) /\ ~h(j)
        \/ (h(i) <=> h(j)) /\ n(i) > n(j)
        \/ (h(i) <=> h(j)) /\ n(i) = n(j) /\ o(i) /\ ~o(j)
        \/ (h(i) <=> h(j)) /\ n(i) = n(j) /\ (o(i) <=> o(j)) /\ newer(i, j)
  BY <1>4
<1>6. \A i \in S : <<i, i>> \notin before
  BY <1>1, <1>3, <1>5
<1>7. ASSUME NEW i \in S, NEW j \in S, NEW k \in S, <<i, j>> \in before, <<j, k>> \in before
      PROVE  <<i, k>> \in before
  BY <1>1, <1>3, <1>5, <1>7
<1>8. ASSUME NEW i \in S, NEW j \in S, i # j PROVE <<i, j>> \in before \/ <<j, i>> \in before
  BY <1>1, <1>3, <1>5, <1>8
<1>9. QED BY <1>6, <1>7, <1>8 DEF Orders, before

\* The overlay's rows are rows of its list, those that the query finds.
LEMMA RankedAreListed ==
  ASSUME NEW l, Listing(l), NEW query, NEW cwd
  PROVE  ToSet(Rank(l, query, cwd)) \subseteq DOMAIN l
<1> DEFINE found == {i \in DOMAIN l : Holds(l[i], query)}
           before == {ij \in found \X found : Better(l[ij[1]], l[ij[2]], query, cwd)}
           s == Ordered(found, before)
<1>1. found \in SUBSET (1..Len(l)) /\ Len(l) \in Nat
  BY DEF Listing
<1>2. IsFiniteSet(found)
  <2>1. IsFiniteSet(1..Len(l))
    BY <1>1, FS_Interval
  <2> HIDE DEF found
  <2>2. QED BY <1>1, <2>1, FS_Subset
<1>3. Rank(l, query, cwd) = s
  BY DEF Rank
<1> HIDE DEF found
<1>4. Orders(before, found)
  BY <1>1, BetterOrders
<1> HIDE DEF before
<1>5. s \in Seq(found)
  BY <1>2, <1>4, OrderedHasAll
<1> HIDE DEF s
<1>6. ToSet(s) \subseteq found
  BY <1>5 DEF ToSet
<1>7. QED BY <1>3, <1>6 DEF found

\* One command is listed once, by its newest run.
LEMMA DedupedLists ==
  ASSUME NEW S, \A r \in S : r.id \in Int /\ r.ts \in Int /\ r.text \in HistTexts,
         \A r, s \in S : r.id = s.id => r = s, NEW entries \in Seq(S)
  PROVE  Deduped(entries) \in Seq(S) /\ Listing(Deduped(entries))
<1> DEFINE places == {i \in DOMAIN entries : \A j \in 1..(i - 1) : entries[j].text # entries[i].text}
           l == Keep(entries, places)
<1>1. Deduped(entries) = l
  BY DEF Deduped
<1>2. \A i \in places, j \in 1..Len(entries) :
        i \in 1..Len(entries) /\ (j < i => entries[j].text # entries[i].text)
  OBVIOUS
<1> HIDE DEF places
<1>3. l \in Seq(S)
  BY KeepType
<1>4. PICK from : KeptFrom(from, entries, places)
  BY KeepPlaces
<1>5. /\ \A k \in 1..Len(l) : from[k] \in 1..Len(entries) /\ from[k] \in places
                              /\ l[k] = entries[from[k]]
      /\ \A j, k \in 1..Len(l) : j < k => from[j] < from[k]
  BY <1>4 DEF KeptFrom
<1> HIDE DEF l
<1>6. Len(l) \in Nat /\ DOMAIN l = 1..Len(l) /\ \A i \in 1..Len(l) : l[i] \in S
  BY <1>3
<1>7. ASSUME NEW i \in 1..Len(l), NEW j \in 1..Len(l), i < j PROVE l[i].text # l[j].text
  <2>1. from[i] < from[j] /\ from[j] \in places /\ from[i] \in 1..Len(entries)
        /\ l[i] = entries[from[i]] /\ l[j] = entries[from[j]]
    BY <1>5, <1>7
  <2>2. entries[from[i]].text # entries[from[j]].text
    BY <1>2, <2>1
  <2>3. QED BY <2>1, <2>2
<1>8. \A i, j \in 1..Len(l) : l[i].text = l[j].text => i = j
  BY <1>6, <1>7
<1>9. \A i, j \in 1..Len(l) : l[i].id = l[j].id => i = j
  BY <1>6, <1>8
<1>10. QED BY <1>1, <1>3, <1>6, <1>8, <1>9 DEF Listing

\* The table: rows have ids of their own, and a row of a file is of no pane.
Numbered ==
  /\ IsFiniteSet(rows)
  /\ \A r \in rows : /\ r.id \in Nat /\ r.ts \in Int /\ r.text \in HistTexts
                     /\ r.src = "termica" \/ (r.db = Null /\ r.run = Null)
  /\ \A r, s \in rows : r.id = s.id => r = s

\* Any of the rows can be listed.
LEMMA RowsAreListed ==
  ASSUME Numbered, NEW S \in SUBSET rows
  PROVE  LET l == Deduped(Recent(S))
         IN  Listing(l) /\ \A i \in 1..Len(l) : l[i] \in S
<1> DEFINE before == {rs \in S \X S : Newest(rs[1], rs[2])}
           all == Ordered(S, before)
<1>1. IsFiniteSet(S)
  BY FS_Subset DEF Numbered
<1>2. \A r \in S : r.id \in Int /\ r.ts \in Int /\ r.text \in HistTexts
  BY DEF Numbered
<1>3. \A r, s \in S : r.id = s.id => r = s
  BY DEF Numbered
<1>4. Orders(before, S)
  BY <1>2, <1>3, NewestOrders
<1>5. Recent(S) = all
  BY DEF Recent
<1> HIDE DEF before
<1>6. all \in Seq(S)
  BY <1>1, <1>4, OrderedHasAll
<1> HIDE DEF all
<1>7. Deduped(all) \in Seq(S) /\ Listing(Deduped(all))
  BY <1>2, <1>3, <1>6, DedupedLists
<1> DEFINE l == Deduped(all)
<1> HIDE DEF l
<1>8. \A i \in 1..Len(l) : l[i] \in S
  <2>1. l \in Seq(S)
    BY <1>7 DEF l
  <2>2. QED BY <2>1
<1>9. QED BY <1>5, <1>7, <1>8 DEF l

LEMMA NumberedRow ==
  ASSUME Numbered, NEW id \in NextIds, NEW row, rows' = rows \cup {row},
         row.id = id, row.ts \in Int, row.text \in HistTexts,
         row.src = "termica" \/ (row.db = Null /\ row.run = Null)
  PROVE  Numbered'
<1>1. id \in Nat /\ \A r \in rows : r.id < id
  BY DEF NextIds, Numbered
<1>2. IsFiniteSet(rows')
  BY FS_AddElement DEF Numbered
<1>3. \A r \in rows' : /\ r.id \in Nat /\ r.ts \in Int /\ r.text \in HistTexts
                       /\ r.src = "termica" \/ (r.db = Null /\ r.run = Null)
  BY <1>1 DEF Numbered
<1>4. \A r, s \in rows' : r.id = s.id => r = s
  <2> SUFFICES ASSUME NEW r \in rows', NEW s \in rows', r.id = s.id PROVE r = s
    OBVIOUS
  <2>1. CASE r \in rows /\ s \in rows
    BY <2>1 DEF Numbered
  <2>2. CASE r = row /\ s = row
    BY <2>2
  <2>3. CASE r = row /\ s \in rows
    BY <1>1, <2>3 DEF Numbered
  <2>4. CASE r \in rows /\ s = row
    BY <1>1, <2>4 DEF Numbered
  <2>5. QED BY <2>1, <2>2, <2>3, <2>4
<1>5. QED BY <1>2, <1>3, <1>4 DEF Numbered

LEMMA NumberedStep ==
  ASSUME ReplayInv, Numbered, [HistoryNext]_historyVars
  PROVE  Numbered'
<1> USE DEF ReplayInv
<1>1. CASE UNCHANGED rows
  BY <1>1 DEF Numbered
<1>2. CASE Replay
  <2>1. PICK a \in HistProcs : apps[a].left # <<>> /\ RecordReplayed(Head(apps[a].left))
    BY <1>2 DEF Replay
  <2> DEFINE line == Head(apps[a].left)
  <2>2. line \in LinesNow
    BY <2>1 DEF Replays
  <2>3. line \in ReplayLines
    BY <2>2, LinesAreLines
  <2> HIDE DEF line
  <2>4. line.ts \in Int /\ line.text \in HistTexts
    BY <2>3 DEF ReplayLines
  <2>5. CASE ~UNCHANGED rows
    <3>1. RecordReplayed(line)
      BY <2>1 DEF line
    <3>2. PICK id \in NextIds :
            rows' = rows \cup {[id |-> id, text |-> line.text, ts |-> line.ts, src |-> line.src,
                                run |-> Null, pane |-> Null, db |-> Null, cwd |-> Null,
                                exit |-> <<>>, of |-> line.at]}
      BY <2>5, <3>1 DEF RecordReplayed, Insert
    <3> DEFINE row == [id |-> id, text |-> line.text, ts |-> line.ts, src |-> line.src,
                       run |-> Null, pane |-> Null, db |-> Null, cwd |-> Null,
                       exit |-> <<>>, of |-> line.at]
    <3>3. row.id = id /\ row.ts \in Int /\ row.text \in HistTexts /\ row.db = Null /\ row.run = Null
      BY <2>4
    <3> HIDE DEF row
    <3>4. rows' = rows \cup {row}
      BY <3>2 DEF row
    <3>5. QED BY <3>3, <3>4, NumberedRow
  <2>6. QED BY <1>1, <2>5
<1>3. CASE Preexec
  <2>1. clock \in Int
    BY DEF Shelves
  <2>2. PICK k \in Panes, t \in HistTexts :
          \/ \E id \in NextIds :
               Insert([id |-> id, text |-> t, ts |-> clock, src |-> "termica",
                       run |-> panes[k].run, pane |-> panes[k].id, db |-> panes[k].db,
                       cwd |-> panes[k].cwd, exit |-> <<>>, of |-> <<k, clock>>])
          \/ UNCHANGED rows
    BY <1>3 DEF Preexec
  <2>3. CASE ~UNCHANGED rows
    <3>1. PICK id \in NextIds :
            Insert([id |-> id, text |-> t, ts |-> clock, src |-> "termica",
                    run |-> panes[k].run, pane |-> panes[k].id, db |-> panes[k].db,
                    cwd |-> panes[k].cwd, exit |-> <<>>, of |-> <<k, clock>>])
      BY <2>2, <2>3
    <3> DEFINE row == [id |-> id, text |-> t, ts |-> clock, src |-> "termica",
                       run |-> panes[k].run, pane |-> panes[k].id, db |-> panes[k].db,
                       cwd |-> panes[k].cwd, exit |-> <<>>, of |-> <<k, clock>>]
    <3>2. row.id = id /\ row.ts \in Int /\ row.text \in HistTexts /\ row.src = "termica"
      BY <2>1
    <3>3. rows' = rows \cup {row}
      BY <3>1 DEF Insert
    <3> HIDE DEF row
    <3>4. QED BY <3>2, <3>3, NumberedRow
  <2>4. QED BY <1>1, <2>3
<1>4. CASE CommandFinished
  <2>1. PICK k \in Panes :
          \/ rows' = {IF r.id = panes[k].current THEN [r EXCEPT !.exit = panes[k].doing] ELSE r :
                      r \in rows}
          \/ UNCHANGED rows
    BY <1>4 DEF CommandFinished
  <2>2. CASE ~UNCHANGED rows
    <3> DEFINE Image(r) == IF r.id = panes[k].current THEN [r EXCEPT !.exit = panes[k].doing] ELSE r
               images == [r \in rows |-> Image(r)]
    <3>1. rows' = {Image(r) : r \in rows}
      BY <2>1, <2>2
    <3>2. \A r \in rows : /\ Image(r).id = r.id /\ Image(r).ts = r.ts /\ Image(r).text = r.text
                          /\ Image(r).src = r.src /\ Image(r).db = r.db /\ Image(r).run = r.run
      BY DEF RowsOfLines, Columns
    <3> HIDE DEF Image
    <3>3. images \in Surjection(rows, rows')
      BY <3>1 DEF Surjection
    <3>4. IsFiniteSet(rows')
      BY <3>3, FS_Surjection DEF Numbered
    <3>5. \A r, s \in rows' : r.id = s.id => r = s
      BY <3>1, <3>2 DEF Numbered
    <3>6. \A r \in rows' : /\ r.id \in Nat /\ r.ts \in Int /\ r.text \in HistTexts
                           /\ r.src = "termica" \/ (r.db = Null /\ r.run = Null)
      BY <3>1, <3>2 DEF Numbered
    <3>7. QED BY <3>4, <3>5, <3>6 DEF Numbered
  <2>3. QED BY <1>1, <2>2
<1>5. CASE Trim
  <2>1. rows' \in SUBSET rows
    BY <1>5 DEF Trim, kSubset
  <2>2. IsFiniteSet(rows')
    BY <2>1, FS_Subset DEF Numbered
  <2>3. QED BY <2>1, <2>2 DEF Numbered
<1>6. QED
  BY <1>1, <1>2, <1>3, <1>4, <1>5
     DEF HistoryNext, historyVars, ShelfGrows, Launch, OpenPane, Exit, OpenOverlay, UseOverlay

OverlayFields == {"open", "pane", "scope", "query", "sel", "entries", "ranked"}

\* What is listed under a label is what it says, and the rows shown are listed:
\* the table may change while the overlay is open, its list does not.
Shows(o) ==
  /\ DOMAIN o = OverlayFields /\ o.pane \in Panes /\ Listing(o.entries)
  /\ o.scope = "pane" => \A i \in 1..Len(o.entries) : o.entries[i].src = "termica"
  /\ ToSet(o.ranked) \subseteq DOMAIN o.entries

OverlayInv == overlay = Closed \/ (overlay.open /\ Shows(overlay))

LEMMA PaneRowsAreOurs ==
  ASSUME Numbered, PanesAreOwned, NEW k \in Panes
  PROVE  PaneRows(panes[k]) \in SUBSET rows /\ \A r \in PaneRows(panes[k]) : r.src = "termica"
<1>1. panes[k].run # Null
  BY DEF PanesAreOwned
<1>2. \A r \in rows : r.src = "termica" \/ (r.db = Null /\ r.run = Null)
  BY DEF Numbered
<1>3. QED BY <1>1, <1>2 DEF PaneRows

LEMMA ListedShows ==
  ASSUME Numbered, PanesAreOwned, NEW k \in Panes, NEW scope
  PROVE  /\ Listing(Listed(panes[k], scope))
         /\ scope = "pane" => \A i \in 1..Len(Listed(panes[k], scope)) :
                                Listed(panes[k], scope)[i].src = "termica"
<1> DEFINE S == IF scope = "global" THEN rows ELSE PaneRows(panes[k])
           l == Deduped(Recent(S))
<1>1. S \in SUBSET rows /\ (scope = "pane" => \A r \in S : r.src = "termica")
  BY PaneRowsAreOurs
<1> HIDE DEF S
<1>2. Listing(l) /\ \A i \in 1..Len(l) : l[i] \in S
  BY <1>1, RowsAreListed
<1>3. Listed(panes[k], scope) = l
  BY DEF Listed, S
<1> HIDE DEF l
<1>4. QED BY <1>1, <1>2, <1>3

\* Whatever the query, what is ranked are rows of the list.
LEMMA RerankedShows ==
  ASSUME NEW o, DOMAIN o = OverlayFields, o.pane \in Panes, Listing(o.entries),
         o.scope = "pane" => \A i \in 1..Len(o.entries) : o.entries[i].src = "termica", NEW cwd
  PROVE  Shows(Reranked(o, cwd)) /\ Reranked(o, cwd).open = o.open
<1> DEFINE r == Reranked(o, cwd)
           shown == Rank(o.entries, o.query, cwd)
<1>1. ToSet(shown) \subseteq DOMAIN o.entries
  BY RankedAreListed
<1>2. r = [o EXCEPT !.ranked = shown, !.sel = 1]
  BY DEF Reranked
<1> HIDE DEF r, shown
<1>3. /\ DOMAIN r = OverlayFields /\ r.pane = o.pane /\ r.entries = o.entries
      /\ r.scope = o.scope /\ r.ranked = shown /\ r.open = o.open
  BY <1>2 DEF OverlayFields
<1>4. Shows(r)
  BY <1>1, <1>3 DEF Shows
<1>5. QED BY <1>3, <1>4 DEF r

\* Every step of the user in the overlay.
LEMMA OverlayUsed ==
  ASSUME Numbered, PanesAreOwned, OverlayInv, OpenOverlay \/ UseOverlay
  PROVE  OverlayInv'
<1>0. Panes' = Panes
  BY DEF OpenOverlay, UseOverlay, Panes
<1>1. ASSUME NEW o, Shows(o), o.open, overlay' = o PROVE OverlayInv'
  BY <1>0, <1>1 DEF OverlayInv, Shows
<1>2. CASE OpenOverlay
  <2>1. PICK k \in Panes, query \in {<<>>} \cup HistTexts :
          overlay' = Reranked([open |-> TRUE, pane |-> k, scope |-> "global", query |-> query,
                               sel |-> 1, entries |-> Listed(panes[k], "global"), ranked |-> <<>>],
                              IF query = <<>> THEN Null ELSE panes[k].cwd)
    BY <1>2 DEF OpenOverlay
  <2> DEFINE l == Listed(panes[k], "global")
             cwd == IF query = <<>> THEN Null ELSE panes[k].cwd
             o == [open |-> TRUE, pane |-> k, scope |-> "global", query |-> query,
                   sel |-> 1, entries |-> l, ranked |-> <<>>]
  <2>2. Listing(l)
    BY ListedShows
  <2> HIDE DEF l
  <2>3. /\ DOMAIN o = OverlayFields /\ o.pane = k /\ o.entries = l /\ o.scope = "global" /\ o.open
    BY DEF OverlayFields
  <2>4. overlay' = Reranked(o, cwd)
    BY <2>1 DEF l
  <2> HIDE DEF o, cwd
  <2>5. Shows(Reranked(o, cwd)) /\ Reranked(o, cwd).open = o.open
    BY <2>2, <2>3, RerankedShows
  <2>6. QED BY <1>1, <2>3, <2>4, <2>5
<1>3. CASE UseOverlay
  <2>1. overlay.open /\ Shows(overlay)
    BY <1>3 DEF UseOverlay, OverlayInv, Closed
  <2> DEFINE p == panes[overlay.pane]
  <2>2. DOMAIN overlay = OverlayFields /\ overlay.pane \in Panes
    BY <2>1 DEF Shows
  <2>3. ASSUME NEW query, overlay' = Reranked([overlay EXCEPT !.query = query], p.cwd)
        PROVE  OverlayInv'
    <3> DEFINE o == [overlay EXCEPT !.query = query]
    <3>1. /\ DOMAIN o = OverlayFields /\ o.pane = overlay.pane /\ o.entries = overlay.entries
          /\ o.scope = overlay.scope /\ o.open = overlay.open
      BY <2>2 DEF OverlayFields
    <3>2. overlay' = Reranked(o, p.cwd)
      BY <2>3
    <3> HIDE DEF o, p
    <3>3. Shows(Reranked(o, p.cwd)) /\ Reranked(o, p.cwd).open = o.open
      BY <2>1, <3>1, RerankedShows DEF Shows
    <3>4. QED BY <1>1, <2>1, <3>1, <3>2, <3>3
  <2>4. CASE overlay' = Toggled(overlay, p)
    <3> DEFINE scope == IF overlay.scope = "global" THEN "pane" ELSE "global"
               l == Listed(p, scope)
               o == [overlay EXCEPT !.scope = scope, !.entries = l]
    <3>1. overlay' = Reranked(o, p.cwd)
      BY <2>4 DEF Toggled
    <3> HIDE DEF scope
    <3>2. /\ Listing(l)
          /\ scope = "pane" => \A i \in 1..Len(l) : l[i].src = "termica"
      BY <2>2, ListedShows
    <3> HIDE DEF l, p
    <3>3. /\ DOMAIN o = OverlayFields /\ o.pane = overlay.pane /\ o.entries = l
          /\ o.scope = scope /\ o.open = overlay.open
      BY <2>2 DEF OverlayFields
    <3> HIDE DEF o
    <3>4. Shows(Reranked(o, p.cwd)) /\ Reranked(o, p.cwd).open = o.open
      BY <2>2, <3>2, <3>3, RerankedShows
    <3>5. QED BY <1>1, <2>1, <3>1, <3>3, <3>4
  <2>5. ASSUME NEW step, overlay' = Stepped(overlay, step) PROVE OverlayInv'
    <3> DEFINE o == Stepped(overlay, step)
    <3>1. /\ DOMAIN o = OverlayFields /\ o.pane = overlay.pane /\ o.entries = overlay.entries
          /\ o.scope = overlay.scope /\ o.open = overlay.open /\ o.ranked = overlay.ranked
      BY <2>2 DEF OverlayFields, Stepped
    <3> HIDE DEF o
    <3>2. Shows(o)
      BY <2>1, <3>1 DEF Shows
    <3>3. QED BY <1>1, <2>1, <2>5, <3>1, <3>2 DEF o
  <2>6. CASE overlay' = Closed
    BY <2>6 DEF OverlayInv
  <2>7. \/ \E query : overlay' = Reranked([overlay EXCEPT !.query = query], p.cwd)
        \/ overlay' = Toggled(overlay, p)
        \/ \E step : overlay' = Stepped(overlay, step)
        \/ overlay' = Closed
    BY <1>3 DEF UseOverlay
  <2> HIDE DEF p
  <2>8. QED BY <2>3, <2>4, <2>5, <2>6, <2>7
<1>4. QED BY <1>2, <1>3

LEMMA OverlayStep ==
  ASSUME RecallInv, Numbered, OverlayInv, [HistoryNext]_historyVars
  PROVE  OverlayInv'
<1>1. CASE UNCHANGED overlay /\ Panes \subseteq Panes'
  BY <1>1 DEF OverlayInv, Shows
<1>2. CASE OpenOverlay \/ UseOverlay
  BY <1>2, OverlayUsed DEF RecallInv
<1>3. CASE Exit
  BY <1>3 DEF Exit, OverlayInv
<1>4. CASE OpenPane
  <2>1. UNCHANGED overlay /\ Panes \subseteq Panes'
    BY <1>4 DEF OpenPane, Panes
  <2>2. QED BY <1>1, <2>1
<1>5. CASE Preexec \/ CommandFinished
  <2>1. PICK k \in Panes : \E new : Set(k, new)
    BY <1>5 DEF Preexec, CommandFinished
  <2>2. Panes' = Panes
    BY <2>1 DEF Set, Panes
  <2>3. QED BY <1>1, <1>5, <2>2 DEF Preexec, CommandFinished
<1>6. CASE ShelfGrows \/ Launch \/ Replay \/ Trim \/ UNCHANGED historyVars
  BY <1>1, <1>6 DEF ShelfGrows, Launch, Replay, Trim, historyVars, Panes
<1>7. QED BY <1>2, <1>3, <1>4, <1>5, <1>6 DEF HistoryNext

LEMMA OverlayShows == ASSUME OverlayInv PROVE OverlayShowsItsScope
<1>1. CASE overlay = Closed
  BY <1>1 DEF Closed, OverlayShowsItsScope
<1>2. CASE Shows(overlay)
  <2>1. DOMAIN overlay.entries = 1..Len(overlay.entries)
    BY <1>2 DEF Shows, Listing
  <2>2. \A i, j \in DOMAIN overlay.entries :
          overlay.entries[i].text = overlay.entries[j].text => i = j
    BY <1>2, <2>1 DEF Shows, Listing
  <2>3. overlay.scope = "pane" => \A e \in ToSet(overlay.entries) : e.src = "termica"
    BY <1>2, <2>1 DEF Shows, ToSet
  <2>4. QED BY <1>2, <2>2, <2>3 DEF Shows, OverlayShowsItsScope
<1>3. QED BY <1>1, <1>2 DEF OverlayInv

\* No two open panes recall the same run, in any number of processes and over any
\* number of restarts, with durable rows or without (Scope::pane_recall), and the
\* overlay lists what its label says, each command once (history_overlay.rs).
THEOREM PanesRecallTheirOwn == HistorySpec => []RecallIsExact
<1> DEFINE Inv == RecallInv /\ Numbered /\ OverlayInv
<1>1. HistoryInit => Inv
  <2> SUFFICES ASSUME HistoryInit PROVE Inv
    OBVIOUS
  <2>1. RunsAreMinted /\ PanesAreOwned /\ RowsAreOwned
    BY DEF HistoryInit, RunsAreMinted, PanesAreOwned, RowsAreOwned, Panes, Down, Null
  <2>2. RecallInv
    BY <2>1, ReplayStarts DEF RecallInv
  <2>3. Numbered
    BY FS_EmptySet DEF HistoryInit, Numbered
  <2>4. OverlayInv
    BY DEF HistoryInit, OverlayInv
  <2>5. QED BY <2>2, <2>3, <2>4
<1>2. Inv /\ [HistoryNext]_historyVars => Inv'
  BY RecallStep, NumberedStep, OverlayStep DEF RecallInv
<1>3. Inv => RecallIsExact
  BY OwnedIsOwn, OverlayShows DEF RecallInv, RecallIsExact
<1>4. QED BY <1>1, <1>2, <1>3, PTL DEF HistorySpec

-----------------------------------------------------------------------------
\* The probes

\* A worker asks about the directory of the pane, or has a newer request ahead;
\* what it would ask again by itself is the same (Asking).
Asking(tool) ==
  LET p == probe[tool]
  IN  /\ p.asked \in {None, chips.dir}
      /\ p.asked = None =>
           p.queue = <<>> /\ p.running = None /\ p.again = None /\ p.results = <<>>
      /\ p.asked # None =>
           /\ p.queue # <<>> => Last(p.queue) = chips.dir
           /\ p.queue = <<>> /\ p.running # None => p.running = chips.dir
           /\ p.queue = <<>> /\ p.running = None /\ p.results # <<>> =>
                Last(p.results).dir = chips.dir
           /\ p.queue = <<>> /\ p.running = None /\ p.again # None => p.again = chips.dir

\* The pull request is being asked for, has come, or is shown; or the branch
\* shown is another one than the one checked out, and git will say so.
PullRequestComes ==
  LET p == probe["gh"]
  IN  \/ p.asked = None
      \/ p.queue # <<>> \/ p.running # None
      \/ p.results # <<>> /\ Last(p.results).says = Says("gh", chips.dir)
      \/ p.results = <<>> /\ chips.pr = Says("gh", chips.dir)
      \/ chips.git # Says("git", chips.dir)

ProbesInv ==
  /\ ProbesTypeOK
  /\ chips.open => /\ \A tool \in Tools : Asking(tool)
                   /\ chips.branch = chips.git
                   /\ PullRequestComes

Requests == [asked : Dirs \cup {None}, queue : Seq(Dirs), alive : BOOLEAN,
             running : Dirs \cup {None}, again : Dirs \cup {None},
             results : Seq([dir : Dirs, says : Branches \cup {None}])]

LEMMA SaysABranch ==
  ASSUME tree \in Branches, NEW tool \in Tools, NEW dir
  PROVE  Says(tool, dir) \in Branches \cup {None}
BY DEF Says

\* The last of a sequence that has one, or has just got one.
LEMMA LastOf ==
  ASSUME NEW S, NEW s \in Seq(S)
  PROVE  /\ s # <<>> => Last(s) \in S
         /\ \A x \in S : Append(s, x) \in Seq(S) /\ Append(s, x) # <<>> /\ Last(Append(s, x)) = x
<1>1. ASSUME s # <<>> PROVE Last(s) \in S
  <2>1. Len(s) \in 1..Len(s)
    BY <1>1, EmptySeq
  <2>2. QED BY <2>1 DEF Last
<1>2. ASSUME NEW x \in S
      PROVE  Append(s, x) \in Seq(S) /\ Append(s, x) # <<>> /\ Last(Append(s, x)) = x
  BY DEF Last
<1>3. QED BY <1>1, <1>2

LEMMA ProbesStart == ProbesInit => ProbesInv
<1> SUFFICES ASSUME ProbesInit PROVE ProbesInv
  OBVIOUS
<1>1. PICK dir \in Dirs :
        chips = [dir |-> dir, git |-> None, pr |-> None, branch |-> None, open |-> TRUE]
  BY DEF ProbesInit
<1>2. \A t \in Tools : probe[t] = [asked |-> None, queue |-> <<>>, results |-> <<>>,
                                   running |-> None, again |-> None, alive |-> TRUE]
  BY DEF ProbesInit
<1>3. ProbesTypeOK
  BY <1>1, <1>2 DEF ProbesTypeOK, ProbesInit
<1>4. \A tool \in Tools : Asking(tool)
  BY <1>2 DEF Asking
<1>5. PullRequestComes
  BY <1>2 DEF PullRequestComes, Tools
<1>6. QED BY <1>1, <1>3, <1>4, <1>5 DEF ProbesInv

\* A request for the directory the pane is in now.
LEMMA RequestedAsks ==
  ASSUME NEW p \in Requests, NEW dir \in Dirs, NEW force \in BOOLEAN
  PROVE  LET q == Requested(p, dir, force)
         IN  /\ q \in Requests /\ q.asked = dir /\ q.results = p.results
             /\ q.running = p.running /\ q.again = p.again
             /\ \/ q.queue # <<>> /\ Last(q.queue) = dir
                \/ q.queue = p.queue /\ p.asked = dir /\ ~force
<1> DEFINE q == Requested(p, dir, force)
<1>1. p.queue \in Seq(Dirs)
  BY DEF Requests
<1>2. CASE force \/ p.asked # dir
  <2>1. q = [p EXCEPT !.asked = dir, !.queue = Append(@, dir)]
    BY <1>2 DEF Requested
  <2>2. Append(p.queue, dir) \in Seq(Dirs) /\ Append(p.queue, dir) # <<>>
        /\ Last(Append(p.queue, dir)) = dir
    BY <1>1, LastOf
  <2> HIDE DEF q
  <2>3. q \in Requests /\ q.asked = dir /\ q.queue = Append(p.queue, dir)
        /\ q.results = p.results /\ q.running = p.running /\ q.again = p.again
    BY <2>1, <2>2 DEF Requests
  <2>4. QED BY <2>2, <2>3 DEF q
<1>3. CASE ~(force \/ p.asked # dir)
  BY <1>3 DEF Requested
<1>4. QED BY <1>2, <1>3

LEMMA ArrivedIs ==
  ASSUME NEW p \in Requests
  PROVE  /\ Arrived(p) \in Requests /\ Arrived(p).results = <<>>
         /\ Arrived(p).asked = p.asked /\ Arrived(p).queue = p.queue
         /\ Arrived(p).running = p.running /\ Arrived(p).again = p.again
<1>1. <<>> \in Seq([dir : Dirs, says : Branches \cup {None}])
  OBVIOUS
<1>2. QED BY <1>1 DEF Arrived, Requests

LEMMA PaneDrainsStep ==
  ASSUME ProbesInv, NEW dir \in Dirs, NEW finished \in BOOLEAN, PaneDrains(dir, finished)
  PROVE  ProbesInv'
<1> DEFINE git == Requested(probe["git"], dir, finished)
           context == Polled(git, chips.git)
           changed == context # chips.branch
           gh == Requested(probe["gh"], dir, changed)
<1>1. /\ chips.open /\ tree' = tree
      /\ probe' = [t \in Tools |-> Arrived(IF t = "git" THEN git ELSE gh)]
      /\ chips' = [chips EXCEPT !.dir = dir, !.git = context, !.branch = context,
                                !.pr = Polled(gh, @)]
  BY DEF PaneDrains
<1>2. /\ tree \in Branches
      /\ chips \in [dir : Dirs, git : Branches \cup {None}, pr : Branches \cup {None},
                    branch : Branches \cup {None}, open : BOOLEAN]
      /\ probe["git"] \in Requests /\ probe["gh"] \in Requests
      /\ Asking("git") /\ Asking("gh") /\ chips.branch = chips.git /\ PullRequestComes
  BY <1>1 DEF ProbesInv, ProbesTypeOK, Requests, Tools
<1>3. /\ git \in Requests /\ git.asked = dir /\ git.results = probe["git"].results
      /\ git.running = probe["git"].running /\ git.again = probe["git"].again
      /\ \/ git.queue # <<>> /\ Last(git.queue) = dir
         \/ git.queue = probe["git"].queue /\ probe["git"].asked = dir
  BY <1>2, RequestedAsks
<1>4. /\ gh \in Requests /\ gh.asked = dir /\ gh.results = probe["gh"].results
      /\ gh.running = probe["gh"].running /\ gh.again = probe["gh"].again
      /\ \/ gh.queue # <<>> /\ Last(gh.queue) = dir
         \/ gh.queue = probe["gh"].queue /\ probe["gh"].asked = dir /\ ~changed
  <2> HIDE DEF context
  <2>1. changed \in BOOLEAN
    OBVIOUS
  <2> HIDE DEF changed
  <2>2. QED BY <1>2, <2>1, RequestedAsks
<1> HIDE DEF git, gh
<1>5. context \in Branches \cup {None} /\ Polled(gh, chips.pr) \in Branches \cup {None}
  <2>1. /\ git.results \in Seq([dir : Dirs, says : Branches \cup {None}])
        /\ gh.results \in Seq([dir : Dirs, says : Branches \cup {None}])
        /\ chips.git \in Branches \cup {None} /\ chips.pr \in Branches \cup {None}
    BY <1>2, <1>3, <1>4 DEF Requests
  <2>2. /\ git.results # <<>> =>
             Last(git.results) \in [dir : Dirs, says : Branches \cup {None}]
        /\ gh.results # <<>> =>
             Last(gh.results) \in [dir : Dirs, says : Branches \cup {None}]
    BY <2>1, LastOf
  <2>3. QED BY <2>1, <2>2 DEF Polled
<1> HIDE DEF context, changed
<1>6. /\ Arrived(git) \in Requests /\ Arrived(git).asked = dir /\ Arrived(git).results = <<>>
      /\ Arrived(git).running = git.running /\ Arrived(git).again = git.again
      /\ Arrived(git).queue = git.queue
      /\ Arrived(gh) \in Requests /\ Arrived(gh).asked = dir /\ Arrived(gh).results = <<>>
      /\ Arrived(gh).running = gh.running /\ Arrived(gh).again = gh.again
      /\ Arrived(gh).queue = gh.queue
  BY <1>3, <1>4, ArrivedIs
<1>7. /\ probe'["git"] = Arrived(git) /\ probe'["gh"] = Arrived(gh)
  BY <1>1 DEF Tools
<1>8. /\ chips'.dir = dir /\ chips'.git = context /\ chips'.branch = context
      /\ chips'.pr = Polled(gh, chips.pr) /\ chips'.open = chips.open
      /\ chips' \in [dir : Dirs, git : Branches \cup {None}, pr : Branches \cup {None},
                     branch : Branches \cup {None}, open : BOOLEAN]
  BY <1>1, <1>2, <1>5
<1>9. ProbesTypeOK'
  BY <1>1, <1>2, <1>6, <1>7, <1>8 DEF ProbesTypeOK, Requests, Tools
<1>10. Asking("git")'
  <2>1. probe'["git"].asked # None
    BY <1>6, <1>7, ProbesAssumption
  <2>2. QED BY <1>2, <1>3, <1>6, <1>7, <1>8, <2>1, ProbesAssumption DEF Asking
<1>11. Asking("gh")'
  <2>1. probe'["gh"].asked # None
    BY <1>6, <1>7, ProbesAssumption
  <2>2. QED BY <1>2, <1>4, <1>6, <1>7, <1>8, <2>1, ProbesAssumption DEF Asking
<1>12. PullRequestComes'
  <2>1. CASE gh.queue # <<>>
    BY <2>1, <1>6, <1>7 DEF PullRequestComes
  <2>2. CASE gh.queue = <<>>
    <3>1. probe["gh"].queue = <<>> /\ probe["gh"].asked = dir /\ context = chips.git
      BY <1>2, <1>4, <2>2 DEF changed
    <3>2. dir = chips.dir /\ probe["gh"].asked # None
      BY <1>2, <3>1, ProbesAssumption DEF Asking
    <3>3. Says("gh", dir)' = Says("gh", dir) /\ Says("git", dir)' = Says("git", dir)
      BY <1>1 DEF Says
    <3>4. QED BY <1>2, <1>4, <1>6, <1>7, <1>8, <3>1, <3>2, <3>3 DEF PullRequestComes, Polled
  <2>3. QED BY <2>1, <2>2
<1>13. QED BY <1>8, <1>9, <1>10, <1>11, <1>12 DEF ProbesInv, Tools

\* What leaves the pane and the tree: of one probe another request is next, or
\* its worker has answered.
LEMMA WorkerStep ==
  ASSUME ProbesInv, NEW tool \in Tools, NEW q \in Requests,
         probe' = [probe EXCEPT ![tool] = q], UNCHANGED <<tree, chips>>,
         chips.open => Asking(tool)' /\ (tool = "gh" => PullRequestComes')
  PROVE  ProbesInv'
<1>1. probe \in [Tools -> Requests]
  BY DEF ProbesInv, ProbesTypeOK, Requests
<1>2. /\ probe' \in [Tools -> Requests] /\ probe'[tool] = q
      /\ \A t \in Tools : t # tool => probe'[t] = probe[t]
  BY <1>1
<1>3. ProbesTypeOK'
  BY <1>2 DEF ProbesInv, ProbesTypeOK, Requests
<1>4. ASSUME chips.open
      PROVE  /\ \A t \in Tools : Asking(t)'
             /\ chips'.branch = chips'.git
             /\ PullRequestComes'
  <2>1. (\A t \in Tools : Asking(t)) /\ chips.branch = chips.git /\ PullRequestComes
    BY <1>4 DEF ProbesInv
  <2>2. \A t \in Tools : t # tool => Asking(t)'
    BY <1>2, <2>1 DEF Asking
  <2>3. tool # "gh" => PullRequestComes'
    BY <1>2, <2>1 DEF PullRequestComes, Says, Tools
  <2>4. QED BY <1>4, <2>1, <2>2, <2>3
<1>5. QED BY <1>3, <1>4 DEF ProbesInv

LEMMA TakeStep ==
  ASSUME ProbesInv, NEW tool \in Tools, Take(tool) \/ TakeAgain(tool)
  PROVE  ProbesInv'
<1> DEFINE p == probe[tool]
<1>1. probe \in [Tools -> Requests] /\ p \in Requests /\ chips.dir \in Dirs
  BY DEF ProbesInv, ProbesTypeOK, Requests
<1>2. UNCHANGED <<tree, chips>>
  BY DEF Take, TakeAgain
<1>3. CASE Take(tool)
  <2> DEFINE q == [p EXCEPT !.running = Last(p.queue), !.queue = <<>>, !.again = None]
  <2>1. p.queue # <<>> /\ p.queue \in Seq(Dirs) /\ <<>> \in Seq(Dirs)
    BY <1>1, <1>3 DEF Take, Requests
  <2>2. Last(p.queue) \in Dirs
    BY <2>1, LastOf
  <2>3. probe' = [probe EXCEPT ![tool] = q]
    BY <1>1, <1>3 DEF Take, Coalesced
  <2> HIDE DEF p
  <2>4. /\ q \in Requests /\ q.asked = p.asked /\ q.running = Last(p.queue) /\ q.queue = <<>>
        /\ q.results = p.results /\ q.again = None
    BY <1>1, <2>1, <2>2 DEF Requests
  <2> HIDE DEF q
  <2>5. probe'[tool] = q
    BY <1>1, <2>3
  <2>6. ASSUME chips.open PROVE Asking(tool)' /\ (tool = "gh" => PullRequestComes')
    <3>1. p.asked \in {None, chips.dir} /\ p.asked # None /\ Last(p.queue) = chips.dir
      BY <2>1, <2>6 DEF ProbesInv, Asking, p
    <3>2. q.running # None
      BY <1>1, <2>4, <3>1, ProbesAssumption
    <3>3. Asking(tool)'
      BY <1>2, <2>4, <2>5, <3>1, <3>2 DEF Asking
    <3>4. tool = "gh" => PullRequestComes'
      BY <2>5, <3>2 DEF PullRequestComes
    <3>5. QED BY <3>3, <3>4
  <2>7. QED BY <1>2, <2>3, <2>4, <2>6, WorkerStep
<1>4. CASE TakeAgain(tool)
  <2> DEFINE q == [p EXCEPT !.running = p.again, !.again = None]
  <2>1. /\ p.queue = <<>> /\ p.running = None /\ p.again # None /\ p.results = <<>> /\ chips.open
    BY <1>4 DEF TakeAgain
  <2>3. probe' = [probe EXCEPT ![tool] = q]
    BY <1>1, <1>4 DEF TakeAgain
  <2> HIDE DEF p
  <2>4. /\ q \in Requests /\ q.asked = p.asked /\ q.running = p.again /\ q.queue = <<>>
        /\ q.results = <<>> /\ q.again = None
    BY <1>1, <2>1 DEF Requests
  <2> HIDE DEF q
  <2>5. probe'[tool] = q
    BY <1>1, <2>3
  <2>6. Asking(tool)' /\ (tool = "gh" => PullRequestComes')
    <3>1. p.asked \in {None, chips.dir} /\ p.asked # None /\ p.again = chips.dir
      BY <2>1 DEF ProbesInv, Asking, p
    <3>2. Asking(tool)'
      BY <1>2, <2>1, <2>4, <2>5, <3>1 DEF Asking
    <3>3. tool = "gh" => PullRequestComes'
      BY <2>1, <2>4, <2>5 DEF PullRequestComes
    <3>4. QED BY <3>2, <3>3
  <2>7. QED BY <1>2, <2>3, <2>4, <2>6, WorkerStep
<1>5. QED BY <1>3, <1>4

LEMMA AnswerStep ==
  ASSUME ProbesInv, NEW tool \in Tools, Answer(tool)
  PROVE  ProbesInv'
<1> DEFINE p == probe[tool]
           says == Says(tool, p.running)
           result == [dir |-> p.running, says |-> says]
           q == [p EXCEPT !.running = None,
                          !.again = IF says # None THEN p.running ELSE None,
                          !.results = IF chips.open THEN Append(@, result) ELSE @,
                          !.alive = chips.open]
<1>1. /\ probe \in [Tools -> Requests] /\ p \in Requests
      /\ chips.dir \in Dirs /\ chips.open \in BOOLEAN /\ tree \in Branches
  BY DEF ProbesInv, ProbesTypeOK, Requests
<1>2. UNCHANGED <<tree, chips>> /\ p.running # None /\ probe' = [probe EXCEPT ![tool] = q]
  BY DEF Answer
<1> HIDE DEF p
<1>3. p.running \in Dirs /\ says \in Branches \cup {None}
  BY <1>1, <1>2, SaysABranch DEF Requests
<1>4. /\ p.results \in Seq([dir : Dirs, says : Branches \cup {None}])
      /\ result \in [dir : Dirs, says : Branches \cup {None}]
      /\ result.dir = p.running /\ result.says = says
  BY <1>1, <1>3 DEF Requests
<1> HIDE DEF says, result
<1>5. /\ Append(p.results, result) \in Seq([dir : Dirs, says : Branches \cup {None}])
      /\ Append(p.results, result) # <<>> /\ Last(Append(p.results, result)) = result
  <2> DEFINE R == [dir : Dirs, says : Branches \cup {None}]
  <2>1. p.results \in Seq(R) /\ result \in R
    BY <1>4
  <2> HIDE DEF R
  <2>2. /\ Append(p.results, result) \in Seq(R) /\ Append(p.results, result) # <<>>
        /\ Last(Append(p.results, result)) = result
    BY <2>1, LastOf
  <2>3. QED BY <2>2 DEF R
<1>6. /\ q \in Requests /\ q.asked = p.asked /\ q.running = None /\ q.queue = p.queue
      /\ q.again \in {None, p.running}
      /\ chips.open => q.results = Append(p.results, result)
  <2> DEFINE again == IF says # None THEN p.running ELSE None
             results == IF chips.open THEN Append(p.results, result) ELSE p.results
  <2>1. /\ again \in {None, p.running} /\ again \in Dirs \cup {None}
        /\ results \in Seq([dir : Dirs, says : Branches \cup {None}])
    BY <1>3, <1>4, <1>5
  <2>2. q = [p EXCEPT !.running = None, !.again = again, !.results = results, !.alive = chips.open]
    OBVIOUS
  <2>3. chips.open => results = Append(p.results, result)
    OBVIOUS
  <2> HIDE DEF q, again, results
  <2>4. QED BY <1>1, <2>1, <2>2, <2>3 DEF Requests
<1> HIDE DEF q
<1>7. probe'[tool] = q
  BY <1>1, <1>2
<1>8. ASSUME chips.open PROVE Asking(tool)' /\ (tool = "gh" => PullRequestComes')
  <2>1. /\ p.asked \in {None, chips.dir} /\ p.asked # None
        /\ p.queue # <<>> => Last(p.queue) = chips.dir
        /\ p.queue = <<>> => p.running = chips.dir
    BY <1>2, <1>8 DEF ProbesInv, Asking, p
  <2>2. Asking(tool)'
    BY <1>2, <1>4, <1>5, <1>6, <1>7, <1>8, <2>1 DEF Asking
  <2>3. ASSUME tool = "gh" PROVE PullRequestComes'
    <3>1. CASE p.queue # <<>>
      BY <1>6, <1>7, <2>3, <3>1 DEF PullRequestComes
    <3>2. CASE p.queue = <<>>
      <4>1. result.says = Says("gh", chips.dir) /\ Says("gh", chips.dir)' = Says("gh", chips.dir)
        BY <1>2, <1>4, <2>1, <2>3, <3>2 DEF says, Says
      <4>2. QED BY <1>2, <1>5, <1>6, <1>7, <1>8, <2>3, <4>1 DEF PullRequestComes
    <3>3. QED BY <3>1, <3>2
  <2>4. QED BY <2>2, <2>3
<1>9. QED BY <1>2, <1>6, <1>8, WorkerStep

\* The branch that is checked out is not the one shown, so git will say so.
LEMMA CheckoutStep ==
  ASSUME ProbesInv, "back" \notin ChipMoves, Checkout
  PROVE  ProbesInv'
<1>1. /\ UNCHANGED <<chips, probe>> /\ tree' \in Branches
      /\ chips.dir \in Repo => tree' # chips.git
  BY DEF Checkout
<1>2. ProbesTypeOK'
  BY <1>1 DEF ProbesInv, ProbesTypeOK
<1>3. ASSUME chips.open PROVE PullRequestComes'
  <2>1. CASE chips.dir \in Repo
    <3>1. Says("git", chips.dir)' = tree'
      BY <1>1, <2>1 DEF Says
    <3>2. QED BY <1>1, <2>1, <3>1 DEF PullRequestComes
  <2>2. CASE chips.dir \notin Repo
    <3>1. Says("git", chips.dir)' = Says("git", chips.dir)
          /\ Says("gh", chips.dir)' = Says("gh", chips.dir)
      BY <1>1, <2>2 DEF Says
    <3>2. QED BY <1>1, <1>3, <3>1 DEF ProbesInv, PullRequestComes
  <2>3. QED BY <2>1, <2>2
<1>4. chips.open => (\A tool \in Tools : Asking(tool)') /\ chips'.branch = chips'.git
  BY <1>1 DEF ProbesInv, Asking
<1>5. QED BY <1>1, <1>2, <1>3, <1>4 DEF ProbesInv

LEMMA CloseStep == ASSUME ProbesInv, Close PROVE ProbesInv'
<1>1. /\ tree' = tree /\ chips' = [chips EXCEPT !.open = FALSE]
      /\ probe' = [t \in Tools |-> [probe[t] EXCEPT !.results = <<>>,
                      !.alive = @ /\ (probe[t].running # None \/ probe[t].queue # <<>>)]]
  BY DEF Close
<1>2. /\ probe \in [Tools -> Requests] /\ tree \in Branches
      /\ chips \in [dir : Dirs, git : Branches \cup {None}, pr : Branches \cup {None},
                    branch : Branches \cup {None}, open : BOOLEAN]
  BY DEF ProbesInv, ProbesTypeOK, Requests
<1>3. ASSUME NEW t \in Tools PROVE probe'[t] \in Requests
  <2> DEFINE p == probe[t]
             alive == p.alive /\ (p.running # None \/ p.queue # <<>>)
  <2>1. /\ p \in Requests /\ <<>> \in Seq([dir : Dirs, says : Branches \cup {None}])
        /\ alive \in BOOLEAN
    <3>1. p \in Requests /\ <<>> \in Seq([dir : Dirs, says : Branches \cup {None}])
      BY <1>2
    <3> HIDE DEF p
    <3>2. alive \in BOOLEAN
      OBVIOUS
    <3>3. QED BY <3>1, <3>2
  <2>2. probe'[t] = [p EXCEPT !.results = <<>>, !.alive = alive]
    BY <1>1
  <2> HIDE DEF p, alive
  <2>3. QED BY <2>1, <2>2 DEF Requests
<1>4. probe' \in [Tools -> Requests]
  BY <1>1, <1>3
<1>5. ~chips'.open /\ chips' \in [dir : Dirs, git : Branches \cup {None},
                                 pr : Branches \cup {None},
                                 branch : Branches \cup {None}, open : BOOLEAN]
  BY <1>1, <1>2
<1>6. QED BY <1>1, <1>2, <1>4, <1>5 DEF ProbesInv, ProbesTypeOK, Requests

LEMMA ProbesSteps ==
  ASSUME "back" \notin ChipMoves
  PROVE  ProbesInv /\ [ProbesNext]_probeVars => ProbesInv'
<1> SUFFICES ASSUME ProbesInv, [ProbesNext]_probeVars PROVE ProbesInv'
  OBVIOUS
<1>1. CASE \E dir \in Dirs, finished \in BOOLEAN : PaneDrains(dir, finished)
  BY <1>1, PaneDrainsStep
<1>2. CASE Checkout
  BY <1>2, CheckoutStep
<1>3. CASE \E tool \in Tools : Take(tool) \/ TakeAgain(tool)
  BY <1>3, TakeStep
<1>4. CASE \E tool \in Tools : Answer(tool)
  BY <1>4, AnswerStep
<1>5. CASE Close
  BY <1>5, CloseStep
<1>6. CASE UNCHANGED probeVars
  BY <1>6 DEF probeVars, ProbesInv, ProbesTypeOK, Asking, PullRequestComes, Says
<1>7. QED BY <1>1, <1>2, <1>3, <1>4, <1>5, <1>6 DEF ProbesNext

\* For all directories, branches and bounds, as long as nobody leaves the branch
\* a chip shows and comes back between two probes: the chips are of the directory
\* asked for last, and once the probes rest the pull request is of the branch
\* shown (git_probe.rs, gh_probe.rs, pane.rs).
THEOREM ChipsCatchUp ==
  ASSUME "back" \notin ChipMoves
  PROVE  ProbesSpec => []ChipsAreCurrent
<1>1. ProbesInv => LastAskedWins
  <2> SUFFICES ASSUME ProbesInv PROVE LastAskedWins
    OBVIOUS
  <2>1. QED BY DEF ProbesInv, Asking, LastAskedWins
<1>2. ProbesInv => PullRequestOfTheBranch
  BY DEF ProbesInv, PullRequestComes, PullRequestOfTheBranch, Quiet
<1>3. ProbesInv => ChipsAreCurrent
  BY <1>1, <1>2 DEF ChipsAreCurrent
<1>4. QED BY ProbesStart, ProbesSteps, <1>3, PTL DEF ProbesSpec
-----------------------------------------------------------------------------
\* The selection. How a map, the rows of a grid and the lines read back are
\* computed, step by step along a line or a sequence of rows: the typing of
\* each definition, by induction along the steps.

\* f goes along 0 .. n by steps.
Along(n, S, base, step) ==
  \E f \in [0..n -> S] : f[0] = base /\ \A k \in 1..n : f[k] = step[k][f[k - 1]]

\* A function by recursion along 0 .. n, with its values in a set.
LEMMA Recursion ==
  ASSUME NEW n \in Nat, NEW S, NEW base \in S, NEW step \in [1..n -> [S -> S]]
  PROVE  Along(n, S, base, step)
<1> DEFINE Fits(f, m) == /\ f \in [0..m -> S] /\ f[0] = base
                         /\ \A k \in 1..m : f[k] = step[k][f[k - 1]]
           T == {m \in Nat : m <= n => \E f : Fits(f, m)}
<1>1. 0 \in T
  <2>1. Fits([k \in 0..0 |-> base], 0)
    OBVIOUS
  <2> QED
    BY <2>1
<1>2. ASSUME NEW m \in T PROVE m + 1 \in T
  <2>1. SUFFICES ASSUME m + 1 <= n PROVE \E f : Fits(f, m + 1)
    <3> HIDE DEF Fits
    <3> QED
      OBVIOUS
  <2>2. PICK f : Fits(f, m)
    BY <2>1
  <2> DEFINE x == step[m + 1][f[m]]
             g == [k \in 0..m + 1 |-> IF k = m + 1 THEN x ELSE f[k]]
  <2>3. x \in S
    BY <2>1, <2>2
  <2> HIDE DEF x
  <2>4. g \in [0..m + 1 -> S] /\ g[0] = base /\ g[m + 1] = x /\ \A k \in 0..m : g[k] = f[k]
    BY <2>2, <2>3
  <2>5. ASSUME NEW k \in 1..m + 1 PROVE g[k] = step[k][g[k - 1]]
    <3>1. k - 1 \in 0..m /\ g[k - 1] = f[k - 1]
      BY <2>4
    <3>2. CASE k = m + 1
      BY <3>1, <3>2, <2>4 DEF x
    <3>3. CASE k \in 1..m
      BY <3>1, <3>3, <2>2, <2>4
    <3> QED
      BY <3>2, <3>3
  <2> HIDE DEF g
  <2> QED
    BY <2>4, <2>5
<1>3. n \in T
  <2> HIDE DEF T
  <2>1. T \in SUBSET Nat
    BY DEF T
  <2> QED
    BY <1>1, <1>2, <2>1, Induction
<1>4. PICK f : Fits(f, n)
  BY <1>3
<1> QED
  BY <1>4 DEF Along

\* What a set of numbers holds that each step along 0 .. n stays in.
LEMMA StaysIn ==
  ASSUME NEW n \in Nat, NEW f, NEW S, f[0] \in S, \A k \in 1..n : f[k - 1] \in S => f[k] \in S
  PROVE  \A k \in 0..n : f[k] \in S
<1> DEFINE T == {m \in Nat : m <= n => f[m] \in S}
<1>1. 0 \in T
  OBVIOUS
<1>2. ASSUME NEW m \in T PROVE m + 1 \in T
  <2>1. SUFFICES ASSUME m + 1 <= n PROVE f[m + 1] \in S
    OBVIOUS
  <2>2. m + 1 \in 1..n /\ (m + 1) - 1 = m /\ f[m] \in S
    BY <2>1
  <2> QED
    BY <2>2
<1>3. T = Nat
  <2> HIDE DEF T
  <2>1. T \in SUBSET Nat
    BY DEF T
  <2> QED
    BY <1>1, <1>2, <2>1, Induction
<1> QED
  BY <1>3

-----------------------------------------------------------------------------
\* Types of rows, lines and maps.
Char == STRING \cup {"W", "_"} \cup Spacers
Line == Seq(Char)
Row == [cells : Line, wraps : BOOLEAN]
Origin == [line : Nat, col : Nat]
Maps == {m \in [rows : Seq(Row), origin : Seq(Origin)] : Len(m.rows) = Len(m.origin)}
Wraps == [rows : Seq(Row), row : Line, col : Nat]

\* How a line is wrapped, step by step.
Put(line, cols, w, k) ==
  IF w.row # <<>> /\ w.col + (IF line[k] = "W" THEN 2 ELSE 1) > cols
    THEN [rows |-> Append(w.rows, [cells |-> w.row \o (IF line[k] = "W" /\ w.col + 1 = cols THEN <<"lead">> ELSE <<>>),
                                   wraps |-> TRUE]),
          row |-> Glyph(line[k]), col |-> IF line[k] = "W" THEN 2 ELSE 1]
    ELSE [rows |-> w.rows, row |-> w.row \o Glyph(line[k]), col |-> w.col + (IF line[k] = "W" THEN 2 ELSE 1)]
WrapsStepwise(f, line, cols) ==
  /\ f[0] = [rows |-> <<>>, row |-> <<>>, col |-> 0]
  /\ \A k \in 1..Len(line) : f[k] = Put(line, cols, f[k - 1], k)
  /\ \A k \in 0..Len(line) : f[k] \in Wraps
  /\ Wrap(line, cols) = Append(f[Len(line)].rows, [cells |-> f[Len(line)].row, wraps |-> FALSE])

\* A sequence of one item, and of two.
LEMMA Items ==
    ASSUME NEW S, NEW b \in S, NEW c \in S
    PROVE  /\ <<b>> \in Seq(S) /\ Len(<<b>>) = 1 /\ <<b>>[1] = b
           /\ <<b, c>> \in Seq(S) /\ Len(<<b, c>>) = 2 /\ <<b, c>>[1] = b /\ <<b, c>>[2] = c
OBVIOUS

LEMMA GlyphType == ASSUME NEW c \in Char PROVE Glyph(c) \in Line
<1>1. "W" \in Char /\ "sp" \in Char
  BY DEF Char, Spacers
<1>2. <<"W", "sp">> \in Line /\ <<c>> \in Line
  BY <1>1, Items DEF Line
<1> QED
  BY <1>2 DEF Glyph

LEMMA PutType ==
  ASSUME NEW line \in Line, NEW cols \in Nat, NEW w \in Wraps, NEW k \in 1..Len(line)
  PROVE  Put(line, cols, w, k) \in Wraps
<1>1. line[k] \in Char
  BY DEF Line
<1>2. Glyph(line[k]) \in Line
  BY <1>1, GlyphType
<1>3. w.rows \in Seq(Row) /\ w.row \in Line /\ w.col \in Nat
  BY DEF Wraps
<1> DEFINE wide == IF line[k] = "W" THEN 2 ELSE 1
           lead == IF line[k] = "W" /\ w.col + 1 = cols THEN <<"lead">> ELSE <<>>
           full == [cells |-> w.row \o lead, wraps |-> TRUE]
<1>4. wide \in Nat /\ w.col + wide \in Nat
  BY <1>3
<1>5. lead \in Line
  <2>0. "lead" \in Char
    BY DEF Char, Spacers
  <2>1. <<"lead">> \in Line /\ <<>> \in Line
    BY <2>0, Items, EmptySeq DEF Line
  <2> QED
    BY <2>1
<1> HIDE DEF wide, lead
<1>6. w.row \o lead \in Line /\ w.row \o Glyph(line[k]) \in Line
  BY <1>2, <1>3, <1>5, ConcatProperties DEF Line
<1>7. full \in Row
  BY <1>6 DEF Row
<1> HIDE DEF full
<1>8. Append(w.rows, full) \in Seq(Row)
  BY <1>3, <1>7, AppendProperties
<1>9. Put(line, cols, w, k) =
        IF w.row # <<>> /\ w.col + wide > cols
          THEN [rows |-> Append(w.rows, full), row |-> Glyph(line[k]), col |-> wide]
          ELSE [rows |-> w.rows, row |-> w.row \o Glyph(line[k]), col |-> w.col + wide]
  BY DEF Put, wide, full, lead
<1> QED
  BY <1>2, <1>3, <1>4, <1>6, <1>8, <1>9 DEF Wraps

LEMMA WrapExists ==
  ASSUME NEW line \in Line, NEW cols \in Nat
  PROVE  \E f : f = [k \in 0..Len(line) |-> IF k = 0 THEN [rows |-> <<>>, row |-> <<>>, col |-> 0]
                                            ELSE Put(line, cols, f[k - 1], k)]
<1> DEFINE n == Len(line)
           base == [rows |-> <<>>, row |-> <<>>, col |-> 0]
           step == [k \in 1..n |-> [w \in Wraps |-> Put(line, cols, w, k)]]
<1>1. n \in Nat /\ base \in Wraps
  <2>1. <<>> \in Seq(Row) /\ <<>> \in Line /\ n \in Nat
    BY DEF Line
  <2> QED
    BY <2>1 DEF Wraps
<1>2. step \in [1..n -> [Wraps -> Wraps]]
  BY PutType
<1>3. \A k \in 1..n : \A w \in Wraps : step[k][w] = Put(line, cols, w, k)
  OBVIOUS
<1> HIDE DEF step, base, n
<1>4. PICK f \in [0..n -> Wraps] : f[0] = base /\ \A k \in 1..n : f[k] = step[k][f[k - 1]]
  <2>1. Along(n, Wraps, base, step)
    BY <1>1, <1>2, Recursion
  <2> QED
    BY <2>1 DEF Along
<1>5. ASSUME NEW k \in 0..n PROVE f[k] = IF k = 0 THEN base ELSE Put(line, cols, f[k - 1], k)
  <2>1. f[k] = IF k = 0 THEN base ELSE step[k][f[k - 1]]
    BY <1>1, <1>4
  <2>2. k # 0 => k \in 1..n /\ f[k - 1] \in Wraps
    BY <1>1, <1>4
  <2> QED
    BY <2>1, <2>2, <1>3
<1>6. f = [k \in 0..n |-> IF k = 0 THEN base ELSE Put(line, cols, f[k - 1], k)]
  BY <1>4, <1>5
<1> QED
  BY <1>6 DEF n, base

LEMMA WrappedStepwise ==
  ASSUME NEW line \in Line, NEW cols \in Nat
  PROVE  \E f : WrapsStepwise(f, line, cols)
<1> DEFINE wide(k) == IF line[k] = "W" THEN 2 ELSE 1
           ended(w, k) == [cells |-> w.row \o (IF line[k] = "W" /\ w.col + 1 = cols THEN <<"lead">> ELSE <<>>),
                           wraps |-> TRUE]
           put(w, k) == IF w.row # <<>> /\ w.col + wide(k) > cols
                          THEN [rows |-> Append(w.rows, ended(w, k)), row |-> Glyph(line[k]), col |-> wide(k)]
                          ELSE [rows |-> w.rows, row |-> w.row \o Glyph(line[k]), col |-> w.col + wide(k)]
           wrapped[k \in 0..Len(line)] ==
             IF k = 0 THEN [rows |-> <<>>, row |-> <<>>, col |-> 0] ELSE put(wrapped[k - 1], k)
<1>1. wrapped = [k \in 0..Len(line) |-> IF k = 0 THEN [rows |-> <<>>, row |-> <<>>, col |-> 0]
                                        ELSE put(wrapped[k - 1], k)]
  BY WrapExists DEF Put
<1>2. Wrap(line, cols) = Append(wrapped[Len(line)].rows, [cells |-> wrapped[Len(line)].row, wraps |-> FALSE])
  BY DEF Wrap
<1>3. PICK f : /\ f = [k \in 0..Len(line) |-> IF k = 0 THEN [rows |-> <<>>, row |-> <<>>, col |-> 0]
                                              ELSE Put(line, cols, f[k - 1], k)]
               /\ Wrap(line, cols) = Append(f[Len(line)].rows, [cells |-> f[Len(line)].row, wraps |-> FALSE])
  <2> HIDE DEF wrapped
  <2> QED
    BY <1>1, <1>2 DEF Put
<1> HIDE DEF wrapped
<1>4. Len(line) \in Nat
  BY DEF Line
<1>5. f[0] = [rows |-> <<>>, row |-> <<>>, col |-> 0] /\ \A k \in 1..Len(line) : f[k] = Put(line, cols, f[k - 1], k)
  BY <1>3, <1>4
<1>6. \A k \in 0..Len(line) : f[k] \in Wraps
  <2>1. f[0] \in Wraps
    <3>1. <<>> \in Seq(Row) /\ <<>> \in Line
      BY DEF Line
    <3> QED
      BY <1>5, <3>1 DEF Wraps
  <2>2. \A k \in 1..Len(line) : f[k - 1] \in Wraps => f[k] \in Wraps
    BY <1>5, PutType
  <2> QED
    BY <1>4, <2>1, <2>2, StaysIn
<1> QED
  BY <1>3, <1>5, <1>6 DEF WrapsStepwise

LEMMA WrapType ==
  ASSUME NEW line \in Line, NEW cols \in Nat
  PROVE  Wrap(line, cols) \in Seq(Row)
<1>1. PICK f : WrapsStepwise(f, line, cols)
  BY WrappedStepwise
<1>2. f[Len(line)] \in Wraps
  <2>1. Len(line) \in Nat
    BY DEF Line
  <2> QED
    BY <1>1, <2>1 DEF WrapsStepwise
<1>3. f[Len(line)].rows \in Seq(Row) /\ [cells |-> f[Len(line)].row, wraps |-> FALSE] \in Row
  BY <1>2 DEF Wraps, Row
<1> QED
  BY <1>1, <1>3, AppendProperties DEF WrapsStepwise

\* What the rows of a line and of a map are.
LEMMA TextType ==
  ASSUME NEW cells \in Line
  PROVE  Text(cells) \in Line /\ Len(Text(cells)) \in Nat
<1>1. Text(cells) \in Line
  BY KeepType DEF Text, Line
<1> QED
  BY <1>1 DEF Line

\* The columns where the rows of a line begin.
RowStarts(f, rs) ==
  f = [r \in DOMAIN rs |-> IF r = 1 THEN 0 ELSE f[r - 1] + Len(Text(rs[r - 1].cells))]

LEMMA ColumnsExist ==
  ASSUME NEW rs \in Seq(Row)
  PROVE  \E f : RowStarts(f, rs)
<1> DEFINE n == Len(rs)
           wide(k) == Len(Text(rs[k].cells))
           step == [k \in 1..n |-> [c \in Nat |-> c + wide(k)]]
<1>1. n \in Nat /\ DOMAIN rs = 1..n /\ \A k \in 1..n : wide(k) \in Nat
  <2>1. \A k \in 1..n : rs[k].cells \in Line
    <3>1. \A k \in 1..n : rs[k] \in Row
      OBVIOUS
    <3>2. \A x \in Row : x.cells \in Line
      BY DEF Row
    <3> HIDE DEF n
    <3> QED
      BY <3>1, <3>2
  <2>2. \A k \in 1..n : Len(Text(rs[k].cells)) \in Nat
    <3> TAKE k \in 1..n
    <3>1. rs[k].cells \in Line
      BY <2>1
    <3> HIDE DEF n
    <3> QED
      BY <3>1, TextType
  <2>3. n \in Nat /\ DOMAIN rs = 1..n
    OBVIOUS
  <2> HIDE DEF n
  <2> QED
    BY <2>1, <2>2, <2>3
<1>2. step \in [1..n -> [Nat -> Nat]]
  BY <1>1
<1>3. \A k \in 1..n : \A c \in Nat : step[k][c] = c + wide(k)
  OBVIOUS
<1> HIDE DEF step, n, wide
<1>4. PICK g \in [0..n -> Nat] : g[0] = 0 /\ \A k \in 1..n : g[k] = step[k][g[k - 1]]
  <2>1. Along(n, Nat, 0, step)
    BY <1>1, <1>2, Recursion
  <2> QED
    BY <2>1 DEF Along
<1> DEFINE f == [r \in 1..n |-> g[r - 1]]
<1>5. ASSUME NEW r \in 1..n, r # 1 PROVE g[r - 1] = g[(r - 1) - 1] + wide(r - 1)
  <2>1. r - 1 \in 1..n /\ (r - 1) - 1 \in 0..n
    BY <1>1, <1>5
  <2>2. g[r - 1] = step[r - 1][g[(r - 1) - 1]]
    BY <1>4, <2>1
  <2>3. g[(r - 1) - 1] \in Nat
    BY <1>4, <2>1
  <2> QED
    BY <1>3, <2>1, <2>2, <2>3
<1>6. ASSUME NEW r \in 1..n
      PROVE  f[r] = IF r = 1 THEN 0 ELSE f[r - 1] + wide(r - 1)
  <2>1. CASE r = 1
    BY <2>1, <1>1, <1>4
  <2>2. CASE r # 1
    <3>1. r - 1 \in 1..n
      BY <1>1, <2>2
    <3> QED
      BY <2>2, <3>1, <1>5
  <2> QED
    BY <2>1, <2>2
<1>7. f = [r \in 1..n |-> IF r = 1 THEN 0 ELSE f[r - 1] + wide(r - 1)]
  BY <1>6
<1> HIDE DEF f
<1>8. RowStarts(f, rs)
  BY <1>1, <1>7 DEF RowStarts, wide
<1> QED
  BY <1>8

LEMMA OriginsType ==
  ASSUME NEW rs \in Seq(Row), NEW line \in Nat
  PROVE  Origins(line, rs) \in Seq(Origin) /\ Len(Origins(line, rs)) = Len(rs)
<1> DEFINE col[r \in DOMAIN rs] == IF r = 1 THEN 0 ELSE col[r - 1] + Len(Text(rs[r - 1].cells))
           n == Len(rs)
<1>1. RowStarts(col, rs)
  BY ColumnsExist DEF RowStarts
<1>2. Origins(line, rs) = [r \in DOMAIN rs |-> [line |-> line, col |-> col[r]]]
  BY DEF Origins
<1> HIDE DEF col
<1>3. n \in Nat /\ DOMAIN rs = 1..n /\ \A k \in 1..n : Len(Text(rs[k].cells)) \in Nat
  <2>1. \A k \in 1..n : rs[k].cells \in Line
    <3>1. \A k \in 1..n : rs[k] \in Row
      OBVIOUS
    <3>2. \A x \in Row : x.cells \in Line
      BY DEF Row
    <3> HIDE DEF n
    <3> QED
      BY <3>1, <3>2
  <2>2. \A k \in 1..n : Len(Text(rs[k].cells)) \in Nat
    <3> TAKE k \in 1..n
    <3>1. rs[k].cells \in Line
      BY <2>1
    <3> HIDE DEF n
    <3> QED
      BY <3>1, TextType
  <2>3. n \in Nat /\ DOMAIN rs = 1..n
    OBVIOUS
  <2> HIDE DEF n
  <2> QED
    BY <2>1, <2>2, <2>3
<1> DEFINE T == {m \in Nat : m + 1 <= n => col[m + 1] \in Nat}
<1>4. 0 \in T
  BY <1>1, <1>3 DEF RowStarts
<1>5. ASSUME NEW m \in T PROVE m + 1 \in T
  <2>1. SUFFICES ASSUME (m + 1) + 1 <= n PROVE col[(m + 1) + 1] \in Nat
    BY <1>3
  <2> DEFINE r == (m + 1) + 1
  <2>2. m + 1 \in 1..n /\ r \in 1..n /\ r # 1 /\ r - 1 = m + 1
    BY <1>3, <2>1
  <2>3. col[m + 1] \in Nat
    BY <2>2, <1>3
  <2> HIDE DEF r
  <2>4. col[r] = col[r - 1] + Len(Text(rs[r - 1].cells))
    BY <1>1, <1>3, <2>2 DEF RowStarts
  <2>5. Len(Text(rs[r - 1].cells)) \in Nat
    BY <1>3, <2>2
  <2>6. col[r] \in Nat
    BY <2>2, <2>3, <2>4, <2>5
  <2> QED
    BY <2>6 DEF r
<1>6. T = Nat
  <2> HIDE DEF T
  <2>1. T \in SUBSET Nat
    BY DEF T
  <2> QED
    BY <1>4, <1>5, <2>1, Induction
<1>7. \A r \in 1..n : col[r] \in Nat
  <2> TAKE r \in 1..n
  <2>1. \A m \in Nat : m + 1 <= n => col[m + 1] \in Nat
    BY <1>6
  <2>2. n \in Nat
    BY <1>3
  <2> HIDE DEF n, T
  <2>3. r - 1 \in Nat /\ (r - 1) + 1 = r /\ r <= n
    BY <2>2
  <2>4. col[(r - 1) + 1] \in Nat
    BY <2>1, <2>3
  <2> QED
    BY <2>3, <2>4
<1> HIDE DEF n, T
<1>8. \A r \in 1..n : [line |-> line, col |-> col[r]] \in Origin
  BY <1>7 DEF Origin
<1> DEFINE o == [r \in 1..n |-> [line |-> line, col |-> col[r]]]
<1>9. o \in [1..n -> Origin]
  BY <1>8
<1> HIDE DEF o
<1>10. o \in Seq(Origin) /\ Len(o) = n
  BY <1>3, <1>9
<1> QED
  BY <1>2, <1>3, <1>10 DEF n, o

-----------------------------------------------------------------------------
\* A map with the rows of one more line.
PutLine(lines, cols, map, n) ==
  [rows |-> map.rows \o Wrap(lines[n], cols), origin |-> map.origin \o Origins(n - 1, Wrap(lines[n], cols))]

LEMMA PutLineType ==
  ASSUME NEW lines \in Seq(Line), NEW cols \in Nat, NEW map \in Maps, NEW n \in 1..Len(lines)
  PROVE  PutLine(lines, cols, map, n) \in Maps
<1> DEFINE rs == Wrap(lines[n], cols)
           o == Origins(n - 1, rs)
<1>1. lines[n] \in Line /\ n - 1 \in Nat
  OBVIOUS
<1>2. rs \in Seq(Row)
  BY <1>1, WrapType
<1>3. o \in Seq(Origin) /\ Len(o) = Len(rs)
  BY <1>1, <1>2, OriginsType
<1>4. map.rows \in Seq(Row) /\ map.origin \in Seq(Origin) /\ Len(map.rows) = Len(map.origin)
  BY DEF Maps
<1>5. PutLine(lines, cols, map, n) = [rows |-> map.rows \o rs, origin |-> map.origin \o o]
  BY DEF PutLine
<1> HIDE DEF rs, o
<1>6. \A p \in Seq(Row), q \in Seq(Row) : p \o q \in Seq(Row) /\ Len(p \o q) = Len(p) + Len(q)
  BY ConcatProperties
<1>7. \A p \in Seq(Origin), q \in Seq(Origin) : p \o q \in Seq(Origin) /\ Len(p \o q) = Len(p) + Len(q)
  BY ConcatProperties
<1> DEFINE r2 == map.rows \o rs
           o2 == map.origin \o o
<1>8. r2 \in Seq(Row) /\ o2 \in Seq(Origin) /\ Len(r2) = Len(o2)
  <2>1. r2 \in Seq(Row) /\ Len(r2) = Len(map.rows) + Len(rs)
    BY <1>2, <1>4, <1>6
  <2>2. o2 \in Seq(Origin) /\ Len(o2) = Len(map.origin) + Len(o)
    BY <1>3, <1>4, <1>7
  <2> HIDE DEF r2, o2
  <2> QED
    BY <2>1, <2>2, <1>3, <1>4
<1> HIDE DEF r2, o2
<1>9. [rows |-> r2, origin |-> o2] \in Maps
  BY <1>8 DEF Maps
<1> QED
  BY <1>5, <1>9 DEF r2, o2

Builds(f, lines, cols) ==
  f = [n \in 0..Len(lines) |-> IF n = 0 THEN [rows |-> <<>>, origin |-> <<>>] ELSE PutLine(lines, cols, f[n - 1], n)]

LEMMA EmptyMap == [rows |-> <<>>, origin |-> <<>>] \in Maps
<1>1. <<>> \in Seq(Row) /\ <<>> \in Seq(Origin) /\ Len(<<>>) = 0
  OBVIOUS
<1> QED
  BY <1>1 DEF Maps

LEMMA BuildsExist ==
  ASSUME NEW lines \in Seq(Line), NEW cols \in Nat
  PROVE  \E f : Builds(f, lines, cols)
<1> DEFINE n == Len(lines)
           base == [rows |-> <<>>, origin |-> <<>>]
           step == [k \in 1..n |-> [m \in Maps |-> PutLine(lines, cols, m, k)]]
<1>1. n \in Nat /\ base \in Maps
  BY EmptyMap
<1>2. step \in [1..n -> [Maps -> Maps]]
  BY PutLineType
<1>3. \A k \in 1..n : \A m \in Maps : step[k][m] = PutLine(lines, cols, m, k)
  OBVIOUS
<1> HIDE DEF step, base, n
<1>4. PICK f \in [0..n -> Maps] : f[0] = base /\ \A k \in 1..n : f[k] = step[k][f[k - 1]]
  <2>1. Along(n, Maps, base, step)
    BY <1>1, <1>2, Recursion
  <2> QED
    BY <2>1 DEF Along
<1>5. ASSUME NEW k \in 0..n PROVE f[k] = IF k = 0 THEN base ELSE PutLine(lines, cols, f[k - 1], k)
  <2>1. f[k] = IF k = 0 THEN base ELSE step[k][f[k - 1]]
    BY <1>1, <1>4
  <2>2. k # 0 => k \in 1..n /\ f[k - 1] \in Maps
    BY <1>1, <1>4
  <2> QED
    BY <2>1, <2>2, <1>3
<1>6. f = [k \in 0..n |-> IF k = 0 THEN base ELSE PutLine(lines, cols, f[k - 1], k)]
  BY <1>4, <1>5
<1> QED
  BY <1>6 DEF n, base, Builds

LEMMA BuildType ==
  ASSUME NEW lines \in Seq(Line), NEW cols \in Nat
  PROVE  Build(lines, cols) \in Maps
<1> DEFINE put(map, n) ==
             LET rs == Wrap(lines[n], cols)
             IN  [rows |-> map.rows \o rs, origin |-> map.origin \o Origins(n - 1, rs)]
           built[n \in 0..Len(lines)] ==
             IF n = 0 THEN [rows |-> <<>>, origin |-> <<>>] ELSE put(built[n - 1], n)
<1>1. built = [n \in 0..Len(lines) |-> IF n = 0 THEN [rows |-> <<>>, origin |-> <<>>] ELSE put(built[n - 1], n)]
  BY BuildsExist DEF Builds, PutLine
<1>2. Build(lines, cols) = built[Len(lines)]
  BY DEF Build
<1>3. PICK f : Builds(f, lines, cols) /\ Build(lines, cols) = f[Len(lines)]
  <2> HIDE DEF built
  <2>1. Builds(built, lines, cols)
    BY <1>1 DEF Builds, PutLine
  <2> QED
    BY <2>1, <1>2
<1> HIDE DEF built
<1>4. Len(lines) \in Nat
  OBVIOUS
<1>5. f[0] \in Maps
  BY <1>3, <1>4, EmptyMap DEF Builds
<1>6. \A k \in 1..Len(lines) : f[k - 1] \in Maps => f[k] \in Maps
  <2> TAKE k \in 1..Len(lines)
  <2>1. f[k] = PutLine(lines, cols, f[k - 1], k)
    BY <1>3, <1>4 DEF Builds
  <2> QED
    BY <2>1, PutLineType
<1>7. \A k \in 0..Len(lines) : f[k] \in Maps
  BY <1>4, <1>5, <1>6, StaysIn
<1> QED
  BY <1>3, <1>4, <1>7

\* The greatest and the least of a set of numbers.
LEMMA MaxIn ==
  ASSUME NEW S \in SUBSET Nat, S # {}, NEW n \in Nat, \A k \in S : k <= n
  PROVE  Max(S) \in S /\ \A k \in S : k <= Max(S)
<1> DEFINE T == {n - k : k \in S}
<1>1. T \in SUBSET Nat /\ T # {}
  <2>1. PICK x \in S : TRUE
    OBVIOUS
  <2>2. n - x \in T
    OBVIOUS
  <2>3. \A k \in S : n - k \in Nat
    OBVIOUS
  <2> QED
    BY <2>2, <2>3
<1>2. PICK m \in T : \A k \in T : m <= k
  BY <1>1, Least
<1>3. PICK x \in S : m = n - x
  BY <1>2
<1>4. \A y \in S : x >= y
  <2> TAKE y \in S
  <2>1. n - y \in T
    OBVIOUS
  <2> QED
    BY <2>1, <1>2, <1>3
<1> QED
  BY <1>3, <1>4 DEF Max

LEMMA MinIn ==
  ASSUME NEW S \in SUBSET Nat, S # {}
  PROVE  Min(S) \in S /\ \A k \in S : Min(S) <= k
<1>1. PICK m \in S : \A k \in S : m <= k
  BY Least
<1>2. \A y \in S : m =< y
  BY <1>1
<1> QED
  BY <1>1, <1>2 DEF Min

\* The less and the greater of two numbers.
LEMMA MinOfTwo == \A m, n \in Nat : Min({m, n}) = IF m <= n THEN m ELSE n
<1> TAKE m, n \in Nat
<1>1. Min({m, n}) \in {m, n} /\ \A k \in {m, n} : Min({m, n}) <= k
  <2>1. {m, n} \in SUBSET Nat /\ {m, n} # {}
    OBVIOUS
  <2> QED
    BY <2>1, MinIn
<1> QED
  BY <1>1

LEMMA MaxOfTwo == \A m, n \in Nat : Max({m, n}) = IF m <= n THEN n ELSE m
<1> TAKE m, n \in Nat
<1>1. Max({m, n}) \in {m, n} /\ \A k \in {m, n} : k <= Max({m, n})
  <2>1. {m, n} \in SUBSET Nat /\ {m, n} # {} /\ m + n \in Nat /\ \A k \in {m, n} : k <= m + n
    OBVIOUS
  <2> QED
    BY <2>1, MaxIn
<1> QED
  BY <1>1

\* The last of some places of a sequence, or 0.
LEMMA LastPlace ==
  ASSUME NEW n \in Nat, NEW S \in SUBSET (1..n)
  PROVE  Max({0} \cup S) \in 0..n
<1>1. {0} \cup S \in SUBSET Nat /\ {0} \cup S # {} /\ \A k \in {0} \cup S : k <= n
  OBVIOUS
<1>2. Max({0} \cup S) \in {0} \cup S
  BY <1>1, MaxIn
<1>3. \A x \in {0} \cup S : x \in 0..n
  OBVIOUS
<1> QED
  BY <1>2, <1>3

\* What a sequence begins with.
LEMMA Begins ==
  ASSUME NEW S, NEW s \in Seq(S), NEW n \in 0..Len(s)
  PROVE  SubSeq(s, 1, n) \in Seq(S) /\ Len(SubSeq(s, 1, n)) = n
BY SubSeqProperties

LEMMA TrimmedType == ASSUME NEW cells \in Line PROVE Trimmed(cells) \in Line
<1> DEFINE S == {i \in DOMAIN cells : cells[i] # "_"}
<1>1. Len(cells) \in Nat /\ S \in SUBSET (1..Len(cells)) /\ cells \in Seq(Char)
  <2>1. cells \in Seq(Char)
    BY DEF Line
  <2>2. Len(cells) \in Nat /\ DOMAIN cells = 1..Len(cells)
    BY <2>1
  <2> QED
    BY <2>1, <2>2
<1>2. Max({0} \cup S) \in 0..Len(cells)
  <2> HIDE DEF S
  <2> QED
    BY <1>1, LastPlace
<1>3. Trimmed(cells) = SubSeq(cells, 1, Max({0} \cup S))
  BY DEF Trimmed
<1> HIDE DEF S
<1> QED
  BY <1>1, <1>2, <1>3, Begins DEF Line

LEMMA GridRowsType ==
  ASSUME NEW lines \in Seq(Line), NEW cols \in Nat
  PROVE  GridRows(lines, cols) \in Seq(Row)
<1> DEFINE rs == Build(lines, cols).rows
<1>1. rs \in Seq(Row)
  BY BuildType DEF Maps
<1>2. GridRows(lines, cols) = [r \in DOMAIN rs |-> Padded(rs[r], cols)]
  BY DEF GridRows
<1> HIDE DEF rs
<1>3. ASSUME NEW row \in Row PROVE Padded(row, cols) \in Row
  <2> DEFINE m == Max({0, cols - Len(row.cells)})
             pad == [i \in 1..m |-> "_"]
  <2>1. row.cells \in Seq(Char) /\ Len(row.cells) \in Nat /\ row.wraps \in BOOLEAN
    BY DEF Row, Line
  <2>2. "_" \in Char
    BY DEF Char
  <2>3. m \in Nat
    <3>1. cols - Len(row.cells) \in Int
      BY <2>1
    <3>2. CASE cols - Len(row.cells) \in Nat
      BY <3>2, MaxOfTwo
    <3>3. CASE cols - Len(row.cells) \notin Nat
      <4> DEFINE d == cols - Len(row.cells)
      <4>1. d < 0 /\ d \in Int
        BY <3>1, <3>3
      <4> HIDE DEF d
      <4>2. Max({0, d}) = 0
        BY <4>1 DEF Max
      <4> QED
        BY <4>2 DEF d
    <3> QED
      BY <3>2, <3>3
  <2> HIDE DEF m
  <2>4. pad \in Seq(Char)
    <3> DEFINE blank == "_"
    <3>1. blank \in Char
      BY <2>2
    <3> HIDE DEF blank
    <3>2. [i \in 1..m |-> blank] \in [1..m -> Char]
      BY <3>1
    <3>3. [i \in 1..m |-> blank] \in Seq(Char)
      BY <2>3, <3>2
    <3> QED
      BY <3>3 DEF blank
  <2> HIDE DEF pad
  <2>5. row.cells \o pad \in Line
    BY <2>1, <2>4, ConcatProperties DEF Line
  <2>6. Padded(row, cols) = IF row.wraps THEN row ELSE [row EXCEPT !.cells = row.cells \o pad]
    BY DEF Padded, pad, m
  <2> QED
    BY <2>5, <2>6 DEF Row
<1>4. DOMAIN rs = 1..Len(rs) /\ Len(rs) \in Nat /\ \A r \in DOMAIN rs : rs[r] \in Row
  BY <1>1
<1> DEFINE g == [r \in 1..Len(rs) |-> Padded(rs[r], cols)]
<1>5. g \in [1..Len(rs) -> Row]
  BY <1>3, <1>4
<1> HIDE DEF g
<1>6. g \in Seq(Row)
  BY <1>4, <1>5
<1> QED
  BY <1>2, <1>4, <1>6 DEF g

LEMMA SnapshotType ==
  ASSUME NEW rs \in Seq(Row)
  PROVE  SnapshotLinesAll(rs) \in Seq(Row)
<1> DEFINE S == {r \in DOMAIN rs : \E i \in DOMAIN rs[r].cells : ~IsBlank(rs[r].cells[i])}
<1>1. Len(rs) \in Nat /\ S \in SUBSET (1..Len(rs))
  OBVIOUS
<1>2. SnapshotLinesAll(rs) = SubSeq(rs, 1, Max({0} \cup S))
  BY DEF SnapshotLinesAll
<1> HIDE DEF S
<1>3. Max({0} \cup S) \in 0..Len(rs)
  BY <1>1, LastPlace
<1> QED
  BY <1>2, <1>3, Begins

-----------------------------------------------------------------------------
\* What reading rows has read, and how it reads one more.
Reads == [out : Seq(Line), line : Line]
PutRow(u, row) ==
  IF row.wraps THEN [out |-> u.out, line |-> u.line \o Text(row.cells)]
  ELSE [out |-> Append(u.out, Trimmed(u.line \o Text(row.cells))), line |-> <<>>]
ReadsOn(f, rs) ==
  f = [r \in 0..Len(rs) |-> IF r = 0 THEN [out |-> <<>>, line |-> <<>>] ELSE PutRow(f[r - 1], rs[r])]

LEMMA NothingRead == [out |-> <<>>, line |-> <<>>] \in Reads
<1>1. <<>> \in Seq(Line) /\ <<>> \in Line
  BY DEF Line
<1> QED
  BY <1>1 DEF Reads

LEMMA PutRowType ==
  ASSUME NEW u \in Reads, NEW row \in Row
  PROVE  PutRow(u, row) \in Reads
<1> DEFINE cells == u.line \o Text(row.cells)
<1>1. u.out \in Seq(Line) /\ u.line \in Line /\ row.cells \in Line /\ <<>> \in Line
  BY DEF Reads, Row, Line
<1>2. cells \in Line
  BY <1>1, TextType, ConcatProperties DEF Line
<1> HIDE DEF cells
<1>3. Trimmed(cells) \in Line
  BY <1>2, TrimmedType
<1>4. Append(u.out, Trimmed(cells)) \in Seq(Line)
  BY <1>1, <1>3, AppendProperties
<1>5. PutRow(u, row) = IF row.wraps THEN [out |-> u.out, line |-> cells]
                       ELSE [out |-> Append(u.out, Trimmed(cells)), line |-> <<>>]
  BY DEF PutRow, cells
<1> QED
  BY <1>1, <1>2, <1>4, <1>5 DEF Reads

LEMMA ReadsExist ==
  ASSUME NEW rs \in Seq(Row)
  PROVE  \E f : ReadsOn(f, rs)
<1> DEFINE n == Len(rs)
           base == [out |-> <<>>, line |-> <<>>]
           step == [k \in 1..n |-> [u \in Reads |-> PutRow(u, rs[k])]]
<1>1. n \in Nat /\ base \in Reads /\ \A k \in 1..n : rs[k] \in Row
  BY NothingRead
<1>2. step \in [1..n -> [Reads -> Reads]]
  BY <1>1, PutRowType
<1>3. \A k \in 1..n : \A u \in Reads : step[k][u] = PutRow(u, rs[k])
  OBVIOUS
<1> HIDE DEF step, base, n
<1>4. PICK f \in [0..n -> Reads] : f[0] = base /\ \A k \in 1..n : f[k] = step[k][f[k - 1]]
  <2>1. Along(n, Reads, base, step)
    BY <1>1, <1>2, Recursion
  <2> QED
    BY <2>1 DEF Along
<1>5. ASSUME NEW k \in 0..n PROVE f[k] = IF k = 0 THEN base ELSE PutRow(f[k - 1], rs[k])
  <2>1. f[k] = IF k = 0 THEN base ELSE step[k][f[k - 1]]
    BY <1>1, <1>4
  <2>2. k # 0 => k \in 1..n /\ f[k - 1] \in Reads
    BY <1>1, <1>4
  <2> QED
    BY <2>1, <2>2, <1>3
<1>6. f = [k \in 0..n |-> IF k = 0 THEN base ELSE PutRow(f[k - 1], rs[k])]
  BY <1>4, <1>5
<1> QED
  BY <1>6 DEF n, base, ReadsOn

LEMMA UnwrapType ==
  ASSUME NEW rs \in Seq(Row)
  PROVE  Unwrap(rs) \in Seq(Line)
<1> DEFINE put(u, row) ==
             LET cells == u.line \o Text(row.cells)
             IN  IF row.wraps THEN [out |-> u.out, line |-> cells]
                 ELSE [out |-> Append(u.out, Trimmed(cells)), line |-> <<>>]
           read[r \in 0..Len(rs)] ==
             IF r = 0 THEN [out |-> <<>>, line |-> <<>>] ELSE put(read[r - 1], rs[r])
<1>1. ReadsOn(read, rs)
  BY ReadsExist DEF ReadsOn, PutRow
<1>2. Unwrap(rs) = IF read[Len(rs)].line = <<>> THEN read[Len(rs)].out
                     ELSE Append(read[Len(rs)].out, Trimmed(read[Len(rs)].line))
  BY DEF Unwrap
<1> HIDE DEF read
<1>3. Len(rs) \in Nat /\ \A k \in 1..Len(rs) : rs[k] \in Row
  OBVIOUS
<1>4. read[0] \in Reads
  BY <1>1, <1>3, NothingRead DEF ReadsOn
<1>5. \A k \in 1..Len(rs) : read[k - 1] \in Reads => read[k] \in Reads
  <2> TAKE k \in 1..Len(rs)
  <2>1. read[k] = PutRow(read[k - 1], rs[k]) /\ rs[k] \in Row
    BY <1>1, <1>3 DEF ReadsOn
  <2> QED
    BY <2>1, PutRowType
<1>6. \A k \in 0..Len(rs) : read[k] \in Reads
  BY <1>3, <1>4, <1>5, StaysIn
<1> DEFINE end == read[Len(rs)]
<1>7. end.out \in Seq(Line) /\ end.line \in Line
  BY <1>3, <1>6 DEF Reads
<1> HIDE DEF end
<1>8. Trimmed(end.line) \in Line
  BY <1>7, TrimmedType
<1>9. Append(end.out, Trimmed(end.line)) \in Seq(Line)
  BY <1>7, <1>8, AppendProperties
<1> QED
  BY <1>2, <1>7, <1>9 DEF end

\* Places on the screen, sealed and running blocks, stretches of a block.
Place == [row : Nat, col : Nat]
Block == [id : Nat, command : Seq(Line), output : Seq(Line)]
Ran == [command : Seq(Line), output : Seq(Line)]
Units == {u \in [id : Nat, a : Place, b : Place] : Before2(u.a, u.b)}

\* A visual place has a logical one.
LEMMA LogicalType ==
  ASSUME NEW map \in Maps, NEW row \in Nat, NEW col \in Nat
  PROVE  VisualToLogical(map, row, col) \in [line : Nat, col : Nat]
<1> DEFINE r == Min({row + 1, Len(map.rows)})
           cells == map.rows[r].cells
           c == Min({col, Len(cells)})
           onSpacer == c < Len(cells) /\ IsSpacer(cells[c + 1])
           offset == Before(map.rows[r], c)
           back == IF onSpacer THEN Max({0, offset - 1}) ELSE offset
           l == [line |-> map.origin[r].line, col |-> map.origin[r].col + back]
<1>1. map.rows \in Seq(Row) /\ map.origin \in Seq(Origin) /\ Len(map.rows) = Len(map.origin)
  BY DEF Maps
<1>2. VisualToLogical(map, row, col) = IF map.rows = <<>> THEN [line |-> 0, col |-> 0] ELSE l
  BY DEF VisualToLogical
<1>3. SUFFICES ASSUME map.rows # <<>> PROVE l \in [line : Nat, col : Nat]
  BY <1>2
<1>4. r \in 1..Len(map.rows)
  <2>1. Len(map.rows) \in Nat /\ Len(map.rows) > 0
    BY <1>1, <1>3
  <2> QED
    BY <2>1, MinOfTwo
<1> HIDE DEF r, l
<1>5. map.rows[r] \in Row /\ map.origin[r] \in Origin
  BY <1>1, <1>4
<1>6. cells \in Seq(Char) /\ Len(cells) \in Nat
  <2>1. cells \in Seq(Char)
    BY <1>5 DEF Row, Line
  <2> QED
    BY <2>1
<1> HIDE DEF cells
<1>7. c \in 0..Len(cells)
  BY <1>6, MinOfTwo
<1> HIDE DEF c
<1>8. offset \in Nat
  <2>1. offset = Len(Text(SubSeq(cells, 1, c)))
    BY DEF Before, cells
  <2>2. SubSeq(cells, 1, c) \in Line
    BY <1>6, <1>7, Begins DEF Line
  <2> HIDE DEF offset
  <2> QED
    BY <2>1, <2>2, TextType
<1> HIDE DEF offset, onSpacer
<1>9. back \in Nat
  <2>1. CASE offset = 0
    <3>1. Max({0, offset - 1}) = 0
      BY <2>1 DEF Max
    <3> QED
      BY <3>1, <1>8
  <2>2. CASE offset # 0
    <3>1. offset - 1 \in Nat
      BY <1>8, <2>2
    <3>2. Max({0, offset - 1}) \in Nat
      BY <3>1, MaxOfTwo
    <3> QED
      BY <3>2, <1>8
  <2> QED
    BY <2>1, <2>2
<1> HIDE DEF back
<1>10. map.origin[r].line \in Nat /\ map.origin[r].col \in Nat
  BY <1>5 DEF Origin
<1> QED
  BY <1>9, <1>10 DEF l

LEMMA TypedType == ASSUME NEW cells \in Line PROVE Typed(cells) \in Nat
<1> DEFINE S == {i \in DOMAIN cells : ~IsBlank(cells[i])}
<1>1. cells \in Seq(Char)
  BY DEF Line
<1>2. Len(cells) \in Nat /\ DOMAIN cells = 1..Len(cells)
  BY <1>1
<1>3. S \in SUBSET (1..Len(cells))
  BY <1>2
<1>4. Typed(cells) = Max({0} \cup S)
  BY DEF Typed
<1> HIDE DEF S
<1>5. Max({0} \cup S) \in 0..Len(cells)
  BY <1>2, <1>3, LastPlace
<1> QED
  BY <1>2, <1>4, <1>5

\* The rows of a block, and where each ends.
LEMMA RowsType ==
  ASSUME NEW b \in Block
  PROVE  /\ Len(b.command) \in Nat
         /\ Len(Rows(b)) \in Nat /\ Len(b.command) <= Len(Rows(b))
         /\ \A row \in Nat : row < Len(Rows(b)) => Rows(b)[row + 1] \in Line
         /\ \A row \in Nat : row < Len(b.command) => b.command[row + 1] \in Line
<1>1. b.command \in Seq(Line) /\ b.output \in Seq(Line)
  BY DEF Block
<1>2. Rows(b) \in Seq(Line) /\ Len(Rows(b)) = Len(b.command) + Len(b.output)
  BY <1>1, ConcatProperties DEF Rows
<1>3. Len(b.command) \in Nat /\ Len(b.output) \in Nat
  BY <1>1
<1>4. \A q \in Seq(Line) : \A row \in Nat : row < Len(q) => q[row + 1] \in Line
  OBVIOUS
<1>5. \A row \in Nat : row < Len(Rows(b)) => Rows(b)[row + 1] \in Line
  BY <1>2, <1>4
<1>6. \A row \in Nat : row < Len(b.command) => b.command[row + 1] \in Line
  BY <1>1, <1>4
<1>7. Len(Rows(b)) \in Nat /\ Len(b.command) <= Len(Rows(b))
  <2>1. \A m, n \in Nat : m + n \in Nat /\ m <= m + n
    OBVIOUS
  <2> QED
    BY <2>1, <1>2, <1>3
<1> QED
  BY <1>3, <1>5, <1>6, <1>7

LEMMA RowLenType ==
  ASSUME NEW b \in Block, NEW row \in Nat
  PROVE  /\ RowLen(b, row) \in Int
         /\ RowLen(b, row) >= 0 \/ row >= Len(Rows(b))
<1>1. /\ Len(b.command) \in Nat
      /\ Len(Rows(b)) \in Nat /\ Len(b.command) <= Len(Rows(b))
      /\ row < Len(Rows(b)) => Rows(b)[row + 1] \in Line
      /\ row < Len(b.command) => b.command[row + 1] \in Line
  BY RowsType
<1>2. row < Len(b.command) => Len(b.command[row + 1]) \in Nat
  <2>1. \A q \in Line : Len(q) \in Nat
    BY DEF Line
  <2> QED
    BY <2>1, <1>1
<1>3. row < Len(Rows(b)) => Typed(Rows(b)[row + 1]) \in Nat
  <2>1. \A q \in Line : Typed(q) \in Nat
    BY TypedType
  <2> QED
    BY <2>1, <1>1
<1> QED
  BY <1>1, <1>2, <1>3 DEF RowLen

\* The columns of a word hold the one it is read at.
LEMMA WordRangeType ==
  ASSUME NEW cells \in Line, NEW col \in Nat
  PROVE  \E m, n \in Nat : WordRange(cells, col) = <<m, n>> /\ m <= n
<1> DEFINE joined(i, j) == \A k \in i..j : IsWord(cells[k + 1])
           L == {i \in 0..col : joined(i, col)}
           R == {j \in col..Len(cells) - 1 : joined(col, j)}
<1>1. Len(cells) \in Nat
  BY DEF Line
<1>2. CASE col >= Len(cells) \/ ~IsWord(cells[col + 1])
  BY <1>2 DEF WordRange
<1>3. CASE ~(col >= Len(cells) \/ ~IsWord(cells[col + 1]))
  <2>1. WordRange(cells, col) = <<Min(L), 1 + Max(R)>>
    BY <1>3 DEF WordRange
  <2>2. joined(col, col)
    BY <1>3
  <2>3. L \in SUBSET Nat /\ col \in L
    BY <2>2
  <2>4. R \in SUBSET Nat /\ col \in R /\ \A k \in R : k <= Len(cells)
    BY <2>2, <1>1, <1>3
  <2> HIDE DEF L, R
  <2>5. Min(L) \in Nat /\ Min(L) <= col
    BY <2>3, MinIn
  <2>6. Max(R) \in Nat /\ col <= Max(R)
    BY <2>4, <1>1, MaxIn
  <2> QED
    BY <2>1, <2>5, <2>6
<1> QED
  BY <1>2, <1>3

\* A unit is a stretch of one row, or nothing.
LEMMA UnitIsStretch ==
  ASSUME NEW b \in Block, NEW c \in Place, NEW clicks
  PROVE  \/ UnitAt(b, c, clicks) = <<>>
         \/ \E p, q \in Place : UnitAt(b, c, clicks) = <<p, q>> /\ Before2(p, q)
<1>1. c.row \in Nat /\ c.col \in Nat
  BY DEF Place
<1>2. SUFFICES ASSUME ~(c.row >= Len(Rows(b)))
               PROVE  \E p, q \in Place : UnitAt(b, c, clicks) = <<p, q>> /\ Before2(p, q)
  BY DEF UnitAt
<1>3. Rows(b)[c.row + 1] \in Line /\ Len(Rows(b)) \in Nat
  BY <1>1, <1>2, RowsType
<1> DEFINE r == IF clicks = 2 THEN WordRange(Rows(b)[c.row + 1], c.col) ELSE <<0, RowLen(b, c.row)>>
<1>4. \E m, n \in Nat : r = <<m, n>> /\ m <= n
  <2>1. CASE clicks = 2
    BY <2>1, <1>1, <1>3, WordRangeType
  <2>2. CASE clicks # 2
    <3>1. RowLen(b, c.row) \in Nat
      BY <1>1, <1>2, <1>3, RowLenType
    <3> QED
      BY <2>2, <3>1
  <2> QED
    BY <2>1, <2>2
<1>5. UnitAt(b, c, clicks) = <<Cursor(c.row, r[1]), Cursor(c.row, r[2])>>
  BY <1>2 DEF UnitAt
<1> HIDE DEF r
<1>6. PICK m, n \in Nat : r = <<m, n>> /\ m <= n
  BY <1>4
<1> DEFINE p == Cursor(c.row, m)
           q == Cursor(c.row, n)
<1>7. p \in Place /\ q \in Place
  BY <1>1 DEF Cursor, Place
<1>8. Before2(p, q)
  BY <1>1, <1>6 DEF Cursor, Before2
<1>9. UnitAt(b, c, clicks) = <<p, q>>
  BY <1>5, <1>6
<1> QED
  BY <1>7, <1>8, <1>9

-----------------------------------------------------------------------------
\* What the screen is made of.
Screen ==
  /\ stack \in Seq(Block) /\ width \in Nat
  /\ \A i, j \in DOMAIN stack : stack[i].id = stack[j].id => i = j
  /\ running \in Seq(Ran)
  /\ \A id \in DOMAIN cache.maps : cache.maps[id] \in Maps

LEMMA MapsOfType ==
  ASSUME NEW blocks \in Seq(Block), NEW cols \in Nat
  PROVE  \A id \in DOMAIN MapsOf(blocks, cols) : MapsOf(blocks, cols)[id] \in Maps
<1> DEFINE of(id) == CHOOSE b \in ToSet(blocks) : b.id = id
<1>1. MapsOf(blocks, cols) = [id \in {blocks[i].id : i \in DOMAIN blocks} |-> Build(of(id).output, cols)]
  BY DEF MapsOf
<1>2. ASSUME NEW id \in {blocks[i].id : i \in DOMAIN blocks} PROVE Build(of(id).output, cols) \in Maps
  <2>1. \E b \in ToSet(blocks) : b.id = id
    BY DEF ToSet
  <2>2. of(id) \in ToSet(blocks)
    BY <2>1
  <2>3. \A b \in ToSet(blocks) : b \in Block
    BY DEF ToSet
  <2> HIDE DEF of
  <2>4. of(id).output \in Seq(Line)
    BY <2>2, <2>3 DEF Block
  <2> QED
    BY <2>4, BuildType
<1> HIDE DEF of
<1> QED
  BY <1>1, <1>2

LEMMA RefreshedType ==
  ASSUME Screen
  PROVE  \A id \in DOMAIN Refreshed.maps : Refreshed.maps[id] \in Maps
<1>1. CASE Current(cache)
  BY <1>1 DEF Screen, Refreshed
<1>2. CASE ~Current(cache)
  <2>1. Refreshed.maps = MapsOf(stack, width)
    BY <1>2 DEF Refreshed
  <2>2. stack \in Seq(Block) /\ width \in Nat
    BY DEF Screen
  <2> QED
    BY <2>1, <2>2, MapsOfType
<1> QED
  BY <1>1, <1>2

\* A cursor is a place.
LEMMA CursorIsPlace ==
  ASSUME NEW maps, \A id \in DOMAIN maps : maps[id] \in Maps,
         NEW b \in Block, NEW row \in Nat, NEW col \in Nat
  PROVE  CursorAt(maps, b, row, col) \in Place
<1> DEFINE total == Len(b.command) + Len(VisualRows(maps, b))
           r == IF b.id \in DOMAIN maps THEN Min({row, Max({0, total - 1})}) ELSE row
           l == VisualToLogical(maps[b.id], r - Len(b.command), col)
           c == IF r < Len(b.command) \/ b.id \notin DOMAIN maps THEN Cursor(r, col)
                ELSE Cursor(Len(b.command) + l.line, l.col)
<1>0. CursorAt(maps, b, row, col) = IF RowLen(b, c.row) < 0 THEN c
                              ELSE [c EXCEPT !.col = Min({c.col, RowLen(b, c.row)})]
  BY DEF CursorAt
<1>1. Len(b.command) \in Nat
  BY RowsType
<1>2. Len(VisualRows(maps, b)) \in Nat
  <2>1. CASE b.id \in DOMAIN maps
    <3> DEFINE rs == maps[b.id].rows
               seen == [k \in DOMAIN rs |-> rs[k].cells]
    <3>1. rs \in Seq(Row)
      BY <2>1 DEF Maps
    <3>2. VisualRows(maps, b) = seen
      BY <2>1 DEF VisualRows
    <3> HIDE DEF rs
    <3>3. DOMAIN rs = 1..Len(rs) /\ Len(rs) \in Nat /\ \A k \in DOMAIN rs : rs[k].cells \in Line
      <4>1. \A k \in DOMAIN rs : rs[k] \in Row
        BY <3>1
      <4>2. \A x \in Row : x.cells \in Line
        BY DEF Row
      <4> QED
        BY <3>1, <4>1, <4>2
    <3>4. seen \in [1..Len(rs) -> Line]
      BY <3>3
    <3> HIDE DEF seen
    <3>5. seen \in Seq(Line)
      BY <3>3, <3>4
    <3> QED
      BY <3>2, <3>5
  <2>2. CASE b.id \notin DOMAIN maps
    BY <2>2 DEF VisualRows, Block
  <2> QED
    BY <2>1, <2>2
<1>3. r \in Nat
  <2>1. total - 1 \in Int /\ total - 1 >= -1
    BY <1>1, <1>2
  <2> HIDE DEF total
  <2>2. Max({0, total - 1}) \in Nat
    <3>1. CASE total - 1 \in Nat
      BY <3>1, MaxOfTwo
    <3>2. CASE total - 1 \notin Nat
      <4> DEFINE d == total - 1
      <4>1. \A x \in Int : x >= -1 /\ x \notin Nat => x = -1
        OBVIOUS
      <4>2. d \in Int /\ d >= -1 /\ d \notin Nat
        BY <2>1, <3>2
      <4>3. d = -1
        BY <4>1, <4>2
      <4> HIDE DEF d
      <4>4. Max({0, d}) = 0
        BY <4>3 DEF Max
      <4> QED
        BY <4>4 DEF d
    <3> QED
      BY <3>1, <3>2
  <2> QED
    BY <2>2, MinOfTwo
<1> HIDE DEF r
<1>4. c \in Place
  <2>1. CASE r < Len(b.command) \/ b.id \notin DOMAIN maps
    BY <2>1, <1>3 DEF Cursor, Place
  <2>2. CASE ~(r < Len(b.command) \/ b.id \notin DOMAIN maps)
    <3>1. r - Len(b.command) \in Nat /\ maps[b.id] \in Maps
      BY <2>2, <1>1, <1>3
    <3>2. l \in [line : Nat, col : Nat]
      BY <3>1, LogicalType
    <3> HIDE DEF l
    <3>3. Len(b.command) + l.line \in Nat /\ l.col \in Nat
      BY <3>2, <1>1
    <3> QED
      BY <2>2, <3>3 DEF Cursor, Place
  <2> QED
    BY <2>1, <2>2
<1> HIDE DEF c
<1>6. c.row \in Nat /\ c.col \in Nat
  BY <1>4 DEF Place
<1>7. RowLen(b, c.row) \in Int
  BY <1>6, RowLenType
<1> DEFINE least == Min({c.col, RowLen(b, c.row)})
<1>8. ~(RowLen(b, c.row) < 0) => least \in Nat
  <2>1. SUFFICES ASSUME RowLen(b, c.row) \in Nat PROVE least \in Nat
    BY <1>7
  <2> QED
    BY <2>1, <1>6, MinOfTwo
<1> HIDE DEF least
<1>9. CursorAt(maps, b, row, col) = IF RowLen(b, c.row) < 0 THEN c ELSE [c EXCEPT !.col = least]
  BY <1>0 DEF least
<1> QED
  BY <1>4, <1>7, <1>8, <1>9 DEF Place

\* What is known of the hand: how the pointer is kept, and whose label it holds.
Hand ==
  /\ mouse = [count |-> mouse.count, at |-> mouse.at, anchor |-> mouse.anchor,
              opened |-> mouse.opened, held |-> mouse.held]
  /\ mouse.count \in Nat
  /\ gestures = [n |-> gestures.n, blocks |-> gestures.blocks] /\ gestures.blocks \in Nat
  /\ \A i \in DOMAIN stack : stack[i].id <= gestures.blocks
  /\ Len(mouse.held) = 2 => mouse.held[2] \in Nat /\ mouse.held[2] <= gestures.blocks
  /\ \A i \in DOMAIN stack : mouse.held = <<"pinned", stack[i].id>> => stack[i].command # <<>>

\* The selection runs from the far edge of the unit first pressed, which the
\* mouse has as its anchor, to that of the unit last under the pointer.
Whole ==
  sel # <<>> =>
    /\ units = <<>> <=> mouse.anchor = <<>>
    /\ units # <<>> =>
         /\ mouse.count \in {2, 3}
         /\ units = <<units[1], units[2]>> /\ units[1] \in Units /\ units[2] \in Units
         /\ mouse.anchor = <<units[1]>>
         /\ sel = [anchor |-> Endpoints(units[1], units[2])[1], head |-> Endpoints(units[1], units[2])[2]]

\* The far edges of two units are around both.
LEMMA EdgesHoldBoth ==
  ASSUME NEW u \in Units, NEW v \in Units, NEW s,
         s = [anchor |-> Endpoints(u, v)[1], head |-> Endpoints(u, v)[2]]
  PROVE  \A w \in {u, v} : /\ NotAfter(BothEnds(s)[1], At(w.id, w.a))
                           /\ NotAfter(At(w.id, w.b), BothEnds(s)[2])
<1>1. \A w \in {u, v} : /\ w.id \in Nat /\ w.a.row \in Nat /\ w.a.col \in Nat
                        /\ w.b.row \in Nat /\ w.b.col \in Nat /\ Before2(w.a, w.b)
  BY DEF Units, Place
<1> DEFINE e == Endpoints(u, v)
<1>2. s.anchor = e[1] /\ s.head = e[2]
  OBVIOUS
<1>3. CASE u.id = v.id
  <2>1. e[1] = At(u.id, Earlier(u.a, v.a)) /\ e[2] = At(u.id, Later(u.b, v.b))
    BY <1>3 DEF Endpoints
  <2> DEFINE a == Earlier(u.a, v.a)
             b == Later(u.b, v.b)
  <2>2. a \in {u.a, v.a} /\ b \in {u.b, v.b}
    BY DEF Earlier, Later
  <2>3. \A w \in {u, v} : Before2(a, w.a) /\ Before2(w.b, b)
    BY <1>1 DEF Earlier, Later, Before2
  <2>4. Before2(a, b)
    <3>1. Before2(a, u.a) /\ Before2(u.a, u.b) /\ Before2(u.b, b)
      BY <1>1, <2>3
    <3> HIDE DEF a, b
    <3>2. a.row \in Nat /\ a.col \in Nat /\ b.row \in Nat /\ b.col \in Nat
      BY <1>1, <2>2
    <3> QED
      BY <1>1, <3>1, <3>2 DEF Before2
  <2> HIDE DEF a, b
  <2>5. BothEnds(s) = <<At(u.id, a), At(u.id, b)>>
    BY <1>2, <2>1, <2>4 DEF BothEnds, NotAfter, At, Before2, a, b
  <2> QED
    BY <1>1, <1>3, <2>3, <2>5 DEF NotAfter, At, Before2
<1>4. CASE v.id > u.id
  <2>1. e[1] = At(u.id, u.a) /\ e[2] = At(v.id, v.b)
    BY <1>1, <1>4 DEF Endpoints
  <2>2. BothEnds(s) = <<At(u.id, u.a), At(v.id, v.b)>>
    BY <1>1, <1>2, <1>4, <2>1 DEF BothEnds, NotAfter, At
  <2> QED
    BY <1>1, <1>4, <2>2 DEF NotAfter, At, Before2
<1>5. CASE v.id < u.id
  <2>1. e[1] = At(u.id, u.b) /\ e[2] = At(v.id, v.a)
    BY <1>1, <1>5 DEF Endpoints
  <2>2. BothEnds(s) = <<At(v.id, v.a), At(u.id, u.b)>>
    BY <1>1, <1>2, <1>5, <2>1 DEF BothEnds, NotAfter, At
  <2> QED
    BY <1>1, <1>5, <2>2 DEF NotAfter, At, Before2
<1> QED
  BY <1>1, <1>3, <1>4, <1>5

LEMMA WholeStays == ASSUME Whole PROVE WholeUnitsStaySelected
<1>1. SUFFICES ASSUME units # <<>>, sel # <<>>
               PROVE  \A u \in ToSet(units) : /\ NotAfter(BothEnds(sel)[1], At(u.id, u.a))
                                              /\ NotAfter(At(u.id, u.b), BothEnds(sel)[2])
  BY DEF WholeUnitsStaySelected
<1> DEFINE u == units[1]
           v == units[2]
<1>2. /\ units = <<u, v>> /\ u \in Units /\ v \in Units
      /\ sel = [anchor |-> Endpoints(u, v)[1], head |-> Endpoints(u, v)[2]]
  BY <1>1 DEF Whole
<1> HIDE DEF u, v
<1>3. ToSet(units) = {u, v}
  BY <1>2 DEF ToSet
<1>4. \A w \in {u, v} : /\ NotAfter(BothEnds(sel)[1], At(w.id, w.a))
                        /\ NotAfter(At(w.id, w.b), BothEnds(sel)[2])
  BY <1>2, EdgesHoldBoth
<1> QED
  BY <1>3, <1>4

-----------------------------------------------------------------------------
Heads == {h \in [id : Nat, row : Nat, col : Nat] : \E i \in DOMAIN stack : stack[i].id = h.id}

LEMMA ExtendKeeps ==
  ASSUME Screen, Whole, sel # <<>>, NEW head \in Heads, Extend(head),
         mouse'.count = mouse.count, mouse'.anchor = mouse.anchor
  PROVE  Whole'
<1> DEFINE moves == mouse.count \in {2, 3} /\ mouse.anchor # <<>>
           b == BlockOf(head.id)
           unit == UnitAt(b, Cursor(head.row, head.col), mouse.count)
           h == [id |-> head.id, a |-> unit[1], b |-> unit[2]]
           e == Endpoints(mouse.anchor[1], h)
<1>1. /\ moves => IF unit = <<>> THEN UNCHANGED <<sel, units>>
                  ELSE sel' = [anchor |-> e[1], head |-> e[2]] /\ units' = <<units[1], h>>
      /\ ~moves => sel' = [sel EXCEPT !.head = head] /\ UNCHANGED units
  BY DEF Extend
<1>2. moves <=> units # <<>>
  BY DEF Whole
<1> HIDE DEF moves
<1>3. CASE ~moves
  <2>1. units' = <<>> /\ mouse.anchor = <<>>
    BY <1>1, <1>2, <1>3 DEF Whole
  <2> QED
    BY <2>1 DEF Whole
<1>4. CASE moves /\ unit = <<>>
  <2>1. sel' = sel /\ units' = units
    BY <1>1, <1>4
  <2> QED
    BY <2>1 DEF Whole
<1>5. CASE moves /\ unit # <<>>
  <2>1. sel' = [anchor |-> e[1], head |-> e[2]] /\ units' = <<units[1], h>>
    BY <1>1, <1>5
  <2>2. /\ mouse.count \in {2, 3} /\ units[1] \in Units /\ mouse.anchor = <<units[1]>>
    BY <1>2, <1>5 DEF Whole
  <2>3. b \in Block
    <3>1. \E x \in ToSet(stack) : x.id = head.id
      BY DEF Heads, ToSet
    <3>2. b \in ToSet(stack)
      BY <3>1 DEF BlockOf
    <3> QED
      BY <3>2 DEF Screen, ToSet
  <2>4. Cursor(head.row, head.col) \in Place /\ head.id \in Nat
    BY DEF Heads, Cursor, Place
  <2> HIDE DEF b
  <2>5. PICK p, q \in Place : unit = <<p, q>> /\ Before2(p, q)
    BY <1>5, <2>3, <2>4, UnitIsStretch
  <2>6. h = [id |-> head.id, a |-> p, b |-> q]
    BY <2>5
  <2> HIDE DEF unit, h
  <2>7. h \in Units
    BY <2>4, <2>5, <2>6 DEF Units
  <2>8. mouse.anchor[1] = units[1]
    BY <2>2
  <2> DEFINE u == units[1]
  <2>9. sel' = [anchor |-> Endpoints(u, h)[1], head |-> Endpoints(u, h)[2]] /\ units' = <<u, h>>
    BY <2>1, <2>8
  <2>10. u \in Units /\ mouse'.anchor = <<u>> /\ mouse'.count \in {2, 3}
    BY <2>2
  <2> HIDE DEF u
  <2>11. units' = <<units'[1], units'[2]>> /\ units'[1] = u /\ units'[2] = h /\ units' # <<>> /\ mouse'.anchor # <<>>
    BY <2>9, <2>10
  <2> QED
    BY <2>7, <2>9, <2>10, <2>11 DEF Whole
<1> QED
  BY <1>3, <1>4, <1>5

\* How many clicks a press is: one, two or three.
LEMMA ClicksType == ASSUME Hand, NEW where, NEW quick PROVE Clicks(where, quick) \in 1..3
<1>1. mouse.count + 1 \in Nat /\ mouse.count + 1 >= 1
  BY DEF Hand
<1>2. Min({mouse.count + 1, 3}) \in 1..3
  BY <1>1, MinOfTwo
<1> QED
  BY <1>2 DEF Clicks

\* A press begins with one unit, or with none.
LEMMA BeginKeeps ==
  ASSUME SelAssumption, Hand, Whole, NEW b \in Block, NEW c \in Place,
         NEW where, NEW holder, NEW quick, NEW cmd, Begin(b, c, where, holder, quick, cmd)
  PROVE  /\ Whole'
         /\ mouse' = [count |-> mouse'.count, at |-> mouse'.at, anchor |-> mouse'.anchor,
                      opened |-> mouse'.opened, held |-> holder]
         /\ mouse'.count \in Nat
<1> DEFINE link == LinkAt(b, c)
           linked == CHOOSE l \in link : TRUE
           n == Clicks(where, quick)
           unit == IF n = 2 /\ link # {}
                     THEN <<Cursor(c.row, linked.from), Cursor(c.row, linked.to + 1)>>
                     ELSE UnitAt(b, c, n)
           u == [id |-> b.id, a |-> unit[1], b |-> unit[2]]
           pressed == [count |-> n, at |-> <<where>>, anchor |-> mouse.anchor, opened |-> FALSE, held |-> holder]
<1>1. IF cmd /\ link # {}
        THEN /\ mouse' = [mouse EXCEPT !.opened = TRUE, !.held = holder]
             /\ UNCHANGED <<sel, gsel, units, latest>>
        ELSE IF n = 1
        THEN /\ Select(b.id, c, c) /\ mouse' = [pressed EXCEPT !.anchor = <<>>]
             /\ units' = <<>> /\ latest' = "sealed"
        ELSE IF unit = <<>> THEN mouse' = pressed /\ UNCHANGED <<sel, gsel, units, latest>>
        ELSE /\ Select(b.id, u.a, u.b) /\ mouse' = [pressed EXCEPT !.anchor = <<u>>]
             /\ units' = <<u, u>> /\ latest' = "sealed"
  BY DEF Begin
<1>2. n \in 1..3
  BY ClicksType
<1>3. mouse = [count |-> mouse.count, at |-> mouse.at, anchor |-> mouse.anchor,
               opened |-> mouse.opened, held |-> mouse.held] /\ mouse.count \in Nat
  BY DEF Hand
<1>4. unit # <<>> => \E p, q \in Place : unit = <<p, q>> /\ Before2(p, q)
  <2>1. CASE n = 2 /\ link # {}
    <3>1. linked \in link
      BY <2>1
    <3>2. linked \in [line : Nat, from : Nat, to : Nat] /\ c.col \in linked.from..linked.to
      BY <3>1 DEF LinkAt, SelAssumption
    <3> HIDE DEF linked
    <3> DEFINE p == Cursor(c.row, linked.from)
               q == Cursor(c.row, linked.to + 1)
    <3>3. c.row \in Nat /\ c.col \in Nat /\ linked.from \in Nat /\ linked.to \in Nat
      BY <3>2 DEF Place
    <3>4. linked.from <= linked.to + 1
      BY <3>2, <3>3
    <3>5. p \in Place /\ q \in Place /\ Before2(p, q)
      BY <3>3, <3>4 DEF Cursor, Place, Before2
    <3>6. unit = <<p, q>>
      BY <2>1
    <3> QED
      BY <3>5, <3>6
  <2>2. CASE ~(n = 2 /\ link # {})
    <3>1. unit = UnitAt(b, c, n)
      BY <2>2
    <3> QED
      BY <3>1, UnitIsStretch
  <2> QED
    BY <2>1, <2>2
<1> HIDE DEF link, linked, n, unit
<1>5. CASE cmd /\ link # {}
  <2>1. /\ mouse' = [mouse EXCEPT !.opened = TRUE, !.held = holder]
        /\ sel' = sel /\ units' = units
    BY <1>1, <1>5
  <2>2. mouse' = [count |-> mouse.count, at |-> mouse.at, anchor |-> mouse.anchor, opened |-> TRUE, held |-> holder]
    BY <1>3, <2>1
  <2>3. mouse'.count = mouse.count /\ mouse'.anchor = mouse.anchor
    BY <2>2
  <2>4. Whole'
    BY <2>1, <2>3 DEF Whole
  <2> QED
    BY <2>2, <2>4, <1>3
<1>6. CASE ~(cmd /\ link # {}) /\ n = 1
  <2>1. /\ mouse' = [pressed EXCEPT !.anchor = <<>>] /\ units' = <<>>
    BY <1>1, <1>6
  <2>2. mouse' = [count |-> n, at |-> <<where>>, anchor |-> <<>>, opened |-> FALSE, held |-> holder]
    BY <2>1
  <2>3. Whole'
    BY <2>1, <2>2 DEF Whole
  <2> QED
    BY <2>2, <2>3, <1>2
<1>7. CASE ~(cmd /\ link # {}) /\ n # 1 /\ unit = <<>>
  <2>1. mouse' = pressed /\ sel' = sel /\ units' = units
    BY <1>1, <1>7
  <2>2. mouse'.count \in {2, 3} /\ mouse'.anchor = mouse.anchor
    BY <1>2, <1>7, <2>1
  <2>3. Whole'
    BY <2>1, <2>2 DEF Whole
  <2> QED
    BY <2>1, <2>3, <1>2
<1>8. CASE ~(cmd /\ link # {}) /\ n # 1 /\ unit # <<>>
  <2>1. Select(b.id, u.a, u.b) /\ mouse' = [pressed EXCEPT !.anchor = <<u>>] /\ units' = <<u, u>>
    BY <1>1, <1>8
  <2>2. mouse' = [count |-> n, at |-> <<where>>, anchor |-> <<u>>, opened |-> FALSE, held |-> holder]
    BY <2>1
  <2>3. PICK p, q \in Place : unit = <<p, q>> /\ Before2(p, q)
    BY <1>4, <1>8
  <2>4. u = [id |-> b.id, a |-> p, b |-> q] /\ b.id \in Nat
    BY <2>3 DEF Block
  <2>5. u \in Units /\ u.id = b.id
    BY <2>3, <2>4 DEF Units
  <2>6. sel' = [anchor |-> At(b.id, u.a), head |-> At(b.id, u.b)]
    BY <2>1 DEF Select
  <2> HIDE DEF u
  <2>7. Endpoints(u, u) = <<At(b.id, u.a), At(b.id, u.b)>>
    BY <2>5 DEF Endpoints, Earlier, Later
  <2>8. sel' = [anchor |-> Endpoints(u, u)[1], head |-> Endpoints(u, u)[2]]
    BY <2>6, <2>7
  <2>9. units' = <<units'[1], units'[2]>> /\ units'[1] = u /\ units'[2] = u /\ units' # <<>>
    BY <2>1
  <2>10. mouse'.anchor = <<u>> /\ mouse'.anchor # <<>> /\ mouse'.count \in {2, 3}
    BY <1>2, <1>8, <2>2
  <2>11. Whole'
    BY <2>5, <2>8, <2>9, <2>10 DEF Whole
  <2> QED
    BY <2>2, <2>11, <1>2
<1> QED
  BY <1>5, <1>6, <1>7, <1>8

LEMMA FrameKeeps == ASSUME Screen, Repaint PROVE Screen'
<1>1. cache' = Refreshed /\ stack' = stack /\ running' = running /\ width' = width
  BY DEF Repaint
<1>2. \A id \in DOMAIN cache'.maps : cache'.maps[id] \in Maps
  BY <1>1, RefreshedType
<1> QED
  BY <1>1, <1>2 DEF Screen

\* The maps a gesture of the frame is read by.
LEMMA FrameMaps ==
  ASSUME Screen, Repaint
  PROVE  \A id \in DOMAIN cache'.maps : cache'.maps[id] \in Maps
BY FrameKeeps DEF Screen

\* A head for the selection, wherever the pointer is over the blocks.
LEMMA CursorIsHead ==
  ASSUME Screen, NEW i \in DOMAIN stack, NEW c \in Place
  PROVE  At(stack[i].id, c) \in Heads
<1>1. stack[i] \in Block
  BY DEF Screen
<1> QED
  BY <1>1 DEF At, Heads, Block, Place

LEMMA HeadIsOnBlock ==
  ASSUME SelAssumption, Screen, Repaint, stack # <<>>, NEW s \in Spots
  PROVE  HeadAt(s) \in Heads
<1> DEFINE end(b) == At(b.id, Cursor(Max({0, Len(Rows(b)) - 1}), PastEnd))
<1>1. stack \in Seq(Block) /\ Len(stack) \in Nat /\ Len(stack) > 0 /\ DOMAIN stack = 1..Len(stack)
  <2>1. stack \in Seq(Block)
    BY DEF Screen
  <2> QED
    BY <2>1
<1>2. ASSUME NEW i \in DOMAIN stack PROVE end(stack[i]) \in Heads
  <2> DEFINE m == Max({0, Len(Rows(stack[i])) - 1})
  <2>1. Len(Rows(stack[i])) \in Nat
    BY <1>1, RowsType
  <2>2. m \in Nat
    <3>1. CASE Len(Rows(stack[i])) = 0
      <4>1. m = 0
        BY <3>1 DEF Max
      <4> QED
        BY <4>1
    <3>2. CASE Len(Rows(stack[i])) # 0
      <4>1. Len(Rows(stack[i])) - 1 \in Nat
        BY <2>1, <3>2
      <4> QED
        BY <4>1, MaxOfTwo
    <3> QED
      BY <3>1, <3>2
  <2> HIDE DEF m
  <2>3. Cursor(m, PastEnd) \in Place
    BY <2>2 DEF Cursor, Place, PastEnd
  <2>4. At(stack[i].id, Cursor(m, PastEnd)) \in Heads
    BY <2>3, CursorIsHead
  <2> QED
    BY <2>4 DEF m
<1>3. HeadAt(s) = CASE s.at = "above" -> At(stack[1].id, Cursor(0, 0))
                    [] s.at = "below" -> end(Last(stack))
                    [] s.at = "gap"   -> end(stack[s.i])
                    [] s.at = "in"    -> At(stack[s.i].id, CursorAt(cache'.maps, stack[s.i], s.row, s.col))
  BY DEF HeadAt
<1> HIDE DEF end
<1>4. CASE s.at = "above"
  <2>1. Cursor(0, 0) \in Place /\ 1 \in DOMAIN stack
    BY <1>1 DEF Cursor, Place
  <2>2. At(stack[1].id, Cursor(0, 0)) \in Heads
    BY <2>1, CursorIsHead
  <2> QED
    BY <1>3, <1>4, <2>2
<1>5. CASE s.at = "below"
  <2>1. Last(stack) = stack[Len(stack)] /\ Len(stack) \in DOMAIN stack
    BY <1>1 DEF Last
  <2>2. end(Last(stack)) \in Heads
    BY <1>2, <2>1
  <2> QED
    BY <1>3, <1>5, <2>2
<1>6. CASE s.at = "gap"
  <2>1. s.i \in DOMAIN stack
    BY <1>1, <1>6 DEF Spots
  <2> QED
    BY <1>2, <1>3, <1>6, <2>1
<1>7. CASE s.at = "in"
  <2>1. s.i \in DOMAIN stack /\ s.row \in Nat /\ s.col \in Nat
    BY <1>7 DEF Spots, SelAssumption
  <2>2. stack[s.i] \in Block
    BY <1>1, <2>1
  <2>3. CursorAt(cache'.maps, stack[s.i], s.row, s.col) \in Place
    BY <2>1, <2>2, CursorIsPlace, FrameMaps
  <2>4. At(stack[s.i].id, CursorAt(cache'.maps, stack[s.i], s.row, s.col)) \in Heads
    BY <2>1, <2>3, CursorIsHead
  <2> QED
    BY <1>3, <1>7, <2>4
<1> QED
  BY <1>4, <1>5, <1>6, <1>7 DEF Spots

LEMMA GestureKeeps ==
  ASSUME Hand, NEW quick, Press(quick) \/ Gesture
  PROVE  gestures' = [n |-> gestures'.n, blocks |-> gestures.blocks]
<1>1. gestures = [n |-> gestures.n, blocks |-> gestures.blocks]
  BY DEF Hand
<1>2. gestures' = gestures \/ gestures' = [gestures EXCEPT !.n = gestures.n + 1]
  BY DEF Press, Gesture
<1> QED
  BY <1>1, <1>2

\* The press holds what it did, something that is no label, or a label there is.
HeldIsKnown ==
  \/ mouse'.held = mouse.held
  \/ Len(mouse'.held) # 2
  \/ \E i \in DOMAIN stack : mouse'.held = <<"pinned", stack[i].id>> /\ stack[i].command # <<>>

LEMMA HandKeeps ==
  ASSUME Screen, Hand, stack' = stack,
         gestures' = [n |-> gestures'.n, blocks |-> gestures.blocks],
         mouse' = [count |-> mouse'.count, at |-> mouse'.at, anchor |-> mouse'.anchor,
                   opened |-> mouse'.opened, held |-> mouse'.held],
         mouse'.count \in Nat, HeldIsKnown
  PROVE  Hand'
<1>1. gestures'.blocks = gestures.blocks
  OBVIOUS
<1>2. Len(mouse'.held) = 2 => mouse'.held[2] \in Nat /\ mouse'.held[2] <= gestures.blocks
  <2>1. CASE mouse'.held = mouse.held
    BY <2>1 DEF Hand
  <2>2. CASE Len(mouse'.held) # 2
    BY <2>2
  <2>3. CASE \E i \in DOMAIN stack : mouse'.held = <<"pinned", stack[i].id>> /\ stack[i].command # <<>>
    <3>1. PICK i \in DOMAIN stack : mouse'.held = <<"pinned", stack[i].id>>
      BY <2>3
    <3>2. stack[i] \in Block
      BY DEF Screen
    <3>3. stack[i].id \in Nat /\ stack[i].id <= gestures.blocks /\ mouse'.held[2] = stack[i].id
      BY <3>1, <3>2 DEF Block, Hand
    <3> QED
      BY <3>3
  <2> QED
    BY <2>1, <2>2, <2>3 DEF HeldIsKnown
<1>3. \A i \in DOMAIN stack : mouse'.held = <<"pinned", stack[i].id>> => stack[i].command # <<>>
  <2> SUFFICES ASSUME NEW i \in DOMAIN stack, mouse'.held = <<"pinned", stack[i].id>>
               PROVE  stack[i].command # <<>>
    OBVIOUS
  <2>1. Len(mouse'.held) = 2
    OBVIOUS
  <2>2. CASE mouse'.held = mouse.held
    BY <2>2 DEF Hand
  <2>3. CASE \E j \in DOMAIN stack : mouse'.held = <<"pinned", stack[j].id>> /\ stack[j].command # <<>>
    <3>1. PICK j \in DOMAIN stack : mouse'.held = <<"pinned", stack[j].id>> /\ stack[j].command # <<>>
      BY <2>3
    <3>2. stack[i].id = stack[j].id
      BY <3>1
    <3>3. i = j
      BY <3>2 DEF Screen
    <3> QED
      BY <3>1, <3>3
  <2> QED
    BY <2>1, <2>2, <2>3 DEF HeldIsKnown
<1> QED
  BY <1>1, <1>2, <1>3 DEF Hand

\* A press that extends the selection holds it, and counts as it did.
LEMMA ExtendingKeeps ==
  ASSUME Hand, NEW holder, Extending(holder)
  PROVE  /\ mouse'.count = mouse.count /\ mouse'.anchor = mouse.anchor /\ mouse'.count \in Nat
         /\ mouse'.held = holder
         /\ mouse' = [count |-> mouse'.count, at |-> mouse'.at, anchor |-> mouse'.anchor,
                      opened |-> mouse'.opened, held |-> mouse'.held]
<1>1. mouse = [count |-> mouse.count, at |-> mouse.at, anchor |-> mouse.anchor,
               opened |-> mouse.opened, held |-> mouse.held] /\ mouse.count \in Nat
  BY DEF Hand
<1>2. mouse' = [mouse EXCEPT !.opened = FALSE, !.held = holder]
  BY DEF Extending
<1>3. mouse' = [count |-> mouse.count, at |-> mouse.at, anchor |-> mouse.anchor, opened |-> FALSE, held |-> holder]
  BY <1>1, <1>2
<1> QED
  BY <1>1, <1>3

\* The inductive invariant of the selection.
SelectionInv == Screen /\ Hand /\ Whole

LEMMA PressSealedKeeps ==
  ASSUME SelAssumption, SelectionInv, PressSealed
  PROVE  SelectionInv'
<1>1. Screen /\ Hand /\ Whole
  BY DEF SelectionInv
<1>2. PICK s \in Spots, shift \in BOOLEAN, quick \in BOOLEAN, cmd \in BOOLEAN :
        /\ s.at = "in" /\ Shifted(shift, sel) /\ Press(quick) /\ Repaint
        /\ IF shift THEN Extend(HeadAt(s)) /\ Extending(<<"sealed">>)
           ELSE Begin(stack[s.i], CursorAt(cache'.maps, stack[s.i], s.row, s.col), s, <<"sealed">>, quick, cmd)
  BY DEF PressSealed
<1>3. Screen' /\ stack' = stack
  BY <1>1, <1>2, FrameKeeps DEF Repaint
<1>4. gestures' = [n |-> gestures'.n, blocks |-> gestures.blocks]
  BY <1>1, <1>2, GestureKeeps
<1>5. s.i \in DOMAIN stack /\ s.row \in Nat /\ s.col \in Nat
  BY <1>2 DEF Spots, SelAssumption
<1>6. Len(<<"sealed">>) # 2
  OBVIOUS
<1>7. CASE shift
  <2>1. Extend(HeadAt(s)) /\ Extending(<<"sealed">>) /\ sel # <<>>
    BY <1>2, <1>7 DEF Shifted
  <2>2. HeadAt(s) \in Heads
    <3>1. stack # <<>>
      BY <1>5
    <3> QED
      BY <1>1, <1>2, <3>1, HeadIsOnBlock
  <2>3. /\ mouse'.count = mouse.count /\ mouse'.anchor = mouse.anchor /\ mouse'.count \in Nat
        /\ mouse'.held = <<"sealed">>
        /\ mouse' = [count |-> mouse'.count, at |-> mouse'.at, anchor |-> mouse'.anchor,
                     opened |-> mouse'.opened, held |-> mouse'.held]
    BY <1>1, <2>1, ExtendingKeeps
  <2>4. Whole'
    BY <1>1, <2>1, <2>2, <2>3, ExtendKeeps
  <2>5. Hand'
    <3>1. HeldIsKnown
      BY <1>6, <2>3 DEF HeldIsKnown
    <3> QED
      BY <1>1, <1>3, <1>4, <2>3, <3>1, HandKeeps
  <2> QED
    BY <1>3, <2>4, <2>5 DEF SelectionInv
<1>8. CASE ~shift
  <2> DEFINE c == CursorAt(cache'.maps, stack[s.i], s.row, s.col)
  <2>1. stack[s.i] \in Block
    BY <1>1, <1>5 DEF Screen
  <2>2. c \in Place
    BY <1>1, <1>2, <1>5, <2>1, CursorIsPlace, FrameMaps
  <2>3. Begin(stack[s.i], c, s, <<"sealed">>, quick, cmd)
    BY <1>2, <1>8
  <2> HIDE DEF c
  <2>4. /\ Whole' /\ mouse'.count \in Nat
        /\ mouse' = [count |-> mouse'.count, at |-> mouse'.at, anchor |-> mouse'.anchor,
                     opened |-> mouse'.opened, held |-> <<"sealed">>]
    BY <1>1, <2>1, <2>2, <2>3, BeginKeeps
  <2>5. mouse'.held = <<"sealed">>
    BY <2>4
  <2>6. HeldIsKnown
    BY <1>6, <2>5 DEF HeldIsKnown
  <2>7. Hand'
    BY <1>1, <1>3, <1>4, <2>4, <2>5, <2>6, HandKeeps
  <2> QED
    BY <1>3, <2>4, <2>7 DEF SelectionInv
<1> QED
  BY <1>7, <1>8

LEMMA DragSealedKeeps ==
  ASSUME SelAssumption, SelectionInv, DragSealed
  PROVE  SelectionInv'
<1>1. Screen /\ Hand /\ Whole
  BY DEF SelectionInv
<1>2. PICK s \in Spots : Repaint /\ sel # <<>> /\ Extend(HeadAt(s)) /\ mouse' = mouse
  BY DEF DragSealed
<1>3. Gesture /\ stack # <<>>
  BY DEF DragSealed
<1>4. Screen' /\ stack' = stack
  BY <1>1, <1>2, FrameKeeps DEF Repaint
<1>5. gestures' = [n |-> gestures'.n, blocks |-> gestures.blocks]
  BY <1>1, <1>3, GestureKeeps
<1>6. HeadAt(s) \in Heads
  BY <1>1, <1>2, <1>3, HeadIsOnBlock
<1>7. Whole'
  BY <1>1, <1>2, <1>6, ExtendKeeps
<1>8. HeldIsKnown /\ mouse'.count \in Nat
  BY <1>1, <1>2 DEF HeldIsKnown, Hand
<1>9. mouse' = [count |-> mouse'.count, at |-> mouse'.at, anchor |-> mouse'.anchor,
                opened |-> mouse'.opened, held |-> mouse'.held]
  BY <1>1, <1>2 DEF Hand
<1>10. Hand'
  BY <1>1, <1>4, <1>5, <1>8, <1>9, HandKeeps
<1> QED
  BY <1>4, <1>7, <1>10 DEF SelectionInv

\* A cursor in the label of a command that has rows.
LEMMA PinnedIsPlace ==
  ASSUME Screen, Repaint, NEW b \in Block, b.command # <<>>, NEW row \in Nat, NEW col \in Nat
  PROVE  PinnedCursor(b, row, col) \in Place
<1>1. Len(b.command) - 1 \in Nat
  <2>1. b.command \in Seq(Line)
    BY DEF Block
  <2> QED
    BY <2>1
<1>2. Min({row, Len(b.command) - 1}) \in Nat
  BY <1>1, MinOfTwo
<1> QED
  BY <1>2, CursorIsPlace, FrameMaps DEF PinnedCursor

LEMMA PressStickyKeeps ==
  ASSUME SelAssumption, SelectionInv, PressSticky
  PROVE  SelectionInv'
<1>1. Screen /\ Hand /\ Whole
  BY DEF SelectionInv
<1>2. PICK b \in ToSet(stack), row \in 0..1, col \in SelColumns, shift \in BOOLEAN, quick \in BOOLEAN :
        /\ Shifted(shift, sel) /\ Press(quick) /\ row < Len(b.command) /\ Repaint
        /\ IF shift THEN Extend(At(b.id, PinnedCursor(b, row, col))) /\ Extending(<<"pinned", b.id>>)
           ELSE Begin(b, PinnedCursor(b, row, col),
                      [at |-> "pinned", i |-> b.id, row |-> row, col |-> col], <<"pinned", b.id>>, quick, FALSE)
  <2>1. \E b \in ToSet(stack), row \in 0..1, col \in SelColumns, shift, quick \in BOOLEAN :
          LET where == [at |-> "pinned", i |-> b.id, row |-> row, col |-> col]
              c == PinnedCursor(b, row, col)
          IN  /\ "sticky" \in SelMoves /\ Shifted(shift, sel) /\ ~(shift /\ quick)
              /\ Quick(quick, where) /\ Press(quick) /\ row < Len(b.command) /\ Repaint
              /\ IF shift THEN Extend(At(b.id, c)) /\ Extending(<<"pinned", b.id>>)
                 ELSE Begin(b, c, where, <<"pinned", b.id>>, quick, FALSE)
    BY DEF PressSticky
  <2>2. PICK b \in ToSet(stack), row \in 0..1, col \in SelColumns, shift \in BOOLEAN, quick \in BOOLEAN :
          LET where == [at |-> "pinned", i |-> b.id, row |-> row, col |-> col]
              c == PinnedCursor(b, row, col)
          IN  /\ "sticky" \in SelMoves /\ Shifted(shift, sel) /\ ~(shift /\ quick)
              /\ Quick(quick, where) /\ Press(quick) /\ row < Len(b.command) /\ Repaint
              /\ IF shift THEN Extend(At(b.id, c)) /\ Extending(<<"pinned", b.id>>)
                 ELSE Begin(b, c, where, <<"pinned", b.id>>, quick, FALSE)
    BY <2>1
  <2> QED
    BY <2>2
<1>3. PICK i \in DOMAIN stack : b = stack[i]
  BY DEF ToSet
<1>4. b \in Block
  BY <1>1, <1>3 DEF Screen
<1>5. b.command # <<>>
  BY <1>2
<1> DEFINE c == PinnedCursor(b, row, col)
<1>6. c \in Place
  <2>1. row \in Nat /\ col \in Nat
    BY DEF SelAssumption
  <2> QED
    BY <1>1, <1>2, <1>4, <1>5, <2>1, PinnedIsPlace
<1>7. Screen' /\ stack' = stack
  BY <1>1, <1>2, FrameKeeps DEF Repaint
<1>8. gestures' = [n |-> gestures'.n, blocks |-> gestures.blocks]
  BY <1>1, <1>2, GestureKeeps
<1>9. mouse'.held = <<"pinned", b.id>> => HeldIsKnown
  BY <1>3, <1>5 DEF HeldIsKnown
<1> HIDE DEF c
<1>10. CASE shift
  <2>1. Extend(At(b.id, c)) /\ Extending(<<"pinned", b.id>>) /\ sel # <<>>
    BY <1>2, <1>10 DEF Shifted, c
  <2>2. At(b.id, c) \in Heads
    BY <1>1, <1>3, <1>6, CursorIsHead
  <2>3. /\ mouse'.count = mouse.count /\ mouse'.anchor = mouse.anchor /\ mouse'.count \in Nat
        /\ mouse'.held = <<"pinned", b.id>>
        /\ mouse' = [count |-> mouse'.count, at |-> mouse'.at, anchor |-> mouse'.anchor,
                     opened |-> mouse'.opened, held |-> mouse'.held]
    BY <1>1, <2>1, ExtendingKeeps
  <2>4. Whole'
    BY <1>1, <2>1, <2>2, <2>3, ExtendKeeps
  <2>5. Hand'
    BY <1>1, <1>7, <1>8, <1>9, <2>3, HandKeeps
  <2> QED
    BY <1>7, <2>4, <2>5 DEF SelectionInv
<1>11. CASE ~shift
  <2> DEFINE where == [at |-> "pinned", i |-> b.id, row |-> row, col |-> col]
  <2>1. Begin(b, c, where, <<"pinned", b.id>>, quick, FALSE)
    BY <1>2, <1>11 DEF c
  <2> HIDE DEF where
  <2>2. /\ Whole' /\ mouse'.count \in Nat
        /\ mouse' = [count |-> mouse'.count, at |-> mouse'.at, anchor |-> mouse'.anchor,
                     opened |-> mouse'.opened, held |-> <<"pinned", b.id>>]
    BY <1>1, <1>4, <1>6, <2>1, BeginKeeps
  <2>3. mouse'.held = <<"pinned", b.id>>
    BY <2>2
  <2>4. Hand'
    BY <1>1, <1>7, <1>8, <1>9, <2>2, <2>3, HandKeeps
  <2> QED
    BY <1>7, <2>2, <2>4 DEF SelectionInv
<1> QED
  BY <1>10, <1>11

LEMMA DragStickyKeeps ==
  ASSUME SelAssumption, SelectionInv, DragSticky
  PROVE  SelectionInv'
<1>1. Screen /\ Hand /\ Whole
  BY DEF SelectionInv
<1>2. PICK b \in ToSet(stack), row \in 0..2, col \in SelColumns :
        /\ mouse.held = <<"pinned", b.id>> /\ Repaint
        /\ sel # <<>> /\ Extend(At(b.id, PinnedCursor(b, row, col))) /\ mouse' = mouse
  BY DEF DragSticky
<1>3. Gesture
  BY DEF DragSticky
<1>4. PICK i \in DOMAIN stack : b = stack[i]
  BY DEF ToSet
<1>5. b \in Block
  BY <1>1, <1>4 DEF Screen
<1>6. b.command # <<>>
  BY <1>1, <1>2, <1>4 DEF Hand
<1>7. PinnedCursor(b, row, col) \in Place
  <2>1. row \in Nat /\ col \in Nat
    BY DEF SelAssumption
  <2> QED
    BY <1>1, <1>2, <1>5, <1>6, <2>1, PinnedIsPlace
<1>8. At(b.id, PinnedCursor(b, row, col)) \in Heads
  BY <1>1, <1>4, <1>7, CursorIsHead
<1>9. Screen' /\ stack' = stack
  BY <1>1, <1>2, FrameKeeps DEF Repaint
<1>10. gestures' = [n |-> gestures'.n, blocks |-> gestures.blocks]
  BY <1>1, <1>3, GestureKeeps
<1>11. Whole'
  BY <1>1, <1>2, <1>8, ExtendKeeps
<1>12. HeldIsKnown /\ mouse'.count \in Nat
  BY <1>1, <1>2 DEF HeldIsKnown, Hand
<1>13. mouse' = [count |-> mouse'.count, at |-> mouse'.at, anchor |-> mouse'.anchor,
                 opened |-> mouse'.opened, held |-> mouse'.held]
  BY <1>1, <1>2 DEF Hand
<1>14. Hand'
  BY <1>1, <1>9, <1>10, <1>12, <1>13, HandKeeps
<1> QED
  BY <1>9, <1>11, <1>14 DEF SelectionInv

LEMMA PressEditorKeeps ==
  ASSUME SelectionInv, PressEditor
  PROVE  SelectionInv'
<1>1. Screen /\ Hand /\ Whole
  BY DEF SelectionInv
<1>2. /\ Repaint /\ Gesture /\ sel' = <<>>
      /\ mouse' = [mouse EXCEPT !.count = 1, !.at = <<>>, !.anchor = <<>>, !.held = <<"editor">>]
  BY DEF PressEditor
<1>3. Screen' /\ stack' = stack
  BY <1>1, <1>2, FrameKeeps DEF Repaint
<1>4. gestures' = [n |-> gestures'.n, blocks |-> gestures.blocks]
  BY <1>1, <1>2, GestureKeeps
<1>5. mouse' = [count |-> 1, at |-> <<>>, anchor |-> <<>>, opened |-> mouse.opened, held |-> <<"editor">>]
  BY <1>1, <1>2 DEF Hand
<1>6. HeldIsKnown
  <2>1. Len(<<"editor">>) # 2
    OBVIOUS
  <2> QED
    BY <1>5, <2>1 DEF HeldIsKnown
<1>7. Hand'
  BY <1>1, <1>3, <1>4, <1>5, <1>6, HandKeeps
<1> QED
  BY <1>2, <1>3, <1>7 DEF SelectionInv, Whole

LEMMA PressGridKeeps ==
  ASSUME SelectionInv, PressGrid
  PROVE  SelectionInv'
<1>1. Screen /\ Hand /\ Whole
  BY DEF SelectionInv
<1>2. PICK row \in 0..1, col \in SelColumns, shift \in BOOLEAN, quick \in BOOLEAN :
        LET p == Cursor(row, col)
            where == [at |-> "grid", i |-> 1, row |-> row, col |-> col]
            n == Clicks(where, quick)
        IN  /\ "grid" \in SelMoves /\ Shifted(shift, gsel) /\ ~(shift /\ quick)
            /\ Quick(quick, where) /\ Press(quick) /\ row < Len(LiveRows) /\ col < width /\ Repaint
            /\ IF shift
                 THEN gsel' = [gsel EXCEPT !.head = p] /\ Extending(<<"grid">>) /\ UNCHANGED <<sel, units>>
                 ELSE /\ gsel' = [anchor |-> p, head |-> p, mode |-> n]
                      /\ sel' = <<>> /\ units' = <<>> /\ latest' = "grid"
                      /\ mouse' = [mouse EXCEPT !.count = n, !.at = <<where>>, !.opened = FALSE, !.held = <<"grid">>]
  BY DEF PressGrid
<1> DEFINE where == [at |-> "grid", i |-> 1, row |-> row, col |-> col]
           n == Clicks(where, quick)
<1>3. /\ Press(quick) /\ Repaint
      /\ shift => Extending(<<"grid">>) /\ sel' = sel /\ units' = units
      /\ ~shift => /\ sel' = <<>>
                   /\ mouse' = [mouse EXCEPT !.count = n, !.at = <<where>>, !.opened = FALSE, !.held = <<"grid">>]
  BY <1>2
<1>4. n \in Nat
  BY <1>1, ClicksType
<1> HIDE DEF where, n
<1>5. Screen' /\ stack' = stack
  BY <1>1, <1>3, FrameKeeps DEF Repaint
<1>6. gestures' = [n |-> gestures'.n, blocks |-> gestures.blocks]
  BY <1>1, <1>3, GestureKeeps
<1>7. mouse'.held = <<"grid">> => HeldIsKnown
  <2>1. Len(<<"grid">>) # 2
    OBVIOUS
  <2> QED
    BY <2>1 DEF HeldIsKnown
<1>8. CASE shift
  <2>1. /\ mouse'.count = mouse.count /\ mouse'.anchor = mouse.anchor /\ mouse'.count \in Nat
        /\ mouse'.held = <<"grid">>
        /\ mouse' = [count |-> mouse'.count, at |-> mouse'.at, anchor |-> mouse'.anchor,
                     opened |-> mouse'.opened, held |-> mouse'.held]
    BY <1>1, <1>3, <1>8, ExtendingKeeps
  <2>2. Hand'
    BY <1>1, <1>5, <1>6, <1>7, <2>1, HandKeeps
  <2>3. Whole'
    BY <1>1, <1>3, <1>8, <2>1 DEF Whole
  <2> QED
    BY <1>5, <2>2, <2>3 DEF SelectionInv
<1>9. CASE ~shift
  <2>1. mouse' = [count |-> n, at |-> <<where>>, anchor |-> mouse.anchor, opened |-> FALSE, held |-> <<"grid">>]
    BY <1>1, <1>3, <1>9 DEF Hand
  <2>2. Hand'
    <3>1. mouse'.held = <<"grid">>
      BY <2>1
    <3> QED
      BY <1>1, <1>4, <1>5, <1>6, <1>7, <2>1, <3>1, HandKeeps
  <2> QED
    BY <1>3, <1>5, <1>9, <2>2 DEF SelectionInv, Whole
<1> QED
  BY <1>8, <1>9

LEMMA DragGridKeeps ==
  ASSUME SelectionInv, DragGrid
  PROVE  SelectionInv'
<1>1. Screen /\ Hand /\ Whole
  BY DEF SelectionInv
<1>2. Repaint /\ Gesture /\ sel' = sel /\ mouse' = mouse /\ units' = units
  BY DEF DragGrid
<1>3. Screen' /\ stack' = stack
  BY <1>1, <1>2, FrameKeeps DEF Repaint
<1>4. gestures' = [n |-> gestures'.n, blocks |-> gestures.blocks]
  BY <1>1, <1>2, GestureKeeps
<1>5. HeldIsKnown /\ mouse'.count \in Nat
  BY <1>1, <1>2 DEF HeldIsKnown, Hand
<1>6. mouse' = [count |-> mouse'.count, at |-> mouse'.at, anchor |-> mouse'.anchor,
                opened |-> mouse'.opened, held |-> mouse'.held]
  BY <1>1, <1>2 DEF Hand
<1>7. Hand'
  BY <1>1, <1>3, <1>4, <1>5, <1>6, HandKeeps
<1> QED
  BY <1>1, <1>2, <1>3, <1>7 DEF SelectionInv, Whole

LEMMA ReleaseKeeps ==
  ASSUME SelectionInv, Release
  PROVE  SelectionInv'
<1>1. Screen /\ Hand /\ Whole
  BY DEF SelectionInv
<1>2. /\ mouse' = [mouse EXCEPT !.held = <<"none">>]
      /\ UNCHANGED <<stack, running, width, cache, sel, units, gestures>>
  BY DEF Release
<1>3. mouse' = [count |-> mouse.count, at |-> mouse.at, anchor |-> mouse.anchor,
                opened |-> mouse.opened, held |-> <<"none">>]
  BY <1>1, <1>2 DEF Hand
<1>4. HeldIsKnown /\ mouse'.count \in Nat
  <2>1. Len(<<"none">>) # 2
    OBVIOUS
  <2> QED
    BY <1>1, <1>3, <2>1 DEF HeldIsKnown, Hand
<1>5. gestures' = [n |-> gestures'.n, blocks |-> gestures.blocks] /\ stack' = stack
  BY <1>1, <1>2 DEF Hand
<1>6. Hand'
  BY <1>1, <1>3, <1>4, <1>5, HandKeeps
<1>7. mouse'.count = mouse.count /\ mouse'.anchor = mouse.anchor
  BY <1>3
<1>8. Whole'
  BY <1>1, <1>2, <1>7 DEF Whole
<1>9. Screen'
  BY <1>1, <1>2 DEF Screen
<1> QED
  BY <1>6, <1>8, <1>9 DEF SelectionInv

\* A step that leaves the pointer and the selection alone keeps what is known of
\* them, as far as the blocks are the same.
LEMMA RestKeeps ==
  ASSUME SelectionInv, Screen', sel' = sel, mouse' = mouse, units' = units, stack' = stack,
         gestures' = [n |-> gestures'.n, blocks |-> gestures.blocks]
  PROVE  SelectionInv'
<1>1. Hand'
  <2>1. gestures'.blocks = gestures.blocks
    OBVIOUS
  <2> QED
    BY <2>1 DEF SelectionInv, Hand
<1>2. Whole'
  BY DEF SelectionInv, Whole
<1> QED
  BY <1>1, <1>2 DEF SelectionInv

\* Text of the characters that a program prints is text of the characters of a cell.
LEMMA PrintedType ==
  ASSUME SelAssumption, NEW b \in SelBlocks
  PROVE  b.command \in Seq(Line) /\ b.output \in Seq(Line)
         /\ b = [command |-> b.command, output |-> b.output]
<1>1. b \in [command : Seq(Seq(STRING)), output : Seq(Seq(STRING))]
  BY DEF SelAssumption
<1>2. \A q \in Seq(STRING) : q \in Line
  <2> TAKE q \in Seq(STRING)
  <2>1. Len(q) \in Nat /\ q \in [1..Len(q) -> STRING]
    OBVIOUS
  <2>2. \A i \in 1..Len(q) : q[i] \in Char
    BY <2>1 DEF Char
  <2>3. q \in [1..Len(q) -> Char]
    BY <2>1, <2>2
  <2>4. q \in Seq(Char)
    BY <2>1, <2>3
  <2> QED
    BY <2>4 DEF Line
<1>3. \A q \in Seq(Seq(STRING)) : q \in Seq(Line)
  <2> TAKE q \in Seq(Seq(STRING))
  <2>1. Len(q) \in Nat /\ q \in [1..Len(q) -> Seq(STRING)]
    OBVIOUS
  <2>2. \A i \in 1..Len(q) : q[i] \in Line
    BY <1>2, <2>1
  <2>3. q \in [1..Len(q) -> Line]
    BY <2>1, <2>2
  <2> QED
    BY <2>1, <2>3
<1> QED
  BY <1>1, <1>3

LEMMA CommandPrintsKeeps ==
  ASSUME SelAssumption, SelectionInv, CommandPrints
  PROVE  SelectionInv'
<1>1. PICK b \in SelBlocks : running' = <<b>>
  BY DEF CommandPrints
<1>2. UNCHANGED <<stack, width, cache, sel, mouse, units, gestures>>
  BY DEF CommandPrints
<1>3. b \in Ran
  BY PrintedType DEF Ran
<1>4. running' \in Seq(Ran)
  BY <1>1, <1>3, Items
<1>5. Screen'
  BY <1>2, <1>4 DEF SelectionInv, Screen
<1>6. gestures' = [n |-> gestures'.n, blocks |-> gestures.blocks]
  BY <1>2 DEF SelectionInv, Hand
<1> QED
  BY <1>2, <1>5, <1>6, RestKeeps

LEMMA IdleKeeps ==
  ASSUME SelectionInv, Idle
  PROVE  SelectionInv'
<1>1. Repaint /\ UNCHANGED <<sel, mouse, units, gestures>>
  BY DEF Idle
<1>2. Screen' /\ stack' = stack
  BY <1>1, FrameKeeps DEF SelectionInv, Repaint
<1>3. gestures' = [n |-> gestures'.n, blocks |-> gestures.blocks]
  BY <1>1 DEF SelectionInv, Hand
<1> QED
  BY <1>1, <1>2, <1>3, RestKeeps

LEMMA ResizeKeeps ==
  ASSUME SelAssumption, SelectionInv, Resize
  PROVE  SelectionInv'
<1>1. PICK w \in SelWidths : width' = w
  BY DEF Resize
<1>2. Gesture /\ UNCHANGED <<stack, running, cache, sel, mouse, units>>
  BY DEF Resize
<1>3. width' \in Nat
  BY <1>1 DEF SelAssumption
<1>4. Screen'
  BY <1>2, <1>3 DEF SelectionInv, Screen
<1>5. gestures' = [n |-> gestures'.n, blocks |-> gestures.blocks]
  BY <1>2, GestureKeeps DEF SelectionInv
<1> QED
  BY <1>2, <1>4, <1>5, RestKeeps

LEMMA SealBlockKeeps ==
  ASSUME SelectionInv, SealBlock
  PROVE  SelectionInv'
<1>1. Screen /\ Hand /\ Whole
  BY DEF SelectionInv
<1> DEFINE new == [id |-> gestures.blocks + 1, command |-> running[1].command,
                   output |-> Unwrap(SnapshotLinesAll(GridRows(Printed, width)))]
<1>2. /\ running # <<>> /\ stack' = Append(stack, new) /\ running' = <<>>
      /\ gestures' = [gestures EXCEPT !.blocks = gestures.blocks + 1]
      /\ UNCHANGED <<width, cache, sel, mouse, units>>
  BY DEF SealBlock
<1>3. running[1] \in Ran /\ Printed = running[1].output
  <2>1. running \in Seq(Ran) /\ running # <<>>
    BY <1>1, <1>2 DEF Screen
  <2> QED
    BY <2>1 DEF Printed
<1>4. stack \in Seq(Block) /\ width \in Nat /\ gestures.blocks \in Nat
  BY <1>1 DEF Screen, Hand
<1>5. new \in Block
  <2>1. Printed \in Seq(Line) /\ running[1].command \in Seq(Line)
    BY <1>3 DEF Ran
  <2>2. GridRows(Printed, width) \in Seq(Row)
    BY <1>4, <2>1, GridRowsType
  <2>3. SnapshotLinesAll(GridRows(Printed, width)) \in Seq(Row)
    BY <2>2, SnapshotType
  <2>4. Unwrap(SnapshotLinesAll(GridRows(Printed, width))) \in Seq(Line)
    BY <2>3, UnwrapType
  <2> QED
    BY <1>4, <2>1, <2>4 DEF Block
<1>6. new.id = gestures.blocks + 1
  OBVIOUS
<1> HIDE DEF new
<1>7. /\ stack' \in Seq(Block) /\ Len(stack') = Len(stack) + 1 /\ stack'[Len(stack) + 1] = new
      /\ \A i \in 1..Len(stack) : stack'[i] = stack[i]
  BY <1>2, <1>4, <1>5, AppendProperties
<1>8. Len(stack) \in Nat /\ DOMAIN stack = 1..Len(stack) /\ DOMAIN stack' = 1..Len(stack) + 1
  BY <1>4, <1>7
<1>9. \A i \in DOMAIN stack : stack[i].id \in Nat /\ stack[i].id <= gestures.blocks
  <2>1. \A i \in DOMAIN stack : stack[i] \in Block
    BY <1>4
  <2> QED
    BY <1>1, <2>1 DEF Block, Hand
<1>10. \A i \in DOMAIN stack' : \/ i \in DOMAIN stack /\ stack'[i] = stack[i]
                                \/ i = Len(stack) + 1 /\ stack'[i] = new
  <2> TAKE i \in DOMAIN stack'
  <2>1. i \in 1..Len(stack) \/ i = Len(stack) + 1
    BY <1>8
  <2>2. CASE i \in 1..Len(stack)
    <3>1. stack'[i] = stack[i]
      BY <1>7, <2>2
    <3>2. i \in DOMAIN stack
      BY <1>8, <2>2
    <3> QED
      BY <3>1, <3>2
  <2>3. CASE i = Len(stack) + 1
    BY <1>7, <2>3
  <2> QED
    BY <2>1, <2>2, <2>3
<1>11. \A i, j \in DOMAIN stack' : stack'[i].id = stack'[j].id => i = j
  <2> SUFFICES ASSUME NEW i \in DOMAIN stack', NEW j \in DOMAIN stack', stack'[i].id = stack'[j].id
               PROVE  i = j
    OBVIOUS
  <2>1. CASE i \in DOMAIN stack /\ j \in DOMAIN stack
    BY <1>1, <1>7, <1>8, <2>1 DEF Screen
  <2>2. CASE i \notin DOMAIN stack \/ j \notin DOMAIN stack
    BY <1>4, <1>6, <1>9, <1>10, <2>2
  <2> QED
    BY <2>1, <2>2
<1>12. Screen'
  <2>1. <<>> \in Seq(Ran)
    OBVIOUS
  <2> QED
    BY <1>1, <1>2, <1>7, <1>11, <2>1 DEF Screen
<1>13. gestures' = [n |-> gestures.n, blocks |-> gestures.blocks + 1]
  BY <1>1, <1>2 DEF Hand
<1>14. Hand'
  <2>1. gestures' = [n |-> gestures'.n, blocks |-> gestures'.blocks] /\ gestures'.blocks = gestures.blocks + 1
    BY <1>13
  <2>2. \A i \in DOMAIN stack' : stack'[i].id <= gestures.blocks + 1
    <3> TAKE i \in DOMAIN stack'
    <3>1. CASE i \in DOMAIN stack /\ stack'[i] = stack[i]
      BY <1>4, <1>9, <3>1
    <3>2. CASE stack'[i] = new
      BY <1>4, <1>6, <3>2
    <3> QED
      BY <1>10, <3>1, <3>2
  <2>3. Len(mouse.held) = 2 => mouse.held[2] \in Nat /\ mouse.held[2] <= gestures.blocks
    BY <1>1 DEF Hand
  <2>4. \A i \in DOMAIN stack' : mouse.held = <<"pinned", stack'[i].id>> => stack'[i].command # <<>>
    <3> SUFFICES ASSUME NEW i \in DOMAIN stack', mouse.held = <<"pinned", stack'[i].id>>
                 PROVE  stack'[i].command # <<>>
      OBVIOUS
    <3>1. CASE i \in DOMAIN stack /\ stack'[i] = stack[i]
      BY <1>1, <3>1 DEF Hand
    <3>2. CASE stack'[i] = new
      <4>1. Len(mouse.held) = 2 /\ mouse.held[2] = new.id
        BY <3>2
      <4>2. new.id <= gestures.blocks
        BY <2>3, <4>1
      <4> QED
        BY <1>4, <1>6, <4>2
    <3> QED
      BY <1>10, <3>1, <3>2
  <2>5. mouse = [count |-> mouse.count, at |-> mouse.at, anchor |-> mouse.anchor,
                 opened |-> mouse.opened, held |-> mouse.held] /\ mouse.count \in Nat /\ mouse' = mouse
    BY <1>1, <1>2 DEF Hand
  <2>6. gestures'.blocks \in Nat
    BY <1>4, <2>1
  <2>7. Len(mouse'.held) = 2 => mouse'.held[2] \in Nat /\ mouse'.held[2] <= gestures'.blocks
    BY <1>4, <2>1, <2>3, <2>5
  <2> QED
    BY <2>1, <2>2, <2>4, <2>5, <2>6, <2>7 DEF Hand
<1>15. Whole'
  BY <1>1, <1>2 DEF Whole
<1> QED
  BY <1>12, <1>14, <1>15 DEF SelectionInv

LEMMA ClearScrollbackKeeps ==
  ASSUME SelectionInv, ClearScrollback
  PROVE  SelectionInv'
<1>1. Screen /\ Hand /\ Whole
  BY DEF SelectionInv
<1>2. /\ Gesture /\ cache' = Refreshed /\ stack' = <<>>
      /\ running' = [i \in DOMAIN running |-> [running[i] EXCEPT !.output = <<>>]]
      /\ UNCHANGED <<width, sel, mouse, units>>
  BY DEF ClearScrollback
<1>3. stack' \in Seq(Block) /\ DOMAIN stack' = {}
  BY <1>2
<1>4. \A id \in DOMAIN cache'.maps : cache'.maps[id] \in Maps
  BY <1>1, <1>2, RefreshedType
<1>5. running' \in Seq(Ran)
  <2>1. running \in Seq(Ran)
    BY <1>1 DEF Screen
  <2>2. Len(running) \in Nat /\ DOMAIN running = 1..Len(running) /\ \A i \in DOMAIN running : running[i] \in Ran
    BY <2>1
  <2>3. ASSUME NEW i \in DOMAIN running PROVE [running[i] EXCEPT !.output = <<>>] \in Ran
    <3>1. <<>> \in Seq(Line)
      OBVIOUS
    <3> QED
      BY <2>2, <3>1 DEF Ran
  <2>4. running' \in [1..Len(running) -> Ran]
    BY <1>2, <2>2, <2>3
  <2> QED
    BY <2>2, <2>4
<1>6. Screen'
  BY <1>1, <1>2, <1>3, <1>4, <1>5 DEF Screen
<1>7. gestures' = [n |-> gestures'.n, blocks |-> gestures.blocks]
  BY <1>1, <1>2, GestureKeeps
<1>8. Hand'
  <2>1. gestures'.blocks = gestures.blocks
    BY <1>7
  <2> QED
    BY <1>1, <1>2, <1>3, <1>7, <2>1 DEF Hand
<1>9. Whole'
  BY <1>1, <1>2 DEF Whole
<1> QED
  BY <1>6, <1>8, <1>9 DEF SelectionInv

LEMMA SelectionStarts == ASSUME SelAssumption, SelInit PROVE SelectionInv
<1>1. Screen
  <2>1. stack = <<>> /\ running = <<>> /\ width \in Nat
    BY DEF SelInit, SelAssumption
  <2>2. stack \in Seq(Block) /\ DOMAIN stack = {} /\ running \in Seq(Ran)
    BY <2>1
  <2>3. cache.maps = MapsOf(<<>>, 0)
    BY DEF SelInit
  <2>4. <<>> \in Seq(Block)
    OBVIOUS
  <2>5. \A id \in DOMAIN cache.maps : cache.maps[id] \in Maps
    BY <2>3, <2>4, MapsOfType
  <2> QED
    BY <2>1, <2>2, <2>5 DEF Screen
<1>2. Hand
  <2>1. /\ mouse = [count |-> 0, at |-> <<>>, anchor |-> <<>>, opened |-> FALSE, held |-> <<"none">>]
        /\ gestures = [n |-> 0, blocks |-> 0] /\ stack = <<>>
    BY DEF SelInit
  <2>2. Len(<<"none">>) # 2 /\ DOMAIN stack = {}
    BY <2>1
  <2> QED
    BY <2>1, <2>2 DEF Hand
<1>3. Whole
  BY DEF SelInit, Whole
<1> QED
  BY <1>1, <1>2, <1>3 DEF SelectionInv

LEMMA SelectionStays ==
  ASSUME SelAssumption, SelectionInv, [SelNext]_selVars
  PROVE  SelectionInv'
<1>1. CASE UNCHANGED selVars
  <2>1. UNCHANGED <<stack, running, width, cache, sel, mouse, units, gestures>>
    BY <1>1 DEF selVars
  <2>2. Screen'
    BY <2>1 DEF SelectionInv, Screen
  <2>3. gestures' = [n |-> gestures'.n, blocks |-> gestures.blocks]
    BY <2>1 DEF SelectionInv, Hand
  <2> QED
    BY <2>1, <2>2, <2>3, RestKeeps
<1> QED
  BY <1>1, PressSealedKeeps, DragSealedKeeps, PressStickyKeeps, DragStickyKeeps, PressEditorKeeps,
     PressGridKeeps, DragGridKeeps, ReleaseKeeps, CommandPrintsKeeps, SealBlockKeeps, IdleKeeps,
     ResizeKeeps, ClearScrollbackKeeps DEF SelNext

\* For all blocks, links, widths, columns and bounds, over every press, drag,
\* resize, clear and seal: after a double or triple click the selection holds
\* the unit first pressed and the unit last under the pointer, whichever way
\* the drag went (render_pane.rs, block_selection.rs).
THEOREM UnitsStayWhole == ASSUME SelAssumption PROVE SelSpec => []WholeUnitsStaySelected
<1>1. SelInit => SelectionInv
  BY SelectionStarts
<1>2. SelectionInv /\ [SelNext]_selVars => SelectionInv'
  BY SelectionStays
<1>3. SelectionInv => WholeUnitsStaySelected
  BY WholeStays DEF SelectionInv
<1> QED
  BY <1>1, <1>2, <1>3, PTL DEF SelSpec
=============================================================================
