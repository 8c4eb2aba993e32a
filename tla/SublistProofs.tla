--------------------------- MODULE SublistProofs ----------------------------
(***************************************************************************)
(* What Keep does to every sequence.  The library states induction with an *)
(* operator; Induction below states it with a set of numbers, from the     *)
(* well-foundedness of strict inclusion among finite sets.                 *)
(***************************************************************************)
EXTENDS Sublist, FiniteSets, FiniteSetTheorems, WellFoundedInduction, TLAPS

\* A set of numbers that is not empty has a least element.
LEMMA Least ==
  ASSUME NEW T \in SUBSET Nat, T # {}
  PROVE  \E m \in T : \A k \in T : m <= k
<1> DEFINE R == StrictSubsetOrdering(Nat)
           U == {0..n : n \in T}
<1>1. IsWellFoundedOn(R, FiniteSubsetsOf(Nat))
  BY FS_StrictSubsetOrderingWellFounded
<1>2. U \subseteq FiniteSubsetsOf(Nat) /\ U # {}
  <2>1. ASSUME NEW n \in T PROVE 0..n \in FiniteSubsetsOf(Nat)
    <3>1. n \in Int /\ 0 \in Int /\ 0..n \in SUBSET Nat
      OBVIOUS
    <3>2. IsFiniteSet(0..n)
      BY <3>1, FS_Interval
    <3>3. QED BY <3>1, <3>2 DEF FiniteSubsetsOf
  <2>2. QED BY <2>1
<1>3. \E x \in U : \A y \in U : <<y, x>> \notin R
  <2> HIDE DEF U, R
  <2>1. QED BY <1>1, <1>2, WFMin, Zenon
<1>4. PICK m \in T : \A y \in U : <<y, 0..m>> \notin R
  BY <1>3
<1>5. ASSUME NEW k \in T, k < m PROVE FALSE
  <2>1. 0..k \subseteq 0..m /\ m \in 0..m /\ m \notin 0..k
    BY <1>5
  <2>2. <<0..k, 0..m>> \in R
    BY <2>1 DEF StrictSubsetOrdering
  <2>3. QED BY <2>2, <1>4
<1>6. QED BY <1>5

\* A set of numbers with 0 and each successor is all of them.
LEMMA Induction ==
  ASSUME NEW T \in SUBSET Nat, 0 \in T, \A n \in T : n + 1 \in T
  PROVE  T = Nat
<1>1. CASE Nat \ T # {}
  <2>1. PICK m \in Nat \ T : \A k \in Nat \ T : m <= k
    BY <1>1, Least
  <2>2. m # 0 /\ m - 1 \in Nat /\ m - 1 \in T
    BY <2>1
  <2>3. QED BY <2>1, <2>2
<1>2. QED BY <1>1

\* The function Keep is computed by exists, and so is what its body says.
LEMMA KeptExists ==
  ASSUME NEW S, NEW s \in Seq(S), NEW places
  PROVE  \E kept : kept = [n \in 0..Len(s) |->
                             IF n = 0 THEN <<>>
                             ELSE IF n \in places THEN Append(kept[n - 1], s[n])
                             ELSE kept[n - 1]]
<1> DEFINE Fits(f, m) == f = [n \in 0..m |->
                             IF n = 0 THEN <<>>
                             ELSE IF n \in places THEN Append(f[n - 1], s[n])
                             ELSE f[n - 1]]
           T == {m \in Nat : \E f : Fits(f, m)}
<1>1. 0 \in T
  <2>1. Fits([n \in 0..0 |-> <<>>], 0)
    OBVIOUS
  <2>2. QED BY <2>1
<1>2. ASSUME NEW m \in T PROVE m + 1 \in T
  <2>1. PICK f : Fits(f, m)
    OBVIOUS
  <2> DEFINE g == [n \in 0..(m + 1) |->
                     IF n = m + 1
                     THEN IF n \in places THEN Append(f[m], s[n]) ELSE f[m]
                     ELSE f[n]]
  <2>2. \A n \in 0..m : g[n] = f[n]
    OBVIOUS
  <2>3. ASSUME NEW n \in 0..(m + 1)
        PROVE  g[n] = IF n = 0 THEN <<>>
                      ELSE IF n \in places THEN Append(g[n - 1], s[n])
                      ELSE g[n - 1]
    <3>1. CASE n = m + 1
      BY <3>1, <2>2
    <3>2. CASE n \in 0..m
      <4>1. g[n] = f[n] /\ (n # 0 => n - 1 \in 0..m /\ g[n - 1] = f[n - 1])
        BY <3>2, <2>2
      <4>2. f[n] = IF n = 0 THEN <<>>
                   ELSE IF n \in places THEN Append(f[n - 1], s[n])
                   ELSE f[n - 1]
        BY <3>2, <2>1
      <4>3. QED BY <4>1, <4>2
    <3>3. QED BY <3>1, <3>2
  <2>4. Fits(g, m + 1)
    BY <2>3
  <2>5. \E h : Fits(h, m + 1)
    <3> HIDE DEF g, Fits
    <3>1. QED BY <2>4
  <2>6. m + 1 \in Nat
    OBVIOUS
  <2>7. QED BY <2>5, <2>6
<1>3. Len(s) \in T
  <2>1. T = Nat
    <3> HIDE DEF T
    <3>1. T \in SUBSET Nat
      BY DEF T
    <3>2. QED BY <1>1, <1>2, <3>1, Induction
  <2>2. QED BY <2>1
<1>4. QED BY <1>3

-----------------------------------------------------------------------------

\* The values of that function, and that Keep is its last one.
KeepsStepwise(kept, s, S, places) ==
  /\ kept[0] = <<>>
  /\ \A n \in 0..Len(s) : kept[n] \in Seq(S)
  /\ \A n \in 1..Len(s) :
       kept[n] = IF n \in places THEN Append(kept[n - 1], s[n]) ELSE kept[n - 1]
  /\ Keep(s, places) = kept[Len(s)]

\* Keep takes the entries one by one.
LEMMA KeepStepwise ==
  ASSUME NEW S, NEW s \in Seq(S), NEW places
  PROVE  \E kept : KeepsStepwise(kept, s, S, places)
<1> DEFINE kept[n \in 0..Len(s)] ==
        IF n = 0 THEN <<>>
        ELSE IF n \in places THEN Append(kept[n - 1], s[n])
        ELSE kept[n - 1]
<1>1. \E f : f = [n \in 0..Len(s) |->
                   IF n = 0 THEN <<>>
                   ELSE IF n \in places THEN Append(f[n - 1], s[n])
                   ELSE f[n - 1]]
  BY KeptExists
<1>2. kept = [n \in 0..Len(s) |->
                IF n = 0 THEN <<>>
                ELSE IF n \in places THEN Append(kept[n - 1], s[n])
                ELSE kept[n - 1]]
  BY <1>1
<1>3. Keep(s, places) = kept[Len(s)]
  BY DEF Keep
<1>4. PICK f : /\ f = [n \in 0..Len(s) |->
                         IF n = 0 THEN <<>>
                         ELSE IF n \in places THEN Append(f[n - 1], s[n])
                         ELSE f[n - 1]]
               /\ Keep(s, places) = f[Len(s)]
  <2> HIDE DEF kept
  <2>1. QED BY <1>2, <1>3
<1> HIDE DEF kept
<1>5. \A n \in 0..Len(s) : f[n] = IF n = 0 THEN <<>>
                                  ELSE IF n \in places THEN Append(f[n - 1], s[n])
                                  ELSE f[n - 1]
  BY <1>4
<1>6. /\ f[0] = <<>>
      /\ \A n \in 1..Len(s) :
           f[n] = IF n \in places THEN Append(f[n - 1], s[n]) ELSE f[n - 1]
  <2>1. 0 \in 0..Len(s) /\ \A n \in 1..Len(s) : n \in 0..Len(s) /\ n # 0
    OBVIOUS
  <2>2. QED BY <2>1, <1>5
<1> DEFINE T == {m \in Nat : m <= Len(s) => f[m] \in Seq(S)}
<1>7. 0 \in T
  <2>1. <<>> \in Seq(S)
    OBVIOUS
  <2>2. QED BY <2>1, <1>6
<1>8. ASSUME NEW m \in T PROVE m + 1 \in T
  <2>1. CASE m + 1 <= Len(s)
    <3>1. m + 1 \in 1..Len(s) /\ f[m] \in Seq(S) /\ s[m + 1] \in S
      BY <2>1
    <3>2. f[m + 1] = IF m + 1 \in places THEN Append(f[m], s[m + 1]) ELSE f[m]
      BY <3>1, <1>6
    <3>3. Append(f[m], s[m + 1]) \in Seq(S)
      BY <3>1
    <3>4. f[m + 1] \in Seq(S)
      BY <3>1, <3>2, <3>3
    <3>5. m + 1 \in Nat
      OBVIOUS
    <3>6. QED BY <3>4, <3>5
  <2>2. QED BY <2>1
<1>9. \A m \in 0..Len(s) : f[m] \in Seq(S)
  <2>1. T = Nat
    <3> HIDE DEF T
    <3>1. T \in SUBSET Nat
      BY DEF T
    <3>2. QED BY <1>7, <1>8, <3>1, Induction
  <2>2. QED BY <2>1
<1>10. QED BY <1>4, <1>6, <1>9 DEF KeepsStepwise

\* What is kept of a sequence is a sequence of its items.
LEMMA KeepType ==
  ASSUME NEW S, NEW s \in Seq(S), NEW places
  PROVE  Keep(s, places) \in Seq(S)
<1>1. PICK kept : KeepsStepwise(kept, s, S, places)
  BY KeepStepwise
<1>2. Len(s) \in 0..Len(s)
  OBVIOUS
<1>3. QED BY <1>1, <1>2 DEF KeepsStepwise

\* Nothing is kept of nothing.
LEMMA KeepNone == ASSUME NEW places PROVE Keep(<<>>, places) = <<>>
<1>1. <<>> \in Seq({}) /\ Len(<<>>) = 0
  OBVIOUS
<1>2. PICK kept : KeepsStepwise(kept, <<>>, {}, places)
  BY <1>1, KeepStepwise
<1>3. QED BY <1>1, <1>2 DEF KeepsStepwise

\* An item at the end is kept at the end, or left out.
LEMMA KeepAppend ==
  ASSUME NEW S, NEW s \in Seq(S), NEW x \in S, NEW places
  PROVE  Keep(Append(s, x), places) =
           IF Len(s) + 1 \in places THEN Append(Keep(s, places), x) ELSE Keep(s, places)
<1> DEFINE t == Append(s, x)
<1>1. /\ t \in Seq(S) /\ Len(t) = Len(s) + 1 /\ t[Len(s) + 1] = x
      /\ \A n \in 1..Len(s) : t[n] = s[n]
  OBVIOUS
<1> HIDE DEF t
<1>2. PICK f : KeepsStepwise(f, s, S, places)
  BY KeepStepwise
<1>3. PICK g : KeepsStepwise(g, t, S, places)
  BY <1>1, KeepStepwise
<1> USE DEF KeepsStepwise
<1> DEFINE T == {m \in Nat : m <= Len(s) => g[m] = f[m]}
<1>4. 0 \in T
  BY <1>2, <1>3
<1>5. ASSUME NEW m \in T PROVE m + 1 \in T
  <2>1. CASE m + 1 <= Len(s)
    <3>1. m + 1 \in 1..Len(s) /\ m + 1 \in 1..Len(t) /\ g[m] = f[m] /\ t[m + 1] = s[m + 1]
      BY <2>1, <1>1
    <3>2. f[m + 1] = IF m + 1 \in places THEN Append(f[m], s[m + 1]) ELSE f[m]
      BY <3>1, <1>2
    <3>3. g[m + 1] = IF m + 1 \in places THEN Append(g[m], t[m + 1]) ELSE g[m]
      BY <3>1, <1>3
    <3>4. QED BY <3>1, <3>2, <3>3
  <2>2. QED BY <2>1
<1>6. g[Len(s)] = f[Len(s)]
  <2>1. T = Nat
    <3> HIDE DEF T
    <3>1. T \in SUBSET Nat
      BY DEF T
    <3>2. QED BY <1>4, <1>5, <3>1, Induction
  <2>2. QED BY <2>1
<1>7. Len(t) \in 1..Len(t) /\ Len(t) - 1 = Len(s)
  BY <1>1
<1>8. QED BY <1>1, <1>2, <1>3, <1>6, <1>7 DEF t

\* Induction on sequences, from the left to the right.
LEMMA SeqInduction ==
  ASSUME NEW S, NEW T, <<>> \in T, \A s \in T \cap Seq(S) : \A x \in S : Append(s, x) \in T
  PROVE  Seq(S) \subseteq T
<1> DEFINE U == {m \in Nat : \A s \in Seq(S) : Len(s) = m => s \in T}
<1>1. 0 \in U
  OBVIOUS
<1>2. ASSUME NEW m \in U PROVE m + 1 \in U
  <2> SUFFICES ASSUME NEW s \in Seq(S), Len(s) = m + 1 PROVE s \in T
    OBVIOUS
  <2> DEFINE r == SubSeq(s, 1, m)
  <2>1. r \in Seq(S) /\ Len(r) = m /\ s[m + 1] \in S /\ s = Append(r, s[m + 1])
    OBVIOUS
  <2> HIDE DEF r
  <2>2. r \in T
    BY <2>1
  <2>3. QED BY <2>1, <2>2
<1>3. U = Nat
  <2> HIDE DEF U
  <2>1. U \in SUBSET Nat
    BY DEF U
  <2>2. QED BY <1>1, <1>2, <2>1, Induction
<1>4. QED BY <1>3

\* Only the places inside the sequence count.
LEMMA KeepAgrees ==
  ASSUME NEW S, NEW s \in Seq(S), NEW a, NEW b, \A n \in 1..Len(s) : n \in a <=> n \in b
  PROVE  Keep(s, a) = Keep(s, b)
<1> DEFINE T == {t \in Seq(S) : (\A n \in 1..Len(t) : n \in a <=> n \in b) =>
                                  Keep(t, a) = Keep(t, b)}
<1>1. <<>> \in T
  <2>1. <<>> \in Seq(S)
    OBVIOUS
  <2>2. QED BY <2>1, KeepNone
<1>2. ASSUME NEW t \in T \cap Seq(S), NEW x \in S PROVE Append(t, x) \in T
  <2> DEFINE u == Append(t, x)
  <2>1. /\ u \in Seq(S) /\ Len(u) = Len(t) + 1
        /\ Len(t) + 1 \in 1..Len(u) /\ \A n \in 1..Len(t) : n \in 1..Len(u)
    OBVIOUS
  <2>2. /\ Keep(u, a) = IF Len(t) + 1 \in a THEN Append(Keep(t, a), x) ELSE Keep(t, a)
        /\ Keep(u, b) = IF Len(t) + 1 \in b THEN Append(Keep(t, b), x) ELSE Keep(t, b)
    BY KeepAppend
  <2> HIDE DEF u
  <2>3. ASSUME \A n \in 1..Len(u) : n \in a <=> n \in b PROVE Keep(u, a) = Keep(u, b)
    <3>1. Keep(t, a) = Keep(t, b) /\ (Len(t) + 1 \in a <=> Len(t) + 1 \in b)
      BY <2>1, <2>3
    <3>2. QED BY <2>2, <3>1
  <2>4. u \in T
    BY <2>1, <2>3
  <2>5. QED BY <2>4 DEF u
<1>3. s \in T
  <2> HIDE DEF T
  <2>1. Seq(S) \subseteq T
    BY <1>1, <1>2, SeqInduction
  <2>2. QED BY <2>1
<1>4. QED BY <1>3

-----------------------------------------------------------------------------

\* `from` says where each kept item comes from: places go up, and every chosen
\* place of the sequence is there.
KeptFrom(from, s, places) ==
  /\ \A k \in 1..Len(Keep(s, places)) :
       from[k] \in 1..Len(s) \cap places /\ Keep(s, places)[k] = s[from[k]]
  /\ \A j, k \in 1..Len(Keep(s, places)) : j < k => from[j] < from[k]
  /\ \A n \in 1..Len(s) \cap places : \E k \in 1..Len(Keep(s, places)) : from[k] = n

\* Each kept entry has its place in the sequence, in order.
LEMMA KeepPlaces ==
  ASSUME NEW S, NEW s \in Seq(S), NEW places
  PROVE  \E from : KeptFrom(from, s, places)
<1> DEFINE T == {t \in Seq(S) : \E from : KeptFrom(from, t, places)}
<1>1. <<>> \in T
  <2>1. KeptFrom(<<>>, <<>>, places)
    BY KeepNone DEF KeptFrom
  <2>2. <<>> \in Seq(S)
    OBVIOUS
  <2>3. QED BY <2>1, <2>2
<1>2. ASSUME NEW t \in T \cap Seq(S), NEW x \in S PROVE Append(t, x) \in T
  <2> DEFINE u == Append(t, x)
             kept == Keep(t, places)
  <2>1. /\ u \in Seq(S) /\ Len(u) = Len(t) + 1 /\ u[Len(t) + 1] = x
        /\ \A n \in 1..Len(t) : u[n] = t[n]
        /\ Len(t) \in Nat
    OBVIOUS
  <2>2. kept \in Seq(S) /\ Len(kept) \in Nat
    BY KeepType
  <2>3. Keep(u, places) = IF Len(t) + 1 \in places THEN Append(kept, x) ELSE kept
    BY KeepAppend
  <2>4. PICK f : KeptFrom(f, t, places)
    OBVIOUS
  <2> HIDE DEF u, kept
  <2>5. CASE Len(t) + 1 \notin places
    <3>1. Keep(u, places) = kept
      BY <2>3, <2>5
    <3>2. 1..Len(u) \cap places = 1..Len(t) \cap places
      BY <2>1, <2>5
    <3>3. KeptFrom(f, u, places)
      BY <2>1, <2>2, <2>4, <3>1, <3>2 DEF KeptFrom, kept
    <3>4. QED BY <2>1, <3>3 DEF u
  <2>6. CASE Len(t) + 1 \in places
    <3> DEFINE last == Len(kept) + 1
               g == [k \in 1..last |-> IF k = last THEN Len(t) + 1 ELSE f[k]]
    <3>1. /\ Len(Keep(u, places)) = last
          /\ Keep(u, places)[last] = x
          /\ \A k \in 1..Len(kept) : Keep(u, places)[k] = kept[k]
      BY <2>2, <2>3, <2>6
    <3>2. /\ g[last] = Len(t) + 1
          /\ \A k \in 1..Len(kept) : g[k] = f[k]
      BY <2>2
    <3> HIDE DEF g
    <3>9. \A k \in 1..Len(kept) : f[k] \in 1..Len(t) \cap places
      BY <2>4 DEF KeptFrom, kept
    <3>3. \A k \in 1..last : k = last \/ k \in 1..Len(kept)
      BY <2>2
    <3>4. \A k \in 1..last : g[k] \in 1..Len(u) \cap places /\ Keep(u, places)[k] = u[g[k]]
      <4> TAKE k \in 1..last
      <4>1. CASE k = last
        BY <2>1, <2>6, <3>1, <3>2, <4>1
      <4>2. CASE k \in 1..Len(kept)
        BY <2>1, <2>4, <3>1, <3>2, <3>9, <4>2 DEF KeptFrom, kept
      <4>3. QED BY <3>3, <4>1, <4>2
    <3>5. ASSUME NEW j \in 1..last, NEW k \in 1..last, j < k PROVE g[j] < g[k]
      <4>1. j \in 1..Len(kept)
        BY <2>2, <3>5
      <4>2. CASE k = last
        BY <2>1, <3>2, <3>9, <4>1, <4>2
      <4>3. CASE k \in 1..Len(kept)
        BY <2>4, <3>2, <3>5, <4>1, <4>3 DEF KeptFrom, kept
      <4>4. QED BY <3>3, <4>2, <4>3
    <3>6. ASSUME NEW n \in 1..Len(u) \cap places PROVE \E k \in 1..last : g[k] = n
      <4>1. CASE n = Len(t) + 1
        BY <2>2, <3>2, <4>1
      <4>2. CASE n # Len(t) + 1
        <5>1. n \in 1..Len(t) \cap places
          BY <2>1, <4>2
        <5>2. PICK k \in 1..Len(kept) : f[k] = n
          BY <2>4, <5>1 DEF KeptFrom, kept
        <5>3. QED BY <2>2, <3>2, <5>2
      <4>3. QED BY <4>1, <4>2
    <3>7. KeptFrom(g, u, places)
      BY <3>1, <3>4, <3>5, <3>6 DEF KeptFrom
    <3>8. QED BY <2>1, <3>7 DEF u
  <2>7. QED BY <2>5, <2>6
<1>3. s \in T
  <2> HIDE DEF T
  <2>1. Seq(S) \subseteq T
    BY <1>1, <1>2, SeqInduction
  <2>2. QED BY <2>1
<1>4. QED BY <1>3

\* What is kept of a concatenation: the parts keep theirs.
LEMMA KeepConcat ==
  ASSUME NEW S, NEW s \in Seq(S), NEW t \in Seq(S), NEW whole, NEW left, NEW right,
         \A n \in 1..Len(s) : n \in whole <=> n \in left,
         \A n \in 1..Len(t) : Len(s) + n \in whole <=> n \in right
  PROVE  Keep(s \o t, whole) = Keep(s, left) \o Keep(t, right)
<1> DEFINE T == {u \in Seq(S) :
                   (\A n \in 1..Len(u) : Len(s) + n \in whole <=> n \in right) =>
                     Keep(s \o u, whole) = Keep(s, whole) \o Keep(u, right)}
<1>1. <<>> \in T
  <2>1. s \o <<>> = s /\ Keep(s, whole) \in Seq(S)
    BY KeepType
  <2>2. <<>> \in Seq(S) /\ Keep(s, whole) \o <<>> = Keep(s, whole)
    BY <2>1
  <2>3. QED BY <2>1, <2>2, KeepNone
<1>2. ASSUME NEW u \in T \cap Seq(S), NEW x \in S PROVE Append(u, x) \in T
  <2> DEFINE v == Append(u, x)
  <2>1. /\ v \in Seq(S) /\ Len(v) = Len(u) + 1
        /\ s \o v = Append(s \o u, x) /\ s \o u \in Seq(S)
        /\ Len(s \o u) + 1 = Len(s) + (Len(u) + 1)
        /\ Len(u) + 1 \in 1..Len(v)
    OBVIOUS
  <2>2. Keep(v, right) =
          IF Len(u) + 1 \in right THEN Append(Keep(u, right), x) ELSE Keep(u, right)
    BY KeepAppend
  <2>6. Keep(s \o v, whole) =
          IF Len(s \o u) + 1 \in whole THEN Append(Keep(s \o u, whole), x)
          ELSE Keep(s \o u, whole)
    <3> DEFINE r == s \o u
    <3>1. r \in Seq(S) /\ s \o v = Append(r, x)
      BY <2>1
    <3> HIDE DEF r, v
    <3>2. Keep(Append(r, x), whole) =
            IF Len(r) + 1 \in whole THEN Append(Keep(r, whole), x) ELSE Keep(r, whole)
      BY <3>1, KeepAppend
    <3>3. QED BY <3>1, <3>2 DEF r
  <2>3. Keep(s, whole) \in Seq(S) /\ Keep(u, right) \in Seq(S)
    BY KeepType
  <2>4. Keep(s, whole) \o Append(Keep(u, right), x) = Append(Keep(s, whole) \o Keep(u, right), x)
    BY <2>3
  <2> HIDE DEF v
  <2>5. ASSUME \A n \in 1..Len(v) : Len(s) + n \in whole <=> n \in right
        PROVE  Keep(s \o v, whole) = Keep(s, whole) \o Keep(v, right)
    <3>1. \A n \in 1..Len(u) : Len(s) + n \in whole <=> n \in right
      BY <2>1, <2>5
    <3>2. Keep(s \o u, whole) = Keep(s, whole) \o Keep(u, right)
      BY <3>1
    <3>3. Len(s \o u) + 1 \in whole <=> Len(u) + 1 \in right
      BY <2>1, <2>5
    <3>4. QED BY <2>2, <2>6, <2>4, <3>2, <3>3
  <2>7. QED BY <2>1, <2>5 DEF v
<1>3. t \in T
  <2> HIDE DEF T
  <2>1. Seq(S) \subseteq T
    BY <1>1, <1>2, SeqInduction
  <2>2. QED BY <2>1
<1>4. Keep(s \o t, whole) = Keep(s, whole) \o Keep(t, right)
  BY <1>3
<1>5. Keep(s, whole) = Keep(s, left)
  BY KeepAgrees
<1>6. QED BY <1>4, <1>5

-----------------------------------------------------------------------------
\* Rising sequences: transcripts are told apart by what they hold

Rising(s) == s \in Seq(Nat) /\ \A i, j \in 1..Len(s) : i < j => s[i] < s[j]
Elems(s) == {s[i] : i \in 1..Len(s)}

\* Of two rising sequences of the same elements that agree up to a place,
\* neither is behind at it.
LEMMA RisingAgree ==
  ASSUME NEW s, NEW t, Rising(s), Rising(t), Elems(s) = Elems(t),
         NEW m \in Nat, m <= Len(s), m <= Len(t), m # 0,
         \A k \in 1..(m - 1) : s[k] = t[k]
  PROVE  s[m] <= t[m]
<1>1. m \in 1..Len(t) /\ m \in 1..Len(s) /\ Len(s) \in Nat /\ Len(t) \in Nat
  BY DEF Rising
<1>2. PICK j \in 1..Len(s) : t[m] = s[j]
  BY <1>1 DEF Elems
<1>3. s[m] \in Nat /\ s[j] \in Nat /\ t[m] \in Nat /\ j \in Nat
  BY <1>1 DEF Rising
<1>4. CASE j < m
  <2>1. j \in 1..(m - 1) /\ j \in 1..Len(t)
    BY <1>1, <1>4
  <2>2. t[j] = t[m] /\ t[j] < t[m]
    BY <1>1, <1>2, <1>4, <2>1 DEF Rising
  <2>3. QED BY <2>2, <1>3
<1>5. CASE j = m
  BY <1>2, <1>3, <1>5
<1>6. CASE m < j
  BY <1>1, <1>2, <1>3, <1>6 DEF Rising
<1>7. QED BY <1>3, <1>4, <1>5, <1>6

\* Two rising sequences of the same elements agree wherever both have an entry.
LEMMA RisingPrefix ==
  ASSUME NEW s, NEW t, Rising(s), Rising(t), Elems(s) = Elems(t)
  PROVE  \A k \in 1..Len(s) : k \in 1..Len(t) => s[k] = t[k]
<1> DEFINE Bad == {k \in Nat : k \in 1..Len(s) /\ k \in 1..Len(t) /\ s[k] # t[k]}
<1>1. CASE Bad # {}
  <2>1. PICK m \in Bad : \A k \in Bad : m <= k
    BY <1>1, Least
  <2>2. m \in Nat /\ m # 0 /\ m <= Len(s) /\ m <= Len(t) /\ s[m] # t[m]
    OBVIOUS
  <2>3. Len(s) \in Nat /\ Len(t) \in Nat
    BY DEF Rising
  <2>4. \A k \in 1..(m - 1) : s[k] = t[k]
    <3>1. SUFFICES ASSUME NEW k \in 1..(m - 1), s[k] # t[k] PROVE FALSE
      OBVIOUS
    <3>2. k \in Bad /\ k < m
      BY <2>2, <2>3, <3>1
    <3>3. QED BY <2>1, <2>2, <3>2
  <2>5. \A k \in 1..(m - 1) : t[k] = s[k]
    BY <2>4
  <2>6. s[m] <= t[m] /\ t[m] <= s[m]
    <3> HIDE DEF Bad
    <3>1. s[m] <= t[m]
      BY <2>2, <2>4, RisingAgree
    <3>2. t[m] <= s[m]
      BY <2>2, <2>5, RisingAgree
    <3>3. QED BY <3>1, <3>2
  <2>7. s[m] \in Nat /\ t[m] \in Nat
    BY <2>2, <2>3 DEF Rising
  <2>8. QED BY <2>2, <2>6, <2>7
<1>2. QED BY <1>1

\* Neither of them is longer.
LEMMA RisingNoLonger ==
  ASSUME NEW s, NEW t, Rising(s), Rising(t), Elems(s) = Elems(t), Len(s) < Len(t)
  PROVE  FALSE
<1> DEFINE n == Len(s) + 1
<1>1. Len(s) \in Nat /\ Len(t) \in Nat
  BY DEF Rising
<1>2. n \in 1..Len(t) /\ n \in Nat /\ Len(s) < n
  BY <1>1
<1>3. PICK i \in 1..Len(s) : s[i] = t[n]
  BY <1>2 DEF Elems
<1>4. i \in 1..Len(t) /\ i < n
  BY <1>1
<1>5. s[i] = t[i]
  BY <1>4, RisingPrefix
<1>6. t[i] < t[n] /\ t[i] \in Nat
  BY <1>2, <1>4 DEF Rising
<1>7. QED BY <1>3, <1>5, <1>6

\* A rising sequence is fixed by its elements.
LEMMA RisingEqual ==
  ASSUME NEW s, NEW t, Rising(s), Rising(t), Elems(s) = Elems(t)
  PROVE  s = t
<1>1. Len(s) \in Nat /\ Len(t) \in Nat
  BY DEF Rising
<1>2. Len(s) = Len(t)
  BY <1>1, RisingNoLonger
<1>3. \A k \in 1..Len(s) : s[k] = t[k]
  BY <1>2, RisingPrefix
<1>4. s \in Seq(Nat) /\ t \in Seq(Nat)
  BY DEF Rising
<1>5. QED BY <1>2, <1>3, <1>4

\* A greater number at the end keeps a sequence rising.
LEMMA RisingAppend ==
  ASSUME NEW s, Rising(s), NEW b \in Nat, \A i \in 1..Len(s) : s[i] < b
  PROVE  Rising(Append(s, b)) /\ Elems(Append(s, b)) = Elems(s) \cup {b}
<1> DEFINE t == Append(s, b)
<1>1. s \in Seq(Nat) /\ Len(s) \in Nat
  BY DEF Rising
<1>2. /\ t \in Seq(Nat) /\ Len(t) = Len(s) + 1 /\ t[Len(s) + 1] = b
      /\ \A i \in 1..Len(s) : t[i] = s[i]
  BY <1>1
<1> HIDE DEF t
<1>3. ASSUME NEW i \in 1..Len(t), NEW j \in 1..Len(t), i < j PROVE t[i] < t[j]
  <2>1. i \in 1..Len(s) /\ t[i] = s[i] /\ s[i] < b
    BY <1>1, <1>2, <1>3
  <2>2. CASE j = Len(s) + 1
    BY <2>1, <2>2, <1>2
  <2>3. CASE j # Len(s) + 1
    <3>1. j \in 1..Len(s) /\ t[j] = s[j]
      BY <1>1, <1>2, <2>3
    <3>2. QED BY <2>1, <3>1, <1>3 DEF Rising
  <2>4. QED BY <2>2, <2>3
<1>4. Elems(t) = Elems(s) \cup {b}
  <2>1. 1..Len(t) = 1..Len(s) \cup {Len(s) + 1}
    BY <1>1, <1>2
  <2>2. QED BY <2>1, <1>2 DEF Elems
<1>5. QED BY <1>2, <1>3, <1>4 DEF Rising, t

\* Entries left out keep it rising.
LEMMA RisingKeep ==
  ASSUME NEW s, Rising(s), NEW places
  PROVE  /\ Rising(Keep(s, places))
         /\ Elems(Keep(s, places)) = {s[i] : i \in 1..Len(s) \cap places}
<1> DEFINE t == Keep(s, places)
<1>1. s \in Seq(Nat) /\ Len(s) \in Nat
  BY DEF Rising
<1>2. t \in Seq(Nat) /\ Len(t) \in Nat
  BY <1>1, KeepType
<1>3. PICK from : KeptFrom(from, s, places)
  BY <1>1, KeepPlaces
<1>4. /\ \A k \in 1..Len(t) : from[k] \in 1..Len(s) \cap places /\ t[k] = s[from[k]]
      /\ \A j, k \in 1..Len(t) : j < k => from[j] < from[k]
      /\ \A n \in 1..Len(s) \cap places : \E k \in 1..Len(t) : from[k] = n
  BY <1>3 DEF KeptFrom
<1> HIDE DEF t
<1>5. ASSUME NEW i \in 1..Len(t), NEW j \in 1..Len(t), i < j PROVE t[i] < t[j]
  <2>1. from[i] \in 1..Len(s) /\ from[j] \in 1..Len(s) /\ from[i] < from[j]
    BY <1>4, <1>5
  <2>2. t[i] = s[from[i]] /\ t[j] = s[from[j]]
    BY <1>4
  <2>3. QED BY <2>1, <2>2 DEF Rising
<1>6. Elems(t) = {s[i] : i \in 1..Len(s) \cap places}
  BY <1>4 DEF Elems
<1>7. QED BY <1>2, <1>5, <1>6 DEF Rising, t

=============================================================================
