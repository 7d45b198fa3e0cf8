--------------------------- MODULE DocumentProofs ---------------------------
(***************************************************************************)
(* Proofs about Document, for any initial text, any texts put in and any   *)
(* bounds. At the heart is what an edit list says of two texts (Explains): *)
(* folding one more edit into a list keeps it (Merged), reading the list   *)
(* from the left gives the new text (ReadsAs), the inverse list explains   *)
(* the way back, and a list that is replayed ends in the text it explains. *)
(* The undo tree is a tree of such lists, so every jump ends in the text   *)
(* of its node. Sums, chains and replays are recursive; what is said of    *)
(* them is proved by the set of the numbers for which it holds (Induction).*)
(***************************************************************************)
EXTENDS Document, TLAPS, NaturalsInduction, WellFoundedInduction, SequenceTheorems

-----------------------------------------------------------------------------
(* Numbers and sequences.                                                  *)

\* Induction over a set of numbers: the least number outside it has no predecessor.
LEMMA Induction ==
  ASSUME NEW T, T \subseteq Nat, 0 \in T, \A n \in Nat : n \in T => n + 1 \in T
  PROVE  T = Nat
  <1> DEFINE R == OpToRel(<, Nat)
             D == Nat \ T
  <1>1. IsWellFoundedOn(R, Nat)
        BY NatLessThanWellFounded, Zenon
  <1>2. \A x, y \in Nat : y < x => <<y, x>> \in R
        BY DEF OpToRel
  <1> HIDE DEF R
  <1>3. SUFFICES ASSUME D # {}
                 PROVE  FALSE
        OBVIOUS
  <1>4. D \subseteq Nat
        OBVIOUS
  <1> HIDE DEF D
  <1>5. \E x \in D : \A y \in D : ~(<<y, x>> \in R)
        BY <1>1, <1>3, <1>4, WFMin, Zenon
  <1>6. PICK x \in Nat \ T : \A y \in Nat \ T : ~(<<y, x>> \in R)
        BY <1>5 DEF D
  <1>7. x # 0 /\ x - 1 \in Nat /\ x - 1 < x /\ x - 1 + 1 = x
        OBVIOUS
  <1>8. x - 1 \notin Nat \ T
        BY <1>2, <1>6, <1>7
  <1> QED BY <1>6, <1>7, <1>8

\* The least and the greatest of some numbers.
LEMMA LeastNumber ==
  ASSUME NEW S, S \subseteq Nat, S # {}
  PROVE  Min(S) \in S /\ \A y \in S : Min(S) <= y
  <1> DEFINE T == {m \in Nat : \A y \in S : m <= y}
             Least(x) == x \in S /\ \A y \in S : x <= y
  <1>1. SUFFICES \E x \in S : \A y \in S : x <= y
        BY DEF Min
  <1>2. SUFFICES ASSUME \A x \in S : ~\A y \in S : x <= y
                 PROVE  FALSE
        OBVIOUS
  <1>3. 0 \in T
        OBVIOUS
  <1>4. ASSUME NEW m \in Nat, m \in T
        PROVE  m + 1 \in T
        BY <1>2, <1>4
  <1>5. T \subseteq Nat
        OBVIOUS
  <1>6. T = Nat
    <2> HIDE DEF T
    <2> QED BY <1>3, <1>4, <1>5, Induction
  <1>7. PICK y \in S : TRUE
        OBVIOUS
  <1>8. y \in Nat /\ y + 1 \in Nat /\ ~(y + 1 <= y)
        BY <1>7
  <1>9. y + 1 \in T
    <2> HIDE DEF T
    <2> QED BY <1>6, <1>8
  <1> QED BY <1>7, <1>8, <1>9

\* The greatest of some numbers up to n is one of them.
LEMMA GreatestNumber ==
  ASSUME NEW S, NEW n \in Nat, S \subseteq 1..n, S # {}
  PROVE  Max(S) \in S /\ \A y \in S : y <= Max(S)
  <1> DEFINE U == {n - y : y \in S}
  <1>1. U \subseteq Nat /\ U # {}
    <2>1. \A y \in S : n - y \in Nat
          OBVIOUS
    <2> QED BY <2>1
  <1>2. Min(U) \in U /\ \A y \in U : Min(U) <= y
        BY <1>1, LeastNumber
  <1>3. PICK x \in S : Min(U) = n - x
        BY <1>2
  <1>4. \A y \in S : n - x <= n - y
        BY <1>2, <1>3
  <1>5. \A y \in S : y <= x
        BY <1>4
  <1> QED BY <1>5 DEF Max

\* Pieces of a sequence, by their places.
LEMMA Pieces ==
  ASSUME NEW S, NEW t \in Seq(S), NEW s \in 0..Len(t), NEW e \in s..Len(t)
  PROVE  /\ Slice(t, s, e) \in Seq(S) /\ Len(Slice(t, s, e)) = e - s
         /\ \A i \in 1..(e - s) : Slice(t, s, e)[i] = t[s + i]
  <1>1. \A i \in (s + 1)..e : t[i] \in S
        OBVIOUS
  <1>2. s + 1 \in Int /\ e \in Int
        OBVIOUS
  <1>3. /\ SubSeq(t, s + 1, e) \in Seq(S)
        /\ Len(SubSeq(t, s + 1, e)) = IF s + 1 <= e THEN e - (s + 1) + 1 ELSE 0
        /\ \A i \in 1..(e - (s + 1) + 1) : SubSeq(t, s + 1, e)[i] = t[s + 1 + i - 1]
        BY <1>1, <1>2, SubSeqProperties
  <1>4. \A i \in 1..(e - s) : i \in 1..(e - (s + 1) + 1) /\ s + 1 + i - 1 = s + i
        OBVIOUS
  <1> QED BY <1>3, <1>4 DEF Slice

\* Two sequences with the same elements are the same.
LEMMA SameText ==
  ASSUME NEW S, NEW s \in Seq(S), NEW t \in Seq(S), Len(s) = Len(t),
         \A i \in 1..Len(s) : s[i] = t[i]
  PROVE  s = t
  BY SeqEqual

\* Three sequences on end, by their places.
LEMMA Joined ==
  ASSUME NEW S, NEW a \in Seq(S), NEW b \in Seq(S), NEW c \in Seq(S)
  PROVE  /\ a \o b \o c \in Seq(S) /\ Len(a \o b \o c) = Len(a) + Len(b) + Len(c)
         /\ \A i \in 1..Len(a) : (a \o b \o c)[i] = a[i]
         /\ \A i \in 1..Len(b) : (a \o b \o c)[Len(a) + i] = b[i]
         /\ \A i \in 1..Len(c) : (a \o b \o c)[Len(a) + Len(b) + i] = c[i]
  <1> DEFINE d == a \o b
  <1>1. /\ d \in Seq(S) /\ Len(d) = Len(a) + Len(b)
        /\ \A i \in 1..(Len(a) + Len(b)) : d[i] = IF i <= Len(a) THEN a[i] ELSE b[i - Len(a)]
        BY ConcatProperties
  <1> HIDE DEF d
  <1>2. /\ d \o c \in Seq(S) /\ Len(d \o c) = Len(d) + Len(c)
        /\ \A i \in 1..(Len(d) + Len(c)) : (d \o c)[i] = IF i <= Len(d) THEN d[i] ELSE c[i - Len(d)]
    <2>1. d \in Seq(S)
          BY <1>1
    <2> QED BY <2>1, ConcatProperties
  <1>3. Len(a) \in Nat /\ Len(b) \in Nat /\ Len(c) \in Nat
        OBVIOUS
  <1>4. \A i \in 1..Len(a) : (d \o c)[i] = a[i]
        BY <1>1, <1>2, <1>3
  <1>5. ASSUME NEW i \in 1..Len(b)
        PROVE  (d \o c)[Len(a) + i] = b[i]
    <2>1. Len(a) + i \in 1..(Len(a) + Len(b)) /\ ~(Len(a) + i <= Len(a)) /\ Len(a) + i - Len(a) = i
          BY <1>3
    <2>2. d[Len(a) + i] = b[i]
          BY <1>1, <2>1
    <2>3. Len(a) + i \in 1..(Len(d) + Len(c)) /\ Len(a) + i <= Len(d)
          BY <1>1, <1>3
    <2> QED BY <1>2, <2>2, <2>3
  <1>6. ASSUME NEW i \in 1..Len(c)
        PROVE  (d \o c)[Len(a) + Len(b) + i] = c[i]
    <2>1. /\ Len(a) + Len(b) + i \in 1..(Len(d) + Len(c)) /\ ~(Len(a) + Len(b) + i <= Len(d))
          /\ Len(a) + Len(b) + i - Len(d) = i
          BY <1>1, <1>3
    <2> QED BY <1>2, <2>1
  <1> QED BY <1>1, <1>2, <1>4, <1>5, <1>6 DEF d

-----------------------------------------------------------------------------
(* How far a list moves the text behind it.                                *)

EditRecord == [start : Nat, end : Nat, new : Text]

\* An edit has whole numbers and a text, and makes the text longer or shorter.
LEMMA EditIs ==
  ASSUME NEW x \in EditRecord
  PROVE  /\ x.start \in Nat /\ x.end \in Nat /\ x.new \in Text /\ Len(x.new) \in Nat
         /\ Growth(x) \in Int /\ Growth(x) = Len(x.new) - (x.end - x.start)
  <1>1. x.start \in Nat /\ x.end \in Nat /\ x.new \in Text
        BY DEF EditRecord
  <1>2. Len(x.new) \in Nat
        BY <1>1 DEF Text
  <1> QED BY <1>1, <1>2 DEF Growth

\* What the edits of a list are.
LEMMA EditsAre ==
  ASSUME NEW edits \in Edits
  PROVE  /\ Len(edits) \in Nat /\ DOMAIN edits = 1..Len(edits)
         /\ \A i \in 1..Len(edits) :
               /\ edits[i] \in EditRecord
               /\ edits[i].start \in Nat /\ edits[i].end \in Nat /\ edits[i].new \in Text
               /\ Len(edits[i].new) \in Nat
               /\ Growth(edits[i]) \in Int
               /\ Growth(edits[i]) = Len(edits[i].new) - (edits[i].end - edits[i].start)
  <1>1. edits \in Seq(EditRecord)
        BY DEF Edits, EditRecord
  <1>2. Len(edits) \in Nat /\ DOMAIN edits = 1..Len(edits) /\ \A i \in 1..Len(edits) : edits[i] \in EditRecord
        BY <1>1
  <1> QED BY <1>2, EditIs

\* One step of the sum.
ShiftStep(edits, f, i) == IF i = 0 THEN 0 ELSE f[i - 1] + Growth(edits[i])

\* The sum exists for a list of any length, so it is what its equation says.
LEMMA ShiftsUnfold ==
  ASSUME NEW edits, Len(edits) \in Nat
  PROVE  /\ Shifts(edits) = [i \in 0..Len(edits) |-> ShiftStep(edits, Shifts(edits), i)]
         /\ Shifts(edits)[0] = 0
         /\ \A i \in 1..Len(edits) : Shifts(edits)[i] = Shifts(edits)[i - 1] + Growth(edits[i])
  <1> DEFINE T == {m \in Nat : \E f : f = [i \in 0..m |-> ShiftStep(edits, f, i)]}
  <1>1. 0 \in T
    <2>1. [i \in 0..0 |-> 0] = [i \in 0..0 |-> ShiftStep(edits, [j \in 0..0 |-> 0], i)]
          BY DEF ShiftStep
    <2> QED BY <2>1
  <1>2. ASSUME NEW m \in Nat, m \in T
        PROVE  m + 1 \in T
    <2>1. PICK f : f = [i \in 0..m |-> ShiftStep(edits, f, i)]
          BY <1>2
    <2> DEFINE g == [i \in 0..(m + 1) |-> IF i = m + 1 THEN ShiftStep(edits, f, m + 1) ELSE f[i]]
    <2>2. ASSUME NEW i \in 0..(m + 1)
          PROVE  g[i] = ShiftStep(edits, g, i)
      <3>1. CASE i = 0
            BY <2>1, <3>1 DEF ShiftStep
      <3>2. CASE i # 0
        <4>1. i - 1 \in 0..m /\ i - 1 \in 0..(m + 1) /\ i - 1 # m + 1
              BY <3>2
        <4>2. g[i - 1] = f[i - 1]
              BY <4>1
        <4>3. ShiftStep(edits, g, i) = ShiftStep(edits, f, i)
              BY <3>2, <4>2 DEF ShiftStep
        <4>4. g[i] = ShiftStep(edits, f, i)
          <5>1. CASE i = m + 1
                BY <5>1
          <5>2. CASE i # m + 1
            <6>1. i \in 0..m
                  BY <5>2
            <6> QED BY <2>1, <5>2, <6>1
          <5> QED BY <5>1, <5>2
        <4> QED BY <4>3, <4>4
      <3> QED BY <3>1, <3>2
    <2>3. g = [i \in 0..(m + 1) |-> ShiftStep(edits, g, i)]
      <3> DEFINE h == [i \in 0..(m + 1) |-> ShiftStep(edits, g, i)]
      <3>1. DOMAIN g = DOMAIN h /\ \A i \in 0..(m + 1) : g[i] = h[i]
            BY <2>2
      <3>2. g = [i \in 0..(m + 1) |-> g[i]] /\ h = [i \in 0..(m + 1) |-> h[i]]
            OBVIOUS
      <3> HIDE DEF g, h
      <3>3. g = h
            BY <3>1, <3>2
      <3> QED BY <3>3 DEF h
    <2> HIDE DEF g
    <2> QED BY <2>3
  <1>3. T = Nat
    <2>1. T \subseteq Nat
          OBVIOUS
    <2> HIDE DEF T
    <2> QED BY <1>1, <1>2, <2>1, Induction
  <1>4. \E f : f = [i \in 0..Len(edits) |-> ShiftStep(edits, f, i)]
        BY <1>3
  <1> DEFINE d == Shifts(edits)
  <1>5. d = CHOOSE f : f = [i \in 0..Len(edits) |-> ShiftStep(edits, f, i)]
        BY DEF Shifts, ShiftStep
  <1> HIDE DEF d
  <1>6. d = [i \in 0..Len(edits) |-> ShiftStep(edits, d, i)]
        BY <1>4, <1>5
  <1>7. \A i \in 0..Len(edits) : d[i] = ShiftStep(edits, d, i)
        BY <1>6
  <1>8. d[0] = 0
    <2>1. 0 \in 0..Len(edits)
          OBVIOUS
    <2> QED BY <1>7, <2>1 DEF ShiftStep
  <1>9. ASSUME NEW i \in 1..Len(edits)
        PROVE  d[i] = d[i - 1] + Growth(edits[i])
    <2>1. i \in 0..Len(edits) /\ i # 0
          OBVIOUS
    <2> QED BY <1>7, <2>1 DEF ShiftStep
  <1> QED BY <1>6, <1>8, <1>9 DEF d

\* A list is shifted by whole numbers, edit by edit.
LEMMA ShiftsAre ==
  ASSUME NEW edits \in Edits
  PROVE  /\ Shifts(edits) \in [0..Len(edits) -> Int] /\ Shifts(edits)[0] = 0
         /\ \A i \in 1..Len(edits) : /\ Growth(edits[i]) \in Int
                                     /\ Shifts(edits)[i] = Shifts(edits)[i - 1] + Growth(edits[i])
  <1> DEFINE n == Len(edits)
             d == Shifts(edits)
             T == {m \in Nat : m \in 0..n => d[m] \in Int}
  <1>1. n \in Nat
        BY EditsAre
  <1>2. \A i \in 1..n : Growth(edits[i]) \in Int
        BY EditsAre
  <1>3. /\ d = [i \in 0..n |-> ShiftStep(edits, d, i)] /\ d[0] = 0
        /\ \A i \in 1..n : d[i] = d[i - 1] + Growth(edits[i])
        BY <1>1, ShiftsUnfold
  <1> HIDE DEF n, d
  <1>4. 0 \in T
        BY <1>3
  <1>5. ASSUME NEW m \in Nat, m \in T
        PROVE  m + 1 \in T
    <2>1. SUFFICES ASSUME m + 1 \in 0..n
                   PROVE  d[m + 1] \in Int
          OBVIOUS
    <2>2. m \in 0..n /\ m + 1 \in 1..n /\ m + 1 - 1 = m
          BY <1>1, <2>1
    <2>3. d[m] \in Int
          BY <1>5, <2>2
    <2>4. d[m + 1] = d[m] + Growth(edits[m + 1])
          BY <1>3, <2>2
    <2> QED BY <1>2, <2>2, <2>3, <2>4
  <1>6. T = Nat
    <2>1. T \subseteq Nat
          OBVIOUS
    <2> HIDE DEF T
    <2> QED BY <1>4, <1>5, <2>1, Induction
  <1>7. \A i \in 0..n : d[i] \in Int
        BY <1>1, <1>6
  <1>8. d \in [0..n -> Int]
        BY <1>3, <1>7
  <1> QED BY <1>2, <1>3, <1>8 DEF n, d

\* Nothing else is: a function that grows edit by edit is the shifts of the list.
LEMMA ShiftsOnly ==
  ASSUME NEW edits \in Edits, NEW h, DOMAIN h = 0..Len(edits), h = [i \in DOMAIN h |-> h[i]],
         h[0] = 0, \A i \in 1..Len(edits) : h[i] = h[i - 1] + Growth(edits[i])
  PROVE  h = Shifts(edits)
  <1> DEFINE n == Len(edits)
             d == Shifts(edits)
             T == {m \in Nat : m \in 0..n => h[m] = d[m]}
  <1>1. /\ d \in [0..n -> Int] /\ d[0] = 0
        /\ \A i \in 1..n : d[i] = d[i - 1] + Growth(edits[i])
        BY ShiftsAre
  <1>2. n \in Nat
        BY EditsAre
  <1>3. /\ DOMAIN h = 0..n /\ h = [i \in DOMAIN h |-> h[i]] /\ h[0] = 0
        /\ \A i \in 1..n : h[i] = h[i - 1] + Growth(edits[i])
        OBVIOUS
  <1> HIDE DEF n, d
  <1>4. 0 \in T
        BY <1>1, <1>3
  <1>5. ASSUME NEW m \in Nat, m \in T
        PROVE  m + 1 \in T
    <2>1. SUFFICES ASSUME m + 1 \in 0..n
                   PROVE  h[m + 1] = d[m + 1]
          OBVIOUS
    <2>2. m \in 0..n /\ m + 1 \in 1..n /\ m + 1 - 1 = m
          BY <1>2, <2>1
    <2>3. d[m] = h[m]
          BY <1>5, <2>2
    <2> QED BY <1>1, <1>3, <2>2, <2>3
  <1>6. T = Nat
    <2>1. T \subseteq Nat
          OBVIOUS
    <2> HIDE DEF T
    <2> QED BY <1>4, <1>5, <2>1, Induction
  <1>7. \A i \in 0..n : h[i] = d[i]
        BY <1>2, <1>6
  <1>8. h = d
        BY <1>1, <1>3, <1>7
  <1> QED BY <1>8 DEF d

\* What the first i edits make up for the one behind them.
LEMMA DeltaAfter ==
  ASSUME NEW edits, NEW i \in Int
  PROVE  Delta(edits, i + 1) = Shifts(edits)[i]
  <1> DEFINE k == i + 1
  <1>1. k - 1 = i
        OBVIOUS
  <1> HIDE DEF k
  <1>2. Delta(edits, k) = Shifts(edits)[i]
        BY <1>1 DEF Delta
  <1> QED BY <1>2 DEF k

\* Where an edit is in the pending text.
LEMMA PendingAt ==
  ASSUME NEW edits \in Edits, NEW i \in 1..Len(edits)
  PROVE  /\ PendingStart(edits, i) \in Int /\ PendingEnd(edits, i) \in Int
         /\ PendingStart(edits, i) = edits[i].start + Shifts(edits)[i - 1]
         /\ PendingEnd(edits, i) = edits[i].end + Shifts(edits)[i]
         /\ PendingEnd(edits, i) = PendingStart(edits, i) + Len(edits[i].new)
         /\ PendingStart(edits, i) <= PendingEnd(edits, i)
         /\ Shifts(edits)[i - 1] \in Int /\ Shifts(edits)[i] \in Int
  <1> DEFINE d == Shifts(edits)
  <1>1. /\ edits[i].start \in Nat /\ edits[i].end \in Nat /\ Len(edits[i].new) \in Nat
        /\ Growth(edits[i]) = Len(edits[i].new) - (edits[i].end - edits[i].start)
        /\ Len(edits) \in Nat
        BY EditsAre
  <1>2. d \in [0..Len(edits) -> Int] /\ d[i] = d[i - 1] + Growth(edits[i])
        BY ShiftsAre
  <1>3. i - 1 \in 0..Len(edits) /\ i \in 0..Len(edits)
        BY <1>1
  <1>4. d[i - 1] \in Int /\ d[i] \in Int
        BY <1>2, <1>3
  <1>5. PendingStart(edits, i) = edits[i].start + d[i - 1]
        BY DEF PendingStart, Delta
  <1> HIDE DEF d
  <1>6. PendingEnd(edits, i) = PendingStart(edits, i) + Len(edits[i].new)
        BY DEF PendingEnd
  <1>7. PendingEnd(edits, i) = edits[i].end + d[i]
        BY <1>1, <1>2, <1>4, <1>5, <1>6, SMTT(30)
  <1> QED BY <1>1, <1>4, <1>5, <1>6, <1>7 DEF d

-----------------------------------------------------------------------------
(* A list in which some edits, or none, give way to one.                   *)

Spliced(s, f, l, x) == Slice(s, 0, f - 1) \o <<x>> \o Slice(s, l, Len(s))

\* A sequence with f..l given way to one element, by its places.
LEMMA SplicedIs ==
  ASSUME NEW S, NEW s \in Seq(S), NEW x \in S, NEW f \in 1..(Len(s) + 1), NEW l \in (f - 1)..Len(s)
  PROVE  /\ Spliced(s, f, l, x) \in Seq(S) /\ Len(Spliced(s, f, l, x)) = Len(s) - l + f
         /\ \A i \in 1..(f - 1) : Spliced(s, f, l, x)[i] = s[i]
         /\ Spliced(s, f, l, x)[f] = x
         /\ \A i \in (l + 1)..Len(s) : Spliced(s, f, l, x)[i - l + f] = s[i]
  <1> DEFINE a == Slice(s, 0, f - 1)
             b == <<x>>
             c == Slice(s, l, Len(s))
  <1>1. Len(s) \in Nat /\ f - 1 \in Nat /\ f - 1 \in 0..Len(s) /\ l \in 0..Len(s)
        OBVIOUS
  <1>2. /\ a \in Seq(S) /\ Len(a) = f - 1
        /\ \A i \in 1..(f - 1) : a[i] = s[i]
    <2>1. 0 \in 0..Len(s) /\ f - 1 \in 0..Len(s) /\ f - 1 - 0 = f - 1
          BY <1>1
    <2>2. /\ a \in Seq(S) /\ Len(a) = f - 1 - 0
          /\ \A i \in 1..(f - 1 - 0) : a[i] = s[0 + i]
          BY <2>1, Pieces
    <2>3. \A i \in 1..(f - 1) : 0 + i = i
          OBVIOUS
    <2> HIDE DEF a
    <2> QED BY <2>1, <2>2, <2>3
  <1>3. /\ c \in Seq(S) /\ Len(c) = Len(s) - l
        /\ \A i \in 1..(Len(s) - l) : c[i] = s[l + i]
    <2>1. l \in 0..Len(s) /\ Len(s) \in l..Len(s)
          BY <1>1
    <2> QED BY <2>1, Pieces
  <1>4. b \in Seq(S) /\ Len(b) = 1 /\ b[1] = x
        OBVIOUS
  <1> HIDE DEF a, b, c
  <1>5. /\ a \o b \o c \in Seq(S) /\ Len(a \o b \o c) = Len(a) + Len(b) + Len(c)
        /\ \A i \in 1..Len(a) : (a \o b \o c)[i] = a[i]
        /\ \A i \in 1..Len(b) : (a \o b \o c)[Len(a) + i] = b[i]
        /\ \A i \in 1..Len(c) : (a \o b \o c)[Len(a) + Len(b) + i] = c[i]
    <2>1. a \in Seq(S) /\ b \in Seq(S) /\ c \in Seq(S)
          BY <1>2, <1>3, <1>4
    <2> QED BY <2>1, Joined
  <1>6. Spliced(s, f, l, x) = a \o b \o c
        BY DEF Spliced, a, b, c
  <1> DEFINE m == a \o b \o c
  <1> HIDE DEF m
  <1>7. /\ m \in Seq(S) /\ Len(m) = Len(s) - l + f
        BY <1>1, <1>2, <1>3, <1>4, <1>5 DEF m
  <1>8. \A i \in 1..(f - 1) : m[i] = s[i]
        BY <1>2, <1>5 DEF m
  <1>9. m[f] = x
    <2>1. 1 \in 1..Len(b) /\ Len(a) + 1 = f
          BY <1>1, <1>2, <1>4
    <2>2. m[Len(a) + 1] = b[1]
          BY <1>5, <2>1 DEF m
    <2> QED BY <1>4, <2>1, <2>2
  <1>10. ASSUME NEW i \in (l + 1)..Len(s)
         PROVE  m[i - l + f] = s[i]
    <2>1. i - l \in 1..Len(c) /\ Len(a) + Len(b) + (i - l) = i - l + f /\ l + (i - l) = i
          BY <1>1, <1>2, <1>3, <1>4
    <2>2. m[Len(a) + Len(b) + (i - l)] = c[i - l]
          BY <1>5, <2>1 DEF m
    <2>3. c[i - l] = s[l + (i - l)]
          BY <1>3, <2>1
    <2> QED BY <2>1, <2>2, <2>3
  <1> QED BY <1>6, <1>7, <1>8, <1>9, <1>10 DEF m

\* An edit that does what those it replaces did, and g more, moves all behind it by g more.
LEMMA SplicedShifts ==
  ASSUME NEW edits \in Edits, NEW x \in EditRecord, NEW g \in Int,
         NEW f \in 1..(Len(edits) + 1), NEW l \in (f - 1)..Len(edits),
         Shifts(edits)[f - 1] + Growth(x) = Shifts(edits)[l] + g
  PROVE  /\ Spliced(edits, f, l, x) \in Edits
         /\ \A i \in 0..(f - 1) : Shifts(Spliced(edits, f, l, x))[i] = Shifts(edits)[i]
         /\ \A i \in l..Len(edits) :
               Shifts(Spliced(edits, f, l, x))[i - l + f] = Shifts(edits)[i] + g
  <1> DEFINE n == Len(edits)
             d == Shifts(edits)
             m == Spliced(edits, f, l, x)
             h == [i \in 0..Len(m) |-> IF i < f THEN d[i] ELSE d[i - f + l] + g]
  <1>1. n \in Nat /\ edits \in Seq(EditRecord)
        BY EditsAre DEF Edits, EditRecord
  <1>2. /\ m \in Seq(EditRecord) /\ Len(m) = n - l + f
        /\ \A i \in 1..(f - 1) : m[i] = edits[i]
        /\ m[f] = x
        /\ \A i \in (l + 1)..n : m[i - l + f] = edits[i]
        BY <1>1, SplicedIs
  <1>3. m \in Edits
        BY <1>2 DEF Edits, EditRecord
  <1>4. /\ d \in [0..n -> Int] /\ d[0] = 0
        /\ \A i \in 1..n : d[i] = d[i - 1] + Growth(edits[i])
        BY ShiftsAre
  <1>5. f \in 1..(n + 1) /\ l \in (f - 1)..n /\ d[f - 1] + Growth(x) = d[l] + g
        OBVIOUS
  <1> HIDE DEF n, d, m
  <1>6. h[0] = 0
        BY <1>1, <1>2, <1>4, <1>5
  <1>7. ASSUME NEW i \in 1..Len(m)
        PROVE  h[i] = h[i - 1] + Growth(m[i])
    <2>1. i \in 0..Len(m) /\ i - 1 \in 0..Len(m) /\ Len(m) = n - l + f
          BY <1>1, <1>2, <1>5
    <2>2. CASE i < f
      <3>1. i \in 1..n /\ i - 1 < f /\ i \in 1..(f - 1)
            BY <1>1, <1>5, <2>2
      <3>2. h[i] = d[i] /\ h[i - 1] = d[i - 1]
            BY <2>1, <2>2, <3>1
      <3>3. m[i] = edits[i] /\ d[i] = d[i - 1] + Growth(edits[i])
            BY <1>2, <1>4, <3>1
      <3> HIDE DEF h
      <3> QED BY <3>2, <3>3
    <2>3. CASE i = f
      <3>1. i - 1 < f /\ ~(i < f) /\ i - f + l = l
            BY <1>1, <1>5, <2>3
      <3>2. h[i] = d[l] + g /\ h[i - 1] = d[f - 1]
            BY <2>1, <2>3, <3>1
      <3>3. m[i] = x
            BY <1>2, <2>3
      <3> HIDE DEF h
      <3> QED BY <1>5, <3>2, <3>3
    <2>4. CASE i > f
      <3> DEFINE j == i - f + l
      <3>1. j \in (l + 1)..n /\ j \in 1..n /\ j - l + f = i /\ i - 1 - f + l = j - 1 /\ ~(i < f) /\ ~(i - 1 < f)
            BY <1>1, <1>5, <2>1, <2>4
      <3>2. h[i] = d[j] + g /\ h[i - 1] = d[j - 1] + g
            BY <2>1, <3>1
      <3>3. m[i] = edits[j] /\ d[j] = d[j - 1] + Growth(edits[j])
            BY <1>2, <1>4, <3>1
      <3>4. d[j - 1] \in Int /\ d[j] \in Int
            BY <1>1, <1>4, <3>1
      <3>5. Growth(edits[j]) \in Int
            BY <3>1, EditsAre DEF n
      <3> HIDE DEF h, j
      <3> QED BY <3>2, <3>3, <3>4, <3>5
    <2> QED BY <1>5, <2>1, <2>2, <2>3, <2>4
  <1>8. h = Shifts(m)
    <2>1. DOMAIN h = 0..Len(m) /\ h = [i \in DOMAIN h |-> h[i]]
          OBVIOUS
    <2> HIDE DEF h
    <2> QED BY <1>3, <1>6, <1>7, <2>1, ShiftsOnly
  <1>9. ASSUME NEW i \in 0..(f - 1)
        PROVE  h[i] = d[i]
    <2>1. i \in 0..Len(m) /\ i < f
          BY <1>1, <1>2, <1>5
    <2> QED BY <2>1
  <1>10. ASSUME NEW i \in l..n
         PROVE  h[i - l + f] = d[i] + g
    <2>1. i - l + f \in 0..Len(m) /\ ~(i - l + f < f) /\ i - l + f - f + l = i
          BY <1>1, <1>2, <1>5
    <2> QED BY <2>1
  <1> HIDE DEF h
  <1> QED BY <1>3, <1>8, <1>9, <1>10 DEF n, d, m

-----------------------------------------------------------------------------
(* What an edit list says of two texts.                                    *)

\* The list reads in base coordinates, each edit strictly behind the last,
Normal(base, edits) ==
    /\ \A i \in 1..Len(edits) : edits[i].start <= edits[i].end /\ edits[i].end <= Len(base)
    /\ \A i, j \in 1..Len(edits) : i < j => edits[i].end < edits[j].start

\* and so it does in the new text.
Placed(edits, t) ==
    /\ \A i \in 1..Len(edits) : 0 <= PendingStart(edits, i) /\ PendingEnd(edits, i) <= Len(t)
    /\ \A i, j \in 1..Len(edits) : i < j => PendingEnd(edits, i) < PendingStart(edits, j)

\* The base byte is behind the first i edits and before the others.
Between(edits, i, b) ==
    /\ \A j \in 1..i : edits[j].end < b
    /\ \A j \in (i + 1)..Len(edits) : b <= edits[j].start

\* The new text has the new bytes where the edits are, and the old ones between them.
HasNew(edits, t) ==
    \A i \in 1..Len(edits) : \A k \in 1..Len(edits[i].new) :
        t[PendingStart(edits, i) + k] = edits[i].new[k]
HasOld(base, edits, t) ==
    \A i \in 0..Len(edits) : \A b \in 1..Len(base) :
        Between(edits, i, b) => t[b + Shifts(edits)[i]] = base[b]

Explains(base, edits, t) ==
    /\ base \in Text /\ edits \in Edits /\ t \in Text
    /\ Normal(base, edits) /\ Placed(edits, t)
    /\ Len(t) = Len(base) + Shifts(edits)[Len(edits)]
    /\ HasNew(edits, t) /\ HasOld(base, edits, t)

\* A text with a piece replaced, by its places.
LEMMA ReplacedIs ==
  ASSUME NEW t \in Text, NEW s \in 0..Len(t), NEW e \in s..Len(t), NEW new \in Text
  PROVE  /\ Replace(t, s, e, new) \in Text /\ Len(new) \in Nat /\ Len(t) \in Nat
         /\ Len(Replace(t, s, e, new)) = Len(t) + (Len(new) - (e - s))
         /\ \A i \in 1..s : Replace(t, s, e, new)[i] = t[i]
         /\ \A i \in 1..Len(new) : Replace(t, s, e, new)[s + i] = new[i]
         /\ \A i \in (e + 1)..Len(t) : Replace(t, s, e, new)[i + (Len(new) - (e - s))] = t[i]
  <1> DEFINE a == Slice(t, 0, s)
             c == Slice(t, e, Len(t))
             u == a \o new \o c
  <1>1. t \in Seq(Bytes) /\ new \in Seq(Bytes) /\ Len(t) \in Nat /\ Len(new) \in Nat
        BY DEF Text
  <1>2. a \in Seq(Bytes) /\ Len(a) = s /\ \A i \in 1..s : a[i] = t[i]
    <2>1. 0 \in 0..Len(t) /\ s \in 0..Len(t) /\ s - 0 = s /\ \A i \in 1..s : 0 + i = i
          BY <1>1
    <2>2. a \in Seq(Bytes) /\ Len(a) = s - 0 /\ \A i \in 1..(s - 0) : a[i] = t[0 + i]
          BY <1>1, <2>1, Pieces
    <2> HIDE DEF a
    <2> QED BY <2>1, <2>2
  <1>3. c \in Seq(Bytes) /\ Len(c) = Len(t) - e /\ \A i \in 1..(Len(t) - e) : c[i] = t[e + i]
    <2>1. e \in 0..Len(t) /\ Len(t) \in e..Len(t)
          BY <1>1
    <2> QED BY <1>1, <2>1, Pieces
  <1> HIDE DEF a, c
  <1>4. /\ u \in Seq(Bytes) /\ Len(u) = Len(a) + Len(new) + Len(c)
        /\ \A i \in 1..Len(a) : u[i] = a[i]
        /\ \A i \in 1..Len(new) : u[Len(a) + i] = new[i]
        /\ \A i \in 1..Len(c) : u[Len(a) + Len(new) + i] = c[i]
    <2>1. a \in Seq(Bytes) /\ new \in Seq(Bytes) /\ c \in Seq(Bytes)
          BY <1>1, <1>2, <1>3
    <2> QED BY <2>1, Joined
  <1>5. Replace(t, s, e, new) = u
        BY DEF Replace, a, c
  <1> HIDE DEF u
  <1>6. Len(u) = Len(t) + (Len(new) - (e - s))
        BY <1>1, <1>2, <1>3, <1>4
  <1>7. ASSUME NEW i \in (e + 1)..Len(t)
        PROVE  u[i + (Len(new) - (e - s))] = t[i]
    <2>1. i - e \in 1..Len(c) /\ Len(a) + Len(new) + (i - e) = i + (Len(new) - (e - s)) /\ e + (i - e) = i
          BY <1>1, <1>2, <1>3
    <2>2. u[Len(a) + Len(new) + (i - e)] = c[i - e] /\ c[i - e] = t[e + (i - e)]
          BY <1>3, <1>4, <2>1
    <2> QED BY <2>1, <2>2
  <1>8. \A i \in 1..s : u[i] = t[i]
        BY <1>2, <1>4
  <1>9. \A i \in 1..Len(new) : u[s + i] = new[i]
        BY <1>2, <1>4
  <1> QED BY <1>1, <1>4, <1>5, <1>6, <1>7, <1>8, <1>9 DEF Text

\* The bytes of a merged edit are those of the new text at its place.
LEMMA MergedNew ==
  ASSUME NEW t \in Text, NEW s \in 0..Len(t), NEW e \in s..Len(t), NEW new \in Text,
         NEW from \in 0..s, NEW to \in e..Len(t)
  PROVE  LET x == Slice(t, from, s) \o new \o Slice(t, e, to) IN
         /\ x \in Text /\ Len(x) = (s - from) + Len(new) + (to - e)
         /\ \A k \in 1..Len(x) : Replace(t, s, e, new)[from + k] = x[k]
  <1> DEFINE a == Slice(t, from, s)
             c == Slice(t, e, to)
             x == a \o new \o c
             u == Replace(t, s, e, new)
  <1>1. /\ u \in Text /\ Len(new) \in Nat /\ Len(t) \in Nat
        /\ Len(u) = Len(t) + (Len(new) - (e - s))
        /\ \A i \in 1..s : u[i] = t[i]
        /\ \A i \in 1..Len(new) : u[s + i] = new[i]
        /\ \A i \in (e + 1)..Len(t) : u[i + (Len(new) - (e - s))] = t[i]
        BY ReplacedIs
  <1>2. t \in Seq(Bytes) /\ new \in Seq(Bytes)
        BY DEF Text
  <1>3. a \in Seq(Bytes) /\ Len(a) = s - from /\ \A i \in 1..(s - from) : a[i] = t[from + i]
    <2>1. from \in 0..Len(t) /\ s \in from..Len(t)
          BY <1>1
    <2> QED BY <1>2, <2>1, Pieces
  <1>4. c \in Seq(Bytes) /\ Len(c) = to - e /\ \A i \in 1..(to - e) : c[i] = t[e + i]
    <2>1. e \in 0..Len(t) /\ to \in e..Len(t)
          BY <1>1
    <2> QED BY <1>2, <2>1, Pieces
  <1> HIDE DEF a, c
  <1>5. /\ x \in Seq(Bytes) /\ Len(x) = Len(a) + Len(new) + Len(c)
        /\ \A i \in 1..Len(a) : x[i] = a[i]
        /\ \A i \in 1..Len(new) : x[Len(a) + i] = new[i]
        /\ \A i \in 1..Len(c) : x[Len(a) + Len(new) + i] = c[i]
    <2>1. a \in Seq(Bytes) /\ new \in Seq(Bytes) /\ c \in Seq(Bytes)
          BY <1>2, <1>3, <1>4
    <2> QED BY <2>1, Joined
  <1> HIDE DEF x, u
  <1>6. ASSUME NEW k \in 1..Len(x)
        PROVE  u[from + k] = x[k]
    <2>1. CASE k <= s - from
      <3>1. k \in 1..(s - from) /\ k \in 1..Len(a) /\ from + k \in 1..s
            BY <1>1, <1>3, <2>1, SMTT(30)
      <3> QED BY <1>1, <1>3, <1>5, <3>1
    <2>2. CASE k > s - from /\ k <= s - from + Len(new)
      <3> DEFINE j == k - (s - from)
      <3>1. j \in 1..Len(new) /\ Len(a) + j = k /\ s + j = from + k
            BY <1>1, <1>3, <2>2
      <3>2. x[Len(a) + j] = new[j] /\ u[s + j] = new[j]
            BY <1>1, <1>5, <3>1
      <3> HIDE DEF j
      <3> QED BY <3>1, <3>2
    <2>3. CASE k > s - from + Len(new)
      <3> DEFINE j == k - (s - from) - Len(new)
      <3>1. j \in 1..Len(c) /\ j \in 1..(to - e) /\ Len(a) + Len(new) + j = k
            BY <1>1, <1>3, <1>4, <1>5, <2>3
      <3>2. e + j \in (e + 1)..Len(t) /\ e + j + (Len(new) - (e - s)) = from + k
            BY <1>1, <1>3, <3>1, SMTT(30)
      <3>3. x[Len(a) + Len(new) + j] = c[j] /\ c[j] = t[e + j]
            BY <1>4, <1>5, <3>1
      <3>4. u[e + j + (Len(new) - (e - s))] = t[e + j]
            BY <1>1, <3>2
      <3> HIDE DEF j
      <3> QED BY <3>1, <3>2, <3>3, <3>4
    <2>4. k \in Nat /\ Len(new) \in Nat
          BY <1>1
    <2> QED BY <2>1, <2>2, <2>3, <2>4
  <1>7. x \in Text /\ Len(x) = (s - from) + Len(new) + (to - e)
        BY <1>3, <1>4, <1>5 DEF Text
  <1> QED BY <1>6, <1>7 DEF a, c, x, u

\* The parts of Explains, and the places of its edits.
LEMMA ExplainsIs ==
  ASSUME NEW base, NEW edits, NEW t, Explains(base, edits, t)
  PROVE  /\ base \in Text /\ edits \in Edits /\ t \in Text
         /\ Len(base) \in Nat /\ Len(t) \in Nat /\ Len(edits) \in Nat
         /\ Normal(base, edits) /\ Placed(edits, t)
         /\ Len(t) = Len(base) + Shifts(edits)[Len(edits)]
         /\ HasNew(edits, t) /\ HasOld(base, edits, t)
         /\ Shifts(edits) \in [0..Len(edits) -> Int] /\ Shifts(edits)[0] = 0
         /\ \A i \in 1..Len(edits) :
               /\ PendingStart(edits, i) \in Int /\ PendingEnd(edits, i) \in Int
               /\ PendingStart(edits, i) = edits[i].start + Shifts(edits)[i - 1]
               /\ PendingEnd(edits, i) = edits[i].end + Shifts(edits)[i]
               /\ PendingEnd(edits, i) = PendingStart(edits, i) + Len(edits[i].new)
               /\ PendingStart(edits, i) <= PendingEnd(edits, i)
               /\ edits[i].start \in Nat /\ edits[i].end \in Nat /\ edits[i].new \in Text
               /\ Len(edits[i].new) \in Nat
  <1>1. /\ base \in Text /\ edits \in Edits /\ t \in Text
        /\ Normal(base, edits) /\ Placed(edits, t)
        /\ Len(t) = Len(base) + Shifts(edits)[Len(edits)]
        /\ HasNew(edits, t) /\ HasOld(base, edits, t)
        BY DEF Explains
  <1>2. Len(base) \in Nat /\ Len(t) \in Nat
        BY <1>1 DEF Text
  <1>3. Len(edits) \in Nat /\ Shifts(edits) \in [0..Len(edits) -> Int] /\ Shifts(edits)[0] = 0
        BY <1>1, EditsAre, ShiftsAre
  <1> QED BY <1>1, <1>2, <1>3, EditsAre, PendingAt

\* Where a base byte between the edits is in the new text.
LEMMA BetweenPlace ==
  ASSUME NEW base, NEW edits, NEW t, Explains(base, edits, t),
         NEW i \in 0..Len(edits), NEW b \in 1..Len(base), Between(edits, i, b)
  PROVE  /\ b + Shifts(edits)[i] \in 1..Len(t) /\ t[b + Shifts(edits)[i]] = base[b]
         /\ Shifts(edits)[i] \in Int
         /\ \A j \in 1..i : PendingEnd(edits, j) < b + Shifts(edits)[i]
         /\ \A j \in (i + 1)..Len(edits) : b + Shifts(edits)[i] <= PendingStart(edits, j)
  <1> DEFINE n == Len(edits)
             d == Shifts(edits)
             c == b + d[i]
  <1>1. /\ Len(base) \in Nat /\ Len(t) \in Nat /\ n \in Nat
        /\ Len(t) = Len(base) + d[n] /\ d \in [0..n -> Int] /\ d[0] = 0
        BY ExplainsIs
  <1>2. \A j \in 1..n :
          /\ PendingStart(edits, j) \in Int /\ PendingEnd(edits, j) \in Int
          /\ PendingStart(edits, j) = edits[j].start + d[j - 1]
          /\ PendingEnd(edits, j) = edits[j].end + d[j]
          /\ PendingStart(edits, j) <= PendingEnd(edits, j)
          /\ edits[j].start \in Nat /\ edits[j].end \in Nat
          /\ Len(edits[j].new) \in Nat
        BY ExplainsIs
  <1>3. /\ \A j \in 1..n : 0 <= PendingStart(edits, j) /\ PendingEnd(edits, j) <= Len(t)
        /\ \A j, k \in 1..n : j < k => PendingEnd(edits, j) < PendingStart(edits, k)
    <2>1. Placed(edits, t)
          BY ExplainsIs
    <2> QED BY <2>1 DEF Placed
  <1>4. t[c] = base[b]
    <2>1. HasOld(base, edits, t)
          BY ExplainsIs
    <2> QED BY <2>1 DEF HasOld
  <1>5. /\ \A j \in 1..i : edits[j].end < b
        /\ \A j \in (i + 1)..n : b <= edits[j].start
        BY DEF Between
  <1>6. i \in 0..n /\ i \in Nat /\ b \in Int /\ b >= 1 /\ b <= Len(base)
        BY <1>1
  <1>7. d[i] \in Int /\ d[n] \in Int
        BY <1>1
  <1>8. c \in Int /\ c = b + d[i]
        BY <1>6, <1>7
  <1> HIDE DEF n, d, c
  <1>9. ASSUME NEW j \in 1..i
        PROVE  PendingEnd(edits, j) < c
    <2>1. i \in 1..n /\ i \in 1..i /\ j \in 1..n
          BY <1>1, <1>6
    <2>2. PendingEnd(edits, i) = edits[i].end + d[i] /\ edits[i].end < b /\ edits[i].end \in Int
          BY <1>2, <1>5, <2>1
    <2>3. PendingEnd(edits, i) < c
          BY <1>6, <1>7, <1>8, <2>2
    <2>4. PendingEnd(edits, i) \in Int /\ PendingEnd(edits, j) \in Int /\ PendingStart(edits, i) \in Int
          BY <1>2, <2>1
    <2>5. PendingStart(edits, i) <= PendingEnd(edits, i)
          BY <1>2, <2>1
    <2>6. CASE j = i
          BY <2>3, <2>6
    <2>7. CASE j # i
      <3>1. PendingEnd(edits, j) < PendingStart(edits, i)
            BY <1>3, <1>6, <2>1, <2>7
      <3> QED BY <1>8, <2>3, <2>4, <2>5, <3>1
    <2> QED BY <2>6, <2>7
  <1>10. ASSUME NEW j \in (i + 1)..n
         PROVE  c <= PendingStart(edits, j)
    <2> DEFINE k == i + 1
    <2>1. k \in 1..n /\ k \in (i + 1)..n /\ j \in 1..n /\ k - 1 = i
          BY <1>1, <1>6
    <2> HIDE DEF k
    <2>2. PendingStart(edits, k) = edits[k].start + d[k - 1] /\ b <= edits[k].start /\ edits[k].start \in Int
          BY <1>2, <1>5, <2>1
    <2>3. c <= PendingStart(edits, k)
          BY <1>6, <1>7, <1>8, <2>1, <2>2, SMTT(30)
    <2>4. PendingEnd(edits, k) \in Int /\ PendingStart(edits, j) \in Int /\ PendingStart(edits, k) \in Int
          BY <1>2, <2>1
    <2>5. PendingStart(edits, k) <= PendingEnd(edits, k)
          BY <1>2, <2>1
    <2>6. CASE j = k
          BY <2>3, <2>6
    <2>7. CASE j # k
      <3>1. k < j
            BY <1>6, <2>1, <2>7 DEF k
      <3>2. PendingEnd(edits, k) < PendingStart(edits, j)
            BY <1>3, <2>1, <3>1
      <3> QED BY <1>8, <2>3, <2>4, <2>5, <3>2
    <2> QED BY <2>6, <2>7
  <1>11. c >= 1
    <2>1. CASE i = 0
          BY <1>1, <1>6, <1>8, <2>1
    <2>2. CASE i # 0
      <3>1. i \in 1..i /\ i \in 1..n
            BY <1>6, <2>2
      <3>2. PendingEnd(edits, i) < c /\ 0 <= PendingStart(edits, i)
            BY <1>3, <1>9, <3>1
      <3>3. PendingEnd(edits, i) \in Int /\ PendingStart(edits, i) <= PendingEnd(edits, i) /\ PendingStart(edits, i) \in Int
            BY <1>2, <3>1
      <3> QED BY <1>8, <3>2, <3>3
    <2> QED BY <2>1, <2>2
  <1>12. c <= Len(t)
    <2>1. CASE i = n
      <3>1. c = b + d[n]
            BY <1>8, <2>1
      <3> QED BY <1>1, <1>6, <1>7, <3>1
    <2>2. CASE i # n
      <3>1. i + 1 \in (i + 1)..n /\ i + 1 \in 1..n
            BY <1>1, <1>6, <2>2
      <3>2. c <= PendingStart(edits, i + 1) /\ PendingEnd(edits, i + 1) <= Len(t)
            BY <1>3, <1>10, <3>1
      <3>3. /\ PendingEnd(edits, i + 1) \in Int /\ PendingStart(edits, i + 1) \in Int
            /\ PendingStart(edits, i + 1) <= PendingEnd(edits, i + 1)
            BY <1>2, <3>1
      <3> QED BY <1>1, <1>8, <3>2, <3>3
    <2> QED BY <2>1, <2>2
  <1>13. c \in 1..Len(t)
        BY <1>1, <1>8, <1>11, <1>12
  <1> QED BY <1>4, <1>7, <1>9, <1>10, <1>13 DEF n, d, c

\* The edits f..l lie within from..to of the pending text, and no other touches it.
Encloses(edits, f, l, from, to) ==
    /\ f \in 1..(Len(edits) + 1) /\ l \in (f - 1)..Len(edits)
    /\ \A j \in 1..(f - 1) : PendingEnd(edits, j) < from
    /\ \A j \in f..Len(edits) : from <= PendingStart(edits, j)
    /\ \A j \in 1..l : PendingEnd(edits, j) <= to
    /\ \A j \in (l + 1)..Len(edits) : to < PendingStart(edits, j)

\* And in the base revision within a..z.
EnclosesBase(edits, f, l, a, z) ==
    /\ \A j \in 1..(f - 1) : edits[j].end < a
    /\ \A j \in f..Len(edits) : a <= edits[j].start
    /\ \A j \in 1..l : edits[j].end <= z
    /\ \A j \in (l + 1)..Len(edits) : z < edits[j].start

\* The numbers of a merged edit: where it begins and ends in the base revision, by
\* how much it grows, and that it lies between the edits it leaves alone.
LEMMA MergedRange ==
  ASSUME NEW base, NEW edits, NEW t, Explains(base, edits, t),
         NEW f, NEW l, NEW from \in Nat, NEW to \in from..Len(t), Encloses(edits, f, l, from, to),
         NEW a, a = from - Shifts(edits)[f - 1], NEW z, z = to - Shifts(edits)[l]
  PROVE  /\ a \in Nat /\ z \in Nat /\ a <= z /\ z <= Len(base)
         /\ EnclosesBase(edits, f, l, a, z)
  <1> DEFINE n == Len(edits)
             d == Shifts(edits)
  <1>1. /\ n \in Nat /\ Len(base) \in Nat /\ Len(t) \in Nat
        /\ d \in [0..n -> Int] /\ d[0] = 0 /\ Len(t) = Len(base) + d[n]
        BY ExplainsIs
  <1>2. \A i \in 1..n :
           /\ PendingStart(edits, i) = edits[i].start + d[i - 1]
           /\ PendingEnd(edits, i) = edits[i].end + d[i]
           /\ edits[i].start \in Nat /\ edits[i].end \in Nat
           /\ edits[i].start <= edits[i].end /\ edits[i].end <= Len(base)
    <2>1. Normal(base, edits)
          BY ExplainsIs
    <2> QED BY <2>1, ExplainsIs, SMTT(30) DEF Normal
  <1>3. \A i, j \in 1..n : i < j => edits[i].end < edits[j].start
    <2>1. Normal(base, edits)
          BY ExplainsIs
    <2> QED BY <2>1 DEF Normal
  <1>4. f \in 1..(n + 1) /\ l \in (f - 1)..n
        BY DEF Encloses
  <1>5. a = from - d[f - 1] /\ d[f - 1] \in Int /\ from \in Int /\ a \in Int
    <2>1. f - 1 \in 0..n
          BY <1>1, <1>4
    <2>2. a = from - d[f - 1] /\ d[f - 1] \in Int
          BY <1>1, <2>1
    <2> QED BY <2>2
  <1>6. z = to - d[l] /\ d[l] \in Int /\ to \in Int /\ z \in Int
    <2>1. l \in 0..n
          BY <1>1, <1>4
    <2>2. z = to - d[l] /\ d[l] \in Int
          BY <1>1, <2>1
    <2> QED BY <2>2
  <1>7. /\ \A j \in 1..(f - 1) : PendingEnd(edits, j) < from
        /\ \A j \in f..n : from <= PendingStart(edits, j)
        /\ \A j \in 1..l : PendingEnd(edits, j) <= to
        /\ \A j \in (l + 1)..n : to < PendingStart(edits, j)
        BY DEF Encloses
  <1>8. a \in Int /\ z \in Int
        BY <1>5, <1>6
  <1> HIDE DEF n, d
  <1>9. ASSUME NEW j \in 1..(f - 1)
        PROVE  edits[j].end < a
    <2>1. f - 1 \in 1..n /\ f - 1 \in 1..(f - 1) /\ j \in 1..n
          BY <1>1, <1>4
    <2>2. /\ edits[j].start \in Nat /\ edits[j].end \in Nat
          /\ edits[f - 1].start \in Nat /\ edits[f - 1].end \in Nat
          /\ edits[f - 1].start <= edits[f - 1].end /\ edits[j].start <= edits[j].end
          BY <1>2, <2>1
    <2>3. edits[f - 1].end + d[f - 1] < from
          BY <1>2, <1>7, <2>1
    <2>4. edits[f - 1].end < a
          BY ONLY <1>5, <2>2, <2>3
    <2>5. j = f - 1 \/ edits[j].end < edits[f - 1].start
          BY <1>3, <2>1
    <2> QED BY ONLY <1>8, <2>2, <2>4, <2>5
  <1>10. ASSUME NEW j \in f..n
        PROVE  a <= edits[j].start
    <2>1. f \in 1..n /\ f \in f..n /\ j \in 1..n
          BY <1>1, <1>4
    <2>2. /\ edits[j].start \in Nat /\ edits[j].end \in Nat
          /\ edits[f].start \in Nat /\ edits[f].end \in Nat
          /\ edits[f].start <= edits[f].end /\ edits[j].start <= edits[j].end
          BY <1>2, <2>1
    <2>3. from <= edits[f].start + d[f - 1]
          BY <1>2, <1>7, <2>1
    <2>4. a <= edits[f].start
          BY ONLY <1>5, <2>2, <2>3
    <2>5. j = f \/ edits[f].end < edits[j].start
          BY <1>3, <2>1
    <2> QED BY ONLY <1>8, <2>2, <2>4, <2>5
  <1>11. ASSUME NEW j \in 1..l
        PROVE  edits[j].end <= z
    <2>1. l \in 1..n /\ l \in 1..l /\ j \in 1..n
          BY <1>1, <1>4
    <2>2. /\ edits[j].start \in Nat /\ edits[j].end \in Nat
          /\ edits[l].start \in Nat /\ edits[l].end \in Nat
          /\ edits[l].start <= edits[l].end /\ edits[j].start <= edits[j].end
          BY <1>2, <2>1
    <2>3. edits[l].end + d[l] <= to
          BY <1>2, <1>7, <2>1
    <2>4. edits[l].end <= z
          BY ONLY <1>6, <2>2, <2>3
    <2>5. j = l \/ edits[j].end < edits[l].start
          BY <1>3, <2>1
    <2> QED BY ONLY <1>8, <2>2, <2>4, <2>5
  <1>12. ASSUME NEW j \in (l + 1)..n
        PROVE  z < edits[j].start
    <2>1. l + 1 \in 1..n /\ l + 1 \in (l + 1)..n /\ j \in 1..n /\ l + 1 - 1 = l
          BY <1>1, <1>4
    <2>2. /\ edits[j].start \in Nat /\ edits[j].end \in Nat
          /\ edits[l + 1].start \in Nat /\ edits[l + 1].end \in Nat
          /\ edits[l + 1].start <= edits[l + 1].end /\ edits[j].start <= edits[j].end
          BY <1>2, <2>1
    <2>3. to < edits[l + 1].start + d[l]
      <3> DEFINE k == l + 1
      <3>1. k \in 1..n /\ k - 1 = l
            BY <1>1, <1>4, <2>1
      <3> HIDE DEF k
      <3>2. PendingStart(edits, k) = edits[k].start + d[k - 1]
            BY <1>2, <3>1
      <3>3. PendingStart(edits, l + 1) = edits[l + 1].start + d[l]
            BY <3>1, <3>2, Zenon DEF k
      <3>4. to < PendingStart(edits, l + 1)
            BY <1>7, <2>1
      <3> QED BY <3>3, <3>4
    <2>4. z < edits[l + 1].start
          BY ONLY <1>6, <2>2, <2>3
    <2>5. j = l + 1 \/ edits[l + 1].end < edits[j].start
          BY <1>3, <2>1
    <2> QED BY ONLY <1>8, <2>2, <2>4, <2>5
  <1>13. a >= 0
    <2>1. CASE f = 1
          BY <1>1, <1>5, <2>1
    <2>2. CASE f # 1
      <3>1. f - 1 \in 1..(f - 1) /\ f - 1 \in 1..n
            BY <1>1, <1>4, <2>2
      <3>2. edits[f - 1].end \in Nat /\ edits[f - 1].end < a
            BY <1>2, <1>9, <3>1
      <3> QED BY <1>5, <3>2
    <2> QED BY <2>1, <2>2
  <1>14. a <= z
    <2>1. CASE f = l + 1
      <3>1. f - 1 = l
            BY <1>4, <2>1
      <3>2. a = from - d[l]
            BY <1>5, <3>1
      <3> QED BY <1>5, <1>6, <3>2
    <2>2. CASE f # l + 1
      <3>1. f \in f..n /\ f \in 1..l /\ f \in 1..n
            BY <1>1, <1>4, <2>2
      <3>2. a <= edits[f].start /\ edits[f].end <= z /\ edits[f].start <= edits[f].end
            BY <1>2, <1>10, <1>11, <3>1
      <3>3. edits[f].start \in Nat /\ edits[f].end \in Nat
            BY <1>2, <3>1
      <3> QED BY <1>8, <3>2, <3>3
    <2> QED BY <2>1, <2>2
  <1>15. z <= Len(base)
    <2>1. CASE l = n
          BY <1>1, <1>6, <2>1
    <2>2. CASE l # n
      <3>1. l + 1 \in (l + 1)..n /\ l + 1 \in 1..n
            BY <1>1, <1>4, <2>2
      <3>2. /\ edits[l + 1].start \in Nat /\ edits[l + 1].end \in Nat /\ z < edits[l + 1].start
            /\ edits[l + 1].start <= edits[l + 1].end /\ edits[l + 1].end <= Len(base)
            BY <1>2, <1>12, <3>1
      <3> QED BY <1>1, <1>6, <3>2, SMTT(30)
    <2> QED BY <2>1, <2>2
  <1> QED BY <1>5, <1>6, <1>9, <1>10, <1>11, <1>12, <1>13, <1>14, <1>15 DEF n, EnclosesBase

\* The edit reaches over from..to of the pending text, which gets longer by g.
Replaces(edits, f, l, x, from, to, g) ==
    /\ x.start = from - Shifts(edits)[f - 1]
    /\ x.end = to - Shifts(edits)[l]
    /\ Len(x.new) = (to - from) + g

\* Where the edits of the list m are, in which x has the place of f..l: those before it
\* stay, those behind it move by g.
Took(edits, f, l, x, from, to, g, m) ==
    /\ m \in Edits /\ Len(m) = Len(edits) - l + f
    /\ Shifts(m)[Len(m)] = Shifts(edits)[Len(edits)] + g
    /\ \A i \in 0..(f - 1) : Shifts(m)[i] = Shifts(edits)[i]
    /\ \A i \in l..Len(edits) : Shifts(m)[i - l + f] = Shifts(edits)[i] + g
    /\ \A i \in 1..(f - 1) : /\ m[i] = edits[i]
                             /\ PendingStart(m, i) = PendingStart(edits, i)
                             /\ PendingEnd(m, i) = PendingEnd(edits, i)
    /\ m[f] = x /\ PendingStart(m, f) = from /\ PendingEnd(m, f) = to + g
    /\ \A i \in (l + 1)..Len(edits) :
          /\ m[i - l + f] = edits[i]
          /\ PendingStart(m, i - l + f) = PendingStart(edits, i) + g
          /\ PendingEnd(m, i - l + f) = PendingEnd(edits, i) + g

\* One edit put for f..l of a list leaves the edits before it where they are and moves those
\* behind it by what the text grew.
LEMMA MergedPlaces ==
  ASSUME NEW edits \in Edits, NEW f \in 1..(Len(edits) + 1), NEW l \in (f - 1)..Len(edits),
         NEW x \in EditRecord, NEW g \in Int, NEW from \in Int, NEW to \in Int,
         Replaces(edits, f, l, x, from, to, g)
  PROVE  Took(edits, f, l, x, from, to, g, Spliced(edits, f, l, x))
  <1> DEFINE n == Len(edits)
             d == Shifts(edits)
             m == Spliced(edits, f, l, x)
             D == Shifts(m)
  <1>1. n \in Nat /\ f \in 1..(n + 1) /\ l \in (f - 1)..n /\ edits \in Seq(EditRecord)
        BY EditsAre DEF Edits, EditRecord
  <1>2. d \in [0..n -> Int]
        BY ShiftsAre
  <1>3. d[f - 1] \in Int /\ d[l] \in Int
    <2>1. f - 1 \in 0..n /\ l \in 0..n
          BY <1>1
    <2> HIDE DEF n, d
    <2> QED BY <1>2, <2>1
  <1>4. d[f - 1] + Growth(x) = d[l] + g
    <2>1. Growth(x) = Len(x.new) - (x.end - x.start)
          BY EditIs
    <2>2. x.start = from - d[f - 1]
          BY DEF Replaces
    <2>3. x.end = to - d[l]
          BY DEF Replaces
    <2>4. Len(x.new) = (to - from) + g
          BY DEF Replaces
    <2> DEFINE p == d[f - 1]
               q == d[l]
    <2>5. p \in Int /\ q \in Int
          BY <1>3
    <2>6. x.start = from - p /\ x.end = to - q
          BY <2>2, <2>3
    <2> HIDE DEF p, q
    <2>7. Growth(x) = (to - from) + g - ((to - q) - (from - p))
          BY ONLY <2>1, <2>4, <2>5, <2>6
    <2>8. p + Growth(x) = q + g
          BY ONLY <2>5, <2>7, from \in Int, to \in Int, g \in Int
    <2> QED BY <2>8 DEF p, q
  <1>5. /\ m \in Seq(EditRecord) /\ Len(m) = n - l + f
        /\ \A i \in 1..(f - 1) : m[i] = edits[i]
        /\ m[f] = x
        /\ \A i \in (l + 1)..n : m[i - l + f] = edits[i]
    <2> HIDE DEF n
    <2>1. x \in EditRecord
          OBVIOUS
    <2>2. f \in 1..(Len(edits) + 1) /\ l \in (f - 1)..Len(edits) /\ edits \in Seq(EditRecord)
          BY <1>1 DEF n
    <2> QED BY <2>1, <2>2, SplicedIs DEF n
  <1>6. /\ m \in Edits
        /\ \A i \in 0..(f - 1) : D[i] = d[i]
        /\ \A i \in l..n : D[i - l + f] = d[i] + g
        BY <1>4, SplicedShifts
  <1>7. D[Len(m)] = d[n] + g
    <2>1. n \in l..n
          BY <1>1
    <2> HIDE DEF n, d, m, D
    <2> QED BY <1>5, <1>6, <2>1
  <1>8. \A i \in 1..Len(m) : /\ PendingStart(m, i) = m[i].start + D[i - 1]
                             /\ PendingEnd(m, i) = m[i].end + D[i]
                             /\ PendingEnd(m, i) = PendingStart(m, i) + Len(m[i].new)
        BY <1>6, PendingAt
  <1>9. \A i \in 1..n : /\ PendingStart(edits, i) = edits[i].start + d[i - 1]
                        /\ PendingEnd(edits, i) = edits[i].end + d[i]
                        /\ edits[i].start \in Nat /\ edits[i].end \in Nat
                        /\ d[i - 1] \in Int /\ d[i] \in Int
        BY EditsAre, PendingAt
  <1> HIDE DEF n, d, m, D
  <1>10. ASSUME NEW i \in 1..(f - 1)
         PROVE  PendingStart(m, i) = PendingStart(edits, i) /\ PendingEnd(m, i) = PendingEnd(edits, i)
    <2>1. i \in 1..Len(m) /\ i \in 1..n /\ i \in 0..(f - 1) /\ i - 1 \in 0..(f - 1)
          BY <1>1, <1>5
    <2>2. D[i - 1] = d[i - 1] /\ D[i] = d[i] /\ m[i] = edits[i]
          BY <1>5, <1>6, <2>1
    <2> QED BY <1>8, <1>9, <2>1, <2>2
  <1>11. PendingStart(m, f) = from /\ PendingEnd(m, f) = to + g
    <2>1. f \in 1..Len(m) /\ f - 1 \in 0..(f - 1)
          BY <1>1, <1>5
    <2>2. PendingStart(m, f) = x.start + d[f - 1]
          BY <1>5, <1>6, <1>8, <2>1
    <2>3. x.start = from - d[f - 1]
          BY DEF d, Replaces
    <2>4. PendingStart(m, f) = from
          BY <1>3, <2>2, <2>3
    <2>5. PendingEnd(m, f) = from + Len(x.new) /\ Len(x.new) = (to - from) + g
          BY <1>5, <1>8, <2>1, <2>4 DEF Replaces
    <2>6. from + ((to - from) + g) = to + g
          OBVIOUS
    <2> QED BY <2>4, <2>5, <2>6, Zenon
  <1>12. ASSUME NEW i \in (l + 1)..n
         PROVE  /\ PendingStart(m, i - l + f) = PendingStart(edits, i) + g
                /\ PendingEnd(m, i - l + f) = PendingEnd(edits, i) + g
    <2> DEFINE j == i - l + f
    <2>1. /\ j \in 1..Len(m) /\ i \in 1..n /\ i \in l..n /\ i - 1 \in l..n
          /\ j - 1 = (i - 1) - l + f
      <3>1. i \in Int /\ l \in Int /\ f \in Int /\ l < i /\ i <= n /\ l >= f - 1 /\ f >= 1 /\ Len(m) = n - l + f
            BY <1>1, <1>5
      <3> QED BY <1>1, <3>1
    <2>2. m[j] = edits[i] /\ D[j] = d[i] + g /\ D[j - 1] = d[i - 1] + g
          BY <1>5, <1>6, <2>1
    <2> HIDE DEF j
    <2>3. PendingStart(m, j) = edits[i].start + (d[i - 1] + g) /\ PendingEnd(m, j) = edits[i].end + (d[i] + g)
          BY <1>8, <2>1, <2>2
    <2>4. /\ PendingStart(edits, i) = edits[i].start + d[i - 1]
          /\ PendingEnd(edits, i) = edits[i].end + d[i]
          BY <1>9, <2>1
    <2>5. edits[i].start \in Nat /\ edits[i].end \in Nat /\ d[i - 1] \in Int /\ d[i] \in Int
          BY <1>9, <2>1
    <2> DEFINE a == edits[i].start
               z == edits[i].end
               p == d[i - 1]
               q == d[i]
    <2>6. a \in Int /\ z \in Int /\ p \in Int /\ q \in Int
          BY <2>5
    <2> HIDE DEF a, z, p, q
    <2>7. a + (p + g) = (a + p) + g /\ z + (q + g) = (z + q) + g
          BY ONLY <2>6, g \in Int
    <2>8. PendingStart(m, j) = PendingStart(edits, i) + g /\ PendingEnd(m, j) = PendingEnd(edits, i) + g
          BY <2>3, <2>4, <2>7, Zenon DEF a, z, p, q
    <2> QED BY <2>8 DEF j
  <1> QED BY <1>5, <1>6, <1>7, <1>10, <1>11, <1>12 DEF n, d, m, D, Took

\* One edit folded into a list that explains the text, in place of the edits it
\* overlaps or touches: the list explains the text with that edit.
LEMMA Merged ==
  ASSUME NEW base, NEW edits, NEW t, Explains(base, edits, t),
         NEW s \in 0..Len(t), NEW e \in s..Len(t), NEW new \in Text,
         NEW f, NEW l, NEW from \in 0..s, NEW to \in e..Len(t), Encloses(edits, f, l, from, to),
         NEW x, x = Edit(from - Shifts(edits)[f - 1], to - Shifts(edits)[l],
                         Slice(t, from, s) \o new \o Slice(t, e, to))
  PROVE  Explains(base, Spliced(edits, f, l, x), Replace(t, s, e, new))
  <1> DEFINE n == Len(edits)
             d == Shifts(edits)
             m == Spliced(edits, f, l, x)
             D == Shifts(m)
             u == Replace(t, s, e, new)
             g == Len(new) - (e - s)
             a == x.start
             z == x.end
  <1>1. /\ base \in Text /\ edits \in Edits /\ t \in Text
        /\ Len(base) \in Nat /\ Len(t) \in Nat /\ n \in Nat
        /\ Len(t) = Len(base) + d[n] /\ d \in [0..n -> Int]
        BY ExplainsIs
  <1>2. f \in 1..(n + 1) /\ l \in (f - 1)..n
        BY DEF Encloses
  <1>3. /\ \A j \in 1..(f - 1) : PendingEnd(edits, j) < from
        /\ \A j \in f..n : from <= PendingStart(edits, j)
        /\ \A j \in 1..l : PendingEnd(edits, j) <= to
        /\ \A j \in (l + 1)..n : to < PendingStart(edits, j)
        BY DEF Encloses
  <1>4. s \in Nat /\ e \in Nat /\ from \in Nat /\ to \in Nat /\ from <= s /\ s <= e /\ e <= to /\ to <= Len(t)
        BY <1>1
  <1>5. /\ x.new \in Text /\ Len(x.new) = (s - from) + Len(new) + (to - e)
        /\ \A k \in 1..Len(x.new) : u[from + k] = x.new[k]
    <2> DEFINE y == Slice(t, from, s) \o new \o Slice(t, e, to)
    <2>1. x.new = y
          BY DEF Edit
    <2>2. /\ y \in Text /\ Len(y) = (s - from) + Len(new) + (to - e)
          /\ \A k \in 1..Len(y) : u[from + k] = y[k]
          BY <1>1, MergedNew, ZenonT(60)
    <2> HIDE DEF y, u
    <2> QED BY <2>1, <2>2
  <1>6. /\ u \in Text /\ Len(new) \in Nat /\ Len(u) = Len(t) + g
        /\ \A i \in 1..s : u[i] = t[i]
        /\ \A i \in (e + 1)..Len(t) : u[i + g] = t[i]
        BY <1>1, ReplacedIs, ZenonT(60)
  <1>7. a = from - d[f - 1] /\ z = to - d[l]
        BY DEF Edit
  <1>8. /\ a \in Nat /\ z \in Nat /\ a <= z /\ z <= Len(base)
        /\ \A j \in 1..(f - 1) : edits[j].end < a
        /\ \A j \in f..n : a <= edits[j].start
        /\ \A j \in 1..l : edits[j].end <= z
        /\ \A j \in (l + 1)..n : z < edits[j].start
    <2>1. from \in Nat /\ to \in from..Len(t)
          BY <1>1, <1>4
    <2>2. a = from - Shifts(edits)[f - 1] /\ z = to - Shifts(edits)[l]
          BY <1>7
    <2> HIDE DEF a, z
    <2>3. a \in Nat /\ z \in Nat /\ a <= z /\ z <= Len(base) /\ EnclosesBase(edits, f, l, a, z)
          BY <2>1, <2>2, MergedRange
    <2> QED BY <2>3 DEF EnclosesBase
  <1>9. x \in EditRecord
    <2>1. x = [start |-> a, end |-> z, new |-> x.new]
          BY DEF Edit
    <2> HIDE DEF a, z
    <2> QED BY <1>5, <1>8, <2>1 DEF EditRecord
  <1>10. g \in Int /\ Len(x.new) = (to - from) + g
    <2>1. g \in Int
          BY <1>4, <1>6
    <2> QED BY <1>4, <1>5, <1>6, <2>1
  <1>11. /\ m \in Edits /\ Len(m) = n - l + f
         /\ D[Len(m)] = d[n] + g
         /\ \A i \in 0..(f - 1) : D[i] = d[i]
         /\ \A i \in l..n : D[i - l + f] = d[i] + g
         /\ \A i \in 1..(f - 1) : /\ m[i] = edits[i]
                                  /\ PendingStart(m, i) = PendingStart(edits, i)
                                  /\ PendingEnd(m, i) = PendingEnd(edits, i)
         /\ m[f] = x /\ PendingStart(m, f) = from /\ PendingEnd(m, f) = to + g
         /\ \A i \in (l + 1)..n :
               /\ m[i - l + f] = edits[i]
               /\ PendingStart(m, i - l + f) = PendingStart(edits, i) + g
               /\ PendingEnd(m, i - l + f) = PendingEnd(edits, i) + g
    <2> HIDE DEF g
    <2>1. from \in Int /\ to \in Int
          BY <1>4
    <2>2. Replaces(edits, f, l, x, from, to, g)
          BY <1>7, <1>10 DEF Replaces
    <2>3. edits \in Edits /\ g \in Int
          BY <1>1, <1>10
    <2>4. f \in 1..(Len(edits) + 1) /\ l \in (f - 1)..Len(edits)
          BY <1>2
    <2> HIDE DEF m, D, a, z
    <2>5. Took(edits, f, l, x, from, to, g, Spliced(edits, f, l, x))
          BY <1>9, <2>1, <2>2, <2>3, <2>4, MergedPlaces
    <2> QED BY <2>5 DEF m, D, Took
  <1>12. \A i \in 1..n :
           /\ PendingStart(edits, i) \in Int /\ PendingEnd(edits, i) \in Int
           /\ PendingStart(edits, i) = edits[i].start + d[i - 1]
           /\ PendingEnd(edits, i) = edits[i].end + d[i]
           /\ PendingEnd(edits, i) = PendingStart(edits, i) + Len(edits[i].new)
           /\ PendingStart(edits, i) <= PendingEnd(edits, i)
           /\ edits[i].start \in Nat /\ edits[i].end \in Nat
           /\ Len(edits[i].new) \in Nat
        BY ExplainsIs
  <1>13. /\ \A i \in 1..n : edits[i].start <= edits[i].end /\ edits[i].end <= Len(base)
         /\ \A i, j \in 1..n : i < j => edits[i].end < edits[j].start
    <2>1. Normal(base, edits)
          BY ExplainsIs
    <2> QED BY <2>1 DEF Normal
  <1>14. /\ \A i \in 1..n : 0 <= PendingStart(edits, i) /\ PendingEnd(edits, i) <= Len(t)
         /\ \A i, j \in 1..n : i < j => PendingEnd(edits, i) < PendingStart(edits, j)
    <2>1. Placed(edits, t)
          BY ExplainsIs
    <2> QED BY <2>1 DEF Placed
  <1>15. /\ \A i \in 1..n : \A k \in 1..Len(edits[i].new) : t[PendingStart(edits, i) + k] = edits[i].new[k]
         /\ \A i \in 0..n : \A b \in 1..Len(base) : Between(edits, i, b) => t[b + d[i]] = base[b]
    <2>1. HasNew(edits, t) /\ HasOld(base, edits, t)
          BY ExplainsIs
    <2> QED BY <2>1 DEF HasNew, HasOld
  <1> HIDE DEF n, d, m, D, u, g, a, z
  <1>16. ASSUME NEW i \in 1..Len(m)
         PROVE  i \in 1..(f - 1) \/ i = f \/ \E j \in (l + 1)..n : i = j - l + f
    <2>1. CASE i > f
      <3>1. i + l - f \in (l + 1)..n /\ i = (i + l - f) - l + f
            BY <1>1, <1>2, <1>11, <2>1
      <3> QED BY <3>1
    <2> QED BY <1>2, <2>1
  <1>17. /\ \A i \in 1..(f - 1) : i \in 1..n
         /\ \A i \in (l + 1)..n : i \in 1..n
        BY <1>1, <1>2
  <1>18. x.start = a /\ x.end = z
        BY DEF a, z
  <1>19. Normal(base, m)
    <2>1. ASSUME NEW i \in 1..Len(m)
          PROVE  m[i].start <= m[i].end /\ m[i].end <= Len(base)
      <3>1. CASE i \in 1..(f - 1)
            BY <1>11, <1>13, <1>17, <3>1
      <3>2. CASE i = f
            BY <1>8, <1>11, <1>18, <3>2
      <3>3. ASSUME NEW j \in (l + 1)..n, i = j - l + f
            PROVE  m[i].start <= m[i].end /\ m[i].end <= Len(base)
            BY <1>11, <1>13, <1>17, <3>3
      <3> QED BY <1>16, <3>1, <3>2, <3>3
    <2>2. ASSUME NEW i \in 1..Len(m), NEW k \in 1..Len(m), i < k
          PROVE  m[i].end < m[k].start
      <3>1. CASE k \in 1..(f - 1)
        <4>1. i \in 1..(f - 1)
              BY <1>2, <2>2, <3>1
        <4> QED BY <1>11, <1>13, <1>17, <2>2, <3>1, <4>1
      <3>2. CASE k = f
        <4>1. i \in 1..(f - 1)
              BY <1>2, <2>2, <3>2
        <4> QED BY <1>8, <1>11, <1>18, <3>2, <4>1
      <3>3. ASSUME NEW j \in (l + 1)..n, k = j - l + f
            PROVE  m[i].end < m[k].start
        <4>1. m[k] = edits[j] /\ j \in 1..n
              BY <1>11, <1>17, <3>3
        <4>2. CASE i \in 1..(f - 1)
          <5>1. m[i] = edits[i] /\ i \in 1..n /\ i < j
                BY <1>1, <1>2, <1>11, <1>17, <4>2
          <5> QED BY <1>13, <4>1, <5>1
        <4>3. CASE i = f
              BY <1>8, <1>11, <1>18, <4>1, <4>3
        <4>4. ASSUME NEW h \in (l + 1)..n, i = h - l + f
              PROVE  m[i].end < m[k].start
          <5>1. m[i] = edits[h] /\ h \in 1..n /\ h < j
                BY <1>1, <1>2, <1>11, <1>17, <2>2, <3>3, <4>4
          <5> QED BY <1>13, <4>1, <5>1
        <4> QED BY <1>16, <4>2, <4>3, <4>4
      <3> QED BY <1>16, <3>1, <3>2, <3>3
    <2> QED BY <2>1, <2>2 DEF Normal
  <1>20. /\ \A i \in 1..(f - 1) : PendingEnd(edits, i) < from
         /\ \A i \in (l + 1)..n : to + g < PendingStart(edits, i) + g
         /\ s + Len(new) = e + g /\ from <= to + g /\ to + g <= Len(u)
    <2>1. \A i \in (l + 1)..n : to < PendingStart(edits, i) /\ PendingStart(edits, i) \in Int
          BY <1>3, <1>12, <1>17
    <2>2. s + Len(new) = e + g
          BY <1>4, <1>6 DEF g
    <2>3. \A i \in 1..(f - 1) : PendingEnd(edits, i) < from
          BY <1>3
    <2> HIDE DEF g, u
    <2>4. \A i \in (l + 1)..n : to + g < PendingStart(edits, i) + g
          BY <1>4, <1>10, <2>1
    <2>5. from <= to + g
          BY <1>4, <1>6, <1>10, <2>2
    <2>6. to + g <= Len(u)
      <3>1. Len(t) \in Nat /\ Len(u) = Len(t) + g
            BY <1>1, <1>6
      <3> QED BY <1>4, <1>10, <3>1
    <2> QED BY <2>2, <2>3, <2>4, <2>5, <2>6
  <1>21. Placed(m, u)
    <2>1. ASSUME NEW i \in 1..Len(m)
          PROVE  0 <= PendingStart(m, i) /\ PendingEnd(m, i) <= Len(u)
      <3>1. CASE i \in 1..(f - 1)
        <4>1. /\ PendingStart(m, i) = PendingStart(edits, i) /\ PendingEnd(m, i) = PendingEnd(edits, i)
              /\ 0 <= PendingStart(edits, i) /\ PendingEnd(edits, i) < from /\ PendingEnd(edits, i) \in Int
              BY <1>11, <1>12, <1>14, <1>17, <1>20, <3>1
        <4> QED BY <1>1, <1>4, <1>6, <1>10, <1>20, <4>1
      <3>2. CASE i = f
            BY <1>4, <1>11, <1>20, <3>2
      <3>3. ASSUME NEW j \in (l + 1)..n, i = j - l + f
            PROVE  0 <= PendingStart(m, i) /\ PendingEnd(m, i) <= Len(u)
        <4>1. /\ PendingStart(m, i) = PendingStart(edits, j) + g /\ PendingEnd(m, i) = PendingEnd(edits, j) + g
              /\ to + g < PendingStart(edits, j) + g /\ PendingEnd(edits, j) <= Len(t)
              /\ PendingStart(edits, j) \in Int /\ PendingEnd(edits, j) \in Int
              BY <1>11, <1>12, <1>14, <1>17, <1>20, <3>3
        <4>2. 0 <= PendingStart(edits, j) + g
              BY <1>4, <1>10, <1>20, <4>1
        <4>3. PendingEnd(edits, j) + g <= Len(t) + g
              BY <1>1, <1>10, <4>1
        <4> QED BY <1>6, <4>1, <4>2, <4>3
      <3> QED BY <1>16, <3>1, <3>2, <3>3
    <2>2. ASSUME NEW i \in 1..Len(m), NEW k \in 1..Len(m), i < k
          PROVE  PendingEnd(m, i) < PendingStart(m, k)
      <3>1. CASE k \in 1..(f - 1)
        <4>1. i \in 1..(f - 1)
              BY <1>2, <2>2, <3>1
        <4> QED BY <1>11, <1>14, <1>17, <2>2, <3>1, <4>1
      <3>2. CASE k = f
        <4>1. i \in 1..(f - 1)
              BY <1>2, <2>2, <3>2
        <4> QED BY <1>11, <1>20, <3>2, <4>1
      <3>3. ASSUME NEW j \in (l + 1)..n, k = j - l + f
            PROVE  PendingEnd(m, i) < PendingStart(m, k)
        <4>1. /\ PendingStart(m, k) = PendingStart(edits, j) + g /\ j \in 1..n /\ PendingStart(edits, j) \in Int
              /\ to + g < PendingStart(edits, j) + g
              BY <1>11, <1>12, <1>17, <1>20, <3>3
        <4>2. CASE i \in 1..(f - 1)
          <5>1. /\ PendingEnd(m, i) = PendingEnd(edits, i) /\ PendingEnd(edits, i) \in Int
                /\ PendingEnd(edits, i) < from
                BY <1>11, <1>12, <1>17, <1>20, <4>2
          <5> QED BY <1>4, <1>10, <1>20, <4>1, <5>1
        <4>3. CASE i = f
              BY <1>11, <4>1, <4>3
        <4>4. ASSUME NEW h \in (l + 1)..n, i = h - l + f
              PROVE  PendingEnd(m, i) < PendingStart(m, k)
          <5>1. PendingEnd(m, i) = PendingEnd(edits, h) + g /\ h \in 1..n /\ h < j
                BY <1>1, <1>2, <1>11, <1>17, <2>2, <3>3, <4>4
          <5>2. PendingEnd(edits, h) < PendingStart(edits, j) /\ PendingEnd(edits, h) \in Int
                BY <1>12, <1>14, <4>1, <5>1
          <5> QED BY <1>10, <4>1, <5>1, <5>2
        <4> QED BY <1>16, <4>2, <4>3, <4>4
      <3> QED BY <1>16, <3>1, <3>2, <3>3
    <2> QED BY <2>1, <2>2 DEF Placed
  <1>22. Len(u) = Len(base) + D[Len(m)]
    <2>1. d[n] \in Int
          BY <1>1
    <2> QED BY <1>1, <1>6, <1>10, <1>11, <2>1
  <1>23. HasNew(m, u)
    <2>1. SUFFICES ASSUME NEW i \in 1..Len(m), NEW k \in 1..Len(m[i].new)
                   PROVE  u[PendingStart(m, i) + k] = m[i].new[k]
          BY DEF HasNew
    <2>2. CASE i \in 1..(f - 1)
      <3>1. /\ m[i] = edits[i] /\ PendingStart(m, i) = PendingStart(edits, i) /\ i \in 1..n
            /\ PendingEnd(edits, i) < from
            BY <1>11, <1>17, <1>20, <2>2
      <3>2. /\ PendingStart(edits, i) \in Int /\ 0 <= PendingStart(edits, i)
            /\ PendingEnd(edits, i) = PendingStart(edits, i) + Len(edits[i].new)
            /\ Len(edits[i].new) \in Nat /\ k \in 1..Len(edits[i].new)
            /\ t[PendingStart(edits, i) + k] = edits[i].new[k]
            BY <1>12, <1>14, <1>15, <3>1
      <3>3. PendingStart(edits, i) + k \in 1..s
            BY <1>4, <3>1, <3>2, SMTT(30)
      <3> QED BY <1>6, <3>1, <3>2, <3>3
    <2>3. CASE i = f
          BY <1>5, <1>11, <2>3
    <2>4. ASSUME NEW j \in (l + 1)..n, i = j - l + f
          PROVE  u[PendingStart(m, i) + k] = m[i].new[k]
      <3>1. /\ m[i] = edits[j] /\ PendingStart(m, i) = PendingStart(edits, j) + g /\ j \in 1..n
            /\ to < PendingStart(edits, j)
            BY <1>3, <1>11, <1>17, <2>4
      <3>2. /\ PendingStart(edits, j) \in Int /\ PendingEnd(edits, j) <= Len(t)
            /\ PendingEnd(edits, j) = PendingStart(edits, j) + Len(edits[j].new)
            /\ Len(edits[j].new) \in Nat /\ k \in 1..Len(edits[j].new)
            /\ t[PendingStart(edits, j) + k] = edits[j].new[k]
            BY <1>12, <1>14, <1>15, <3>1
      <3>3. PendingStart(edits, j) + k \in (e + 1)..Len(t)
        <4>1. k \in Nat /\ k >= 1 /\ k <= Len(edits[j].new)
              BY <3>2
        <4>2. PendingStart(edits, j) + k <= Len(t) /\ PendingStart(edits, j) + k \in Int
          <5>1. PendingStart(edits, j) + k <= PendingStart(edits, j) + Len(edits[j].new)
                BY <3>2, <4>1
          <5>2. /\ PendingStart(edits, j) \in Int /\ Len(edits[j].new) \in Int /\ Len(t) \in Int /\ k \in Int
                /\ PendingStart(edits, j) + Len(edits[j].new) <= Len(t)
                BY <1>1, <3>2, <4>1
          <5> QED BY ONLY <5>1, <5>2, SMTT(30)
        <4>3. e + 1 <= PendingStart(edits, j) + k
              BY <1>4, <3>1, <3>2, <4>1
        <4> QED BY <1>1, <1>4, <4>2, <4>3
      <3>4. PendingStart(m, i) + k = PendingStart(edits, j) + k + g
            BY <1>10, <3>1, <3>2
      <3>5. u[PendingStart(edits, j) + k + g] = t[PendingStart(edits, j) + k]
            BY <1>6, <3>3
      <3> QED BY <3>1, <3>2, <3>4, <3>5
    <2> QED BY <1>16, <2>2, <2>3, <2>4
  <1>24. HasOld(base, m, u)
    <2>1. SUFFICES ASSUME NEW i \in 0..Len(m), NEW b \in 1..Len(base), Between(m, i, b)
                   PROVE  u[b + D[i]] = base[b]
          BY DEF HasOld, D
    <2>2. /\ \A j \in 1..i : m[j].end < b
          /\ \A j \in (i + 1)..Len(m) : b <= m[j].start
          BY <2>1 DEF Between
    <2>3. i \in Int /\ b \in Int
          BY <1>1
    <2>4. CASE i < f
      <3>1. i \in 0..(f - 1) /\ i \in 0..n /\ i + 1 \in (i + 1)..Len(m) /\ f >= 1 /\ f \in Int
        <4>1. n \in Int /\ l \in Int /\ f \in Int /\ f >= 1 /\ l >= f - 1 /\ l <= n /\ i >= 0
              BY <1>1, <1>2
        <4>2. Len(m) = n - l + f
              BY <1>11
        <4> QED BY <2>3, <2>4, <4>1, <4>2
      <3>2. ASSUME NEW j \in 1..i
            PROVE  edits[j].end < b
        <4>1. j \in 1..(f - 1)
              BY <1>2, <2>3, <2>4
        <4> QED BY <1>11, <2>2, <4>1
      <3>3. CASE i + 1 = f
        <4>1. b <= a
              BY <1>11, <1>18, <2>2, <3>1, <3>3
        <4>2. ASSUME NEW j \in (i + 1)..n
              PROVE  b <= edits[j].start
          <5>1. a <= edits[j].start /\ edits[j].start \in Int
            <6>1. j \in f..n /\ j \in 1..n
                  BY <1>2, <3>1, <3>3
            <6> QED BY <1>8, <1>12, <6>1
          <5> QED BY <1>8, <2>3, <4>1, <5>1
        <4>3. Between(edits, i, b)
              BY <3>2, <4>2 DEF Between, n
        <4>4. b + d[i] \in 1..Len(t) /\ t[b + d[i]] = base[b] /\ d[i] \in Int
              BY <3>1, <4>3, BetweenPlace, SMTT(30) DEF n, d
        <4>5. i = f - 1
              BY <2>3, <3>1, <3>3
        <4>6. b + d[i] <= from
          <5>1. a = from - d[i]
                BY <1>7, <4>5
          <5> QED BY <1>4, <1>8, <2>3, <4>1, <4>4, <5>1, SMTT(30)
        <4>7. b + d[i] \in 1..s /\ D[i] = d[i]
          <5>1. b + d[i] \in Int /\ b + d[i] >= 1
                BY <1>1, <4>4
          <5>2. b + d[i] <= s
                BY <1>4, <4>6, <5>1
          <5> QED BY <1>4, <1>11, <3>1, <5>1, <5>2
        <4> QED BY <1>6, <4>4, <4>7
      <3>4. CASE i + 1 # f
        <4>1. i + 1 \in 1..(f - 1) /\ i + 1 \in 1..n
              BY <1>2, <1>17, <2>3, <2>4, <3>1, <3>4
        <4>2. b <= edits[i + 1].start
              BY <1>11, <2>2, <3>1, <4>1
        <4>3. ASSUME NEW j \in (i + 1)..n
              PROVE  b <= edits[j].start
          <5>1. j \in 1..n /\ (j = i + 1 \/ i + 1 < j)
                BY <1>1, <2>3, <3>1
          <5>2. CASE j = i + 1
                BY <4>2, <5>2
          <5>3. CASE i + 1 < j
            <6>1. edits[i + 1].start <= edits[i + 1].end /\ edits[i + 1].end < edits[j].start
                  BY <1>13, <4>1, <5>1, <5>3
            <6>2. edits[i + 1].start \in Int /\ edits[i + 1].end \in Int
                  BY <1>12, <4>1
            <6>3. edits[j].start \in Int
                  BY <1>12, <5>1
            <6> QED BY <2>3, <4>2, <6>1, <6>2, <6>3
          <5> QED BY <5>1, <5>2, <5>3
        <4>4. Between(edits, i, b)
              BY <3>2, <4>3 DEF Between, n
        <4>5. /\ b + d[i] \in 1..Len(t) /\ t[b + d[i]] = base[b] /\ d[i] \in Int
              /\ \A j \in (i + 1)..n : b + d[i] <= PendingStart(edits, j)
              BY <3>1, <4>4, BetweenPlace DEF n, d
        <4>6. /\ b + d[i] <= PendingStart(edits, i + 1) /\ PendingEnd(edits, i + 1) < from
              /\ PendingStart(edits, i + 1) <= PendingEnd(edits, i + 1)
              /\ PendingStart(edits, i + 1) \in Int /\ PendingEnd(edits, i + 1) \in Int
          <5>1. i + 1 \in (i + 1)..n
                BY <1>1, <2>3, <4>1
          <5>2. /\ PendingStart(edits, i + 1) \in Int /\ PendingEnd(edits, i + 1) \in Int
                /\ PendingStart(edits, i + 1) <= PendingEnd(edits, i + 1)
                BY <1>12, <4>1
          <5> QED BY <1>20, <4>1, <4>5, <5>1, <5>2
        <4>7. b + d[i] \in 1..s /\ D[i] = d[i]
          <5>1. b + d[i] \in Int /\ b + d[i] >= 1
                BY <1>1, <4>5
          <5>2. b + d[i] <= s
                BY <1>4, <4>6, <5>1
          <5> QED BY <1>4, <1>11, <3>1, <5>1, <5>2
        <4> QED BY <1>6, <4>5, <4>7
      <3> QED BY <3>3, <3>4
    <2>5. CASE i >= f
      <3> DEFINE h == i - f + l
      <3>1. /\ h \in l..n /\ h \in 0..n /\ h - l + f = i /\ h \in Int /\ l \in Int /\ f \in Int
            /\ f \in 1..i
            BY <1>1, <1>2, <1>11, <2>3, <2>5
      <3> HIDE DEF h
      <3>2. z < b
            BY <1>11, <1>18, <2>2, <3>1
      <3>3. ASSUME NEW j \in 1..h
            PROVE  edits[j].end < b
        <4>1. CASE j <= l
          <5>1. j \in 1..l /\ j \in 1..n
                BY <1>1, <1>2, <3>1, <4>1
          <5>2. edits[j].end <= z /\ edits[j].end \in Int
                BY <1>8, <1>12, <5>1
          <5> QED BY <1>8, <2>3, <3>2, <5>2
        <4>2. CASE j > l
          <5>1. j \in (l + 1)..n /\ j - l + f \in 1..i
                BY <1>1, <1>2, <3>1, <4>2
          <5> QED BY <1>11, <2>2, <5>1
        <4> QED BY <3>1, <4>1, <4>2
      <3>4. ASSUME NEW j \in (h + 1)..n
            PROVE  b <= edits[j].start
        <4>1. j \in (l + 1)..n /\ j - l + f \in (i + 1)..Len(m)
          <5>1. j \in Int /\ h + 1 <= j /\ j <= n /\ n \in Int /\ l <= h
                BY <1>1, <3>1
          <5>2. Len(m) = n - l + f
                BY <1>11
          <5> QED BY <3>1, <5>1, <5>2
        <4> QED BY <1>11, <2>2, <4>1
      <3>5. Between(edits, h, b)
            BY <3>3, <3>4 DEF Between, n
      <3>6. /\ b + d[h] \in 1..Len(t) /\ t[b + d[h]] = base[b] /\ d[h] \in Int
            /\ \A j \in 1..h : PendingEnd(edits, j) < b + d[h]
        <4>1. h \in 0..Len(edits)
              BY <3>1 DEF n
        <4>2. /\ b + Shifts(edits)[h] \in 1..Len(t) /\ t[b + Shifts(edits)[h]] = base[b]
              /\ Shifts(edits)[h] \in Int
              /\ \A j \in 1..h : PendingEnd(edits, j) < b + Shifts(edits)[h]
              BY <3>5, <4>1, BetweenPlace, SMTT(30)
        <4> QED BY <4>2 DEF d
      <3>7. to < b + d[h]
        <4>1. CASE h = l
          <5>1. z = to - d[h]
                BY <1>7, <4>1
          <5> QED BY <1>4, <1>8, <2>3, <3>2, <3>6, <5>1, SMTT(30)
        <4>2. CASE h # l
          <5>1. h \in (l + 1)..n /\ h \in 1..h /\ h \in 1..n
                BY <1>1, <1>2, <3>1, <4>2
          <5>2. to < PendingStart(edits, h) /\ PendingEnd(edits, h) < b + d[h]
                BY <1>3, <3>6, <5>1
          <5>3. /\ PendingStart(edits, h) \in Int /\ PendingEnd(edits, h) \in Int
                /\ PendingStart(edits, h) <= PendingEnd(edits, h)
                BY <1>12, <5>1
          <5>4. b + d[h] \in Int
                BY <2>3, <3>6
          <5> QED BY <1>4, <5>2, <5>3, <5>4
        <4> QED BY <4>1, <4>2
      <3>8. b + d[h] \in (e + 1)..Len(t)
        <4>1. b + d[h] \in Int /\ b + d[h] <= Len(t)
              BY <1>1, <3>6
        <4> QED BY <1>1, <1>4, <3>7, <4>1, SMTT(30)
      <3>9. D[i] = d[h] + g
            BY <1>11, <3>1
      <3>10. b + D[i] = b + d[h] + g
            BY <1>10, <2>3, <3>6, <3>9
      <3>11. u[b + d[h] + g] = t[b + d[h]]
            BY <1>6, <3>8
      <3> QED BY <3>6, <3>10, <3>11
    <2> QED BY <1>2, <2>3, <2>4, <2>5
  <1> QED BY <1>1, <1>6, <1>11, <1>19, <1>21, <1>22, <1>23, <1>24 DEF Explains, m, u, D

-----------------------------------------------------------------------------
(* Folding one more edit into a list, as a transaction does.               *)

\* No edit leaves the text as it is.
LEMMA NothingExplains ==
  ASSUME NEW t \in Text
  PROVE  Explains(t, <<>>, t)
  <1> DEFINE none == <<>>
  <1>1. none \in Edits /\ Len(none) = 0
        BY DEF Edits
  <1>2. Shifts(none)[0] = 0
        BY <1>1, ShiftsAre
  <1>3. Len(t) \in Nat
        BY DEF Text
  <1> HIDE DEF none
  <1>4. Normal(t, none) /\ Placed(none, t) /\ HasNew(none, t)
    <2>1. 1..Len(none) = {}
          BY <1>1
    <2> QED BY <2>1 DEF Normal, Placed, HasNew
  <1>5. HasOld(t, none, t)
    <2>1. 0..Len(none) = {0}
          BY <1>1
    <2>2. \A b \in 1..Len(t) : b + Shifts(none)[0] = b
          BY <1>2
    <2> QED BY <2>1, <2>2 DEF HasOld
  <1>6. Len(t) = Len(t) + Shifts(none)[Len(none)]
        BY <1>1, <1>2, <1>3
  <1>7. Explains(t, none, t)
        BY <1>1, <1>4, <1>5, <1>6 DEF Explains
  <1> QED BY <1>7 DEF none

\* The list the code builds is one in which the merged edit has taken the place of those
\* it overlaps or touches.
LEMMA FoldSplices ==
  ASSUME NEW edits \in Edits, NEW x, NEW f \in 1..(Len(edits) + 1), NEW l \in (f - 1)..Len(edits)
  PROVE  SubSeq(edits, 1, f - 1) \o <<x>> \o SubSeq(edits, l + 1, Len(edits)) = Spliced(edits, f, l, x)
  <1>1. 0 + 1 = 1
        OBVIOUS
  <1> QED BY <1>1 DEF Spliced, Slice

\* The edits of a list that an edit of s..e overlaps or touches, and those behind it.
Touched(edits, s, e) == {i \in DOMAIN edits : PendingEnd(edits, i) >= s /\ PendingStart(edits, i) <= e}
Later(edits, e)      == {i \in DOMAIN edits : PendingStart(edits, i) > e}

\* The edits that a new edit overlaps or touches lie next to each other.
LEMMA FoldEncloses ==
  ASSUME NEW base, NEW edits, NEW t, Explains(base, edits, t),
         NEW s \in 0..Len(t), NEW e \in s..Len(t),
         NEW touched, touched = Touched(edits, s, e), touched # {},
         NEW f, f = Min(touched), NEW l, l = Max(touched),
         NEW from, from = Min({s, PendingStart(edits, f)}),
         NEW to, to = Max({e, PendingEnd(edits, l)})
  PROVE  /\ f \in 1..Len(edits) /\ l \in f..Len(edits)
         /\ from \in 0..s /\ to \in e..Len(t) /\ Encloses(edits, f, l, from, to)
         /\ BaseStart(edits, f, from) = from - Shifts(edits)[f - 1]
         /\ BaseEnd(edits, l, to) = to - Shifts(edits)[l]
  <1> DEFINE n == Len(edits)
             d == Shifts(edits)
             pf == PendingStart(edits, f)
             ql == PendingEnd(edits, l)
  <1>1. /\ Len(t) \in Nat /\ n \in Nat /\ d \in [0..n -> Int] /\ DOMAIN edits = 1..n
        BY ExplainsIs, EditsAre
  <1>2. \A j \in 1..n :
          /\ PendingStart(edits, j) \in Int /\ PendingEnd(edits, j) \in Int
          /\ PendingStart(edits, j) = edits[j].start + d[j - 1]
          /\ PendingEnd(edits, j) = edits[j].end + d[j]
          /\ PendingStart(edits, j) <= PendingEnd(edits, j)
          /\ edits[j].start \in Nat /\ edits[j].end \in Nat
        BY ExplainsIs, ZenonT(60)
  <1>3. /\ \A j \in 1..n : 0 <= PendingStart(edits, j) /\ PendingEnd(edits, j) <= Len(t)
        /\ \A j, k \in 1..n : j < k => PendingEnd(edits, j) < PendingStart(edits, k)
    <2>1. Placed(edits, t)
          BY ExplainsIs
    <2> QED BY <2>1 DEF Placed
  <1>4. /\ s \in Int /\ e \in Int /\ 0 <= s /\ s <= e /\ e <= Len(t)
        BY <1>1
  <1>5. touched \subseteq 1..n /\ touched \subseteq Nat
        BY <1>1 DEF Touched
  <1>6. f \in touched /\ l \in touched /\ (\A y \in touched : f <= y) /\ \A y \in touched : y <= l
    <2> HIDE DEF n
    <2> QED BY <1>1, <1>5, LeastNumber, GreatestNumber
  <1>7. /\ f \in 1..n /\ l \in 1..n /\ f <= l /\ f \in Int /\ l \in Int
        BY <1>1, <1>5, <1>6
  <1>8. /\ pf \in Int /\ ql \in Int /\ pf <= e /\ ql >= s /\ 0 <= pf /\ ql <= Len(t)
        BY <1>1, <1>2, <1>3, <1>6, <1>7 DEF Touched
  <1> HIDE DEF n, d, pf, ql
  <1>9. from \in {s, pf} /\ from <= s /\ from <= pf
    <2>1. from = Min({s, pf})
          BY DEF pf
    <2>2. {s, pf} \subseteq Nat /\ {s, pf} # {}
          BY <1>4, <1>8
    <2>3. Min({s, pf}) \in {s, pf} /\ \A y \in {s, pf} : Min({s, pf}) <= y
          BY <2>2, LeastNumber
    <2> QED BY <2>1, <2>3
  <1>10. to \in {e, ql} /\ e <= to /\ ql <= to
    <2>1. to = Max({e, ql})
          BY DEF ql
    <2>2. \E z \in {e, ql} : \A y \in {e, ql} : z >= y
          BY <1>4, <1>8
    <2>3. Max({e, ql}) \in {e, ql} /\ \A y \in {e, ql} : Max({e, ql}) >= y
          BY <2>2 DEF Max
    <2> QED BY <1>4, <1>8, <2>1, <2>3
  <1>11. from \in Int /\ to \in Int /\ 0 <= from /\ to <= Len(t) /\ from <= e /\ s <= to
        BY <1>4, <1>8, <1>9, <1>10
  <1>12. ASSUME NEW j \in 1..(f - 1)
         PROVE  PendingEnd(edits, j) < from
    <2>1. j \in 1..n /\ j < f /\ j \notin touched
      <3>1. j \in 1..n /\ j < f
            BY <1>1, <1>7, SMTT(30)
      <3> QED BY <1>6, <1>7, <3>1
    <2>2. PendingEnd(edits, j) \in Int /\ PendingStart(edits, j) \in Int /\ PendingStart(edits, j) <= PendingEnd(edits, j)
          BY <1>2, <2>1
    <2>3. PendingEnd(edits, j) < pf
          BY <1>3, <1>7, <2>1 DEF pf
    <2>4. PendingEnd(edits, j) < s \/ PendingStart(edits, j) > e
          BY <1>1, <1>4, <2>1, <2>2 DEF Touched
    <2>5. PendingEnd(edits, j) < s
          BY <1>4, <1>8, <2>2, <2>3, <2>4
    <2> QED BY <1>9, <2>3, <2>5
  <1>13. ASSUME NEW j \in f..n
         PROVE  from <= PendingStart(edits, j)
    <2>1. j \in 1..n /\ (j = f \/ f < j)
          BY <1>1, <1>7
    <2>2. CASE j = f
          BY <1>9, <2>2 DEF pf
    <2>3. CASE f < j
      <3>1. PendingEnd(edits, f) < PendingStart(edits, j)
            BY <1>3, <1>7, <2>1, <2>3
      <3>2. PendingEnd(edits, f) \in Int /\ PendingStart(edits, j) \in Int /\ pf <= PendingEnd(edits, f)
            BY <1>2, <1>7, <2>1 DEF pf
      <3> QED BY <1>8, <1>9, <1>11, <3>1, <3>2
    <2> QED BY <2>1, <2>2, <2>3
  <1>14. ASSUME NEW j \in 1..l
         PROVE  PendingEnd(edits, j) <= to
    <2>1. j \in 1..n /\ (j = l \/ j < l)
          BY <1>1, <1>7
    <2>2. CASE j = l
          BY <1>10, <2>2 DEF ql
    <2>3. CASE j < l
      <3>1. PendingEnd(edits, j) < PendingStart(edits, l)
            BY <1>3, <1>7, <2>1, <2>3
      <3>2. PendingEnd(edits, j) \in Int /\ PendingStart(edits, l) \in Int /\ PendingStart(edits, l) <= ql
            BY <1>2, <1>7, <2>1 DEF ql
      <3> QED BY <1>8, <1>10, <1>11, <3>1, <3>2
    <2> QED BY <2>1, <2>2, <2>3
  <1>15. ASSUME NEW j \in (l + 1)..n
         PROVE  to < PendingStart(edits, j)
    <2>1. j \in 1..n /\ l < j /\ j \notin touched
      <3>1. j \in 1..n /\ l < j
            BY <1>1, <1>7, SMTT(30)
      <3> QED BY <1>6, <1>7, <3>1
    <2>2. PendingEnd(edits, j) \in Int /\ PendingStart(edits, j) \in Int /\ PendingStart(edits, j) <= PendingEnd(edits, j)
          BY <1>2, <2>1
    <2>3. ql < PendingStart(edits, j)
          BY <1>3, <1>7, <2>1 DEF ql
    <2>4. PendingEnd(edits, j) < s \/ PendingStart(edits, j) > e
          BY <1>1, <1>4, <2>1, <2>2 DEF Touched
    <2>5. PendingStart(edits, j) > e
          BY <1>4, <1>8, <2>2, <2>3, <2>4
    <2> QED BY <1>10, <2>3, <2>5
  <1>16. Encloses(edits, f, l, from, to)
    <2>1. f \in 1..(n + 1) /\ l \in (f - 1)..n
          BY <1>1, <1>7
    <2> QED BY <1>12, <1>13, <1>14, <1>15, <2>1 DEF Encloses, n
  <1>17. d[f - 1] \in Int /\ d[l] \in Int
    <2>1. f - 1 \in 0..n /\ l \in 0..n
          BY <1>1, <1>7
    <2> QED BY <1>1, <2>1
  <1>18. BaseStart(edits, f, from) = from - d[f - 1]
    <2>1. Delta(edits, f) = d[f - 1]
          BY DEF Delta, d
    <2>2. pf = edits[f].start + d[f - 1] /\ edits[f].start \in Int
          BY <1>2, <1>7, SMTT(30) DEF pf
    <2>3. CASE from < pf
          BY <2>1, <2>3 DEF BaseStart, pf
    <2>4. CASE ~(from < pf)
      <3>1. from = pf
            BY <1>8, <1>9, <1>11, <2>4
      <3>2. BaseStart(edits, f, from) = edits[f].start
            BY <2>4 DEF BaseStart, pf
      <3>3. edits[f].start = (edits[f].start + d[f - 1]) - d[f - 1]
            BY <1>17, <2>2
      <3> QED BY <2>2, <3>1, <3>2, <3>3
    <2> QED BY <2>3, <2>4
  <1>19. BaseEnd(edits, l, to) = to - d[l]
    <2>1. Delta(edits, l + 1) = d[l]
          BY <1>7, DeltaAfter DEF d
    <2>2. ql = edits[l].end + d[l] /\ edits[l].end \in Int
          BY <1>2, <1>7 DEF ql
    <2>3. CASE to > ql
          BY <2>1, <2>3 DEF BaseEnd, ql
    <2>4. CASE ~(to > ql)
      <3>1. to = ql
            BY <1>8, <1>10, <1>11, <2>4
      <3>2. BaseEnd(edits, l, to) = edits[l].end
            BY <2>4 DEF BaseEnd, ql
      <3>3. edits[l].end = (edits[l].end + d[l]) - d[l]
            BY <1>17, <2>2
      <3> QED BY <2>2, <3>1, <3>2, <3>3
    <2> QED BY <2>3, <2>4
  <1>20. f \in 1..n /\ l \in f..n
        BY <1>1, <1>7
  <1>21. from \in 0..s /\ to \in e..Len(t)
        BY <1>1, <1>4, <1>9, <1>10, <1>11
  <1> QED BY <1>16, <1>18, <1>19, <1>20, <1>21 DEF n, d

\* An edit that touches none goes between the edits before it and those behind.
LEMMA FoldBetween ==
  ASSUME NEW base, NEW edits, NEW t, Explains(base, edits, t),
         NEW s \in 0..Len(t), NEW e \in s..Len(t),
         Touched(edits, s, e) = {}, NEW later, later = Later(edits, e),
         NEW at, at = IF later = {} THEN Len(edits) + 1 ELSE Min(later)
  PROVE  at \in 1..(Len(edits) + 1) /\ Encloses(edits, at, at - 1, s, e)
  <1> DEFINE n == Len(edits)
  <1>1. Len(t) \in Nat /\ n \in Nat /\ DOMAIN edits = 1..n
        BY ExplainsIs, EditsAre
  <1>2. \A j \in 1..n :
          /\ PendingStart(edits, j) \in Int /\ PendingEnd(edits, j) \in Int
          /\ PendingStart(edits, j) <= PendingEnd(edits, j)
        BY ExplainsIs
  <1>3. \A j, k \in 1..n : j < k => PendingEnd(edits, j) < PendingStart(edits, k)
    <2>1. Placed(edits, t)
          BY ExplainsIs
    <2> QED BY <2>1 DEF Placed
  <1>4. s \in Int /\ e \in Int /\ s <= e
        BY <1>1
  <1>5. \A j \in 1..n : PendingEnd(edits, j) < s \/ PendingStart(edits, j) > e
        BY <1>1, <1>2, <1>4 DEF Touched
  <1>6. later \subseteq 1..n /\ later \subseteq Nat
        BY <1>1 DEF Later
  <1>7. later # {} => at \in later /\ \A y \in later : at <= y
        BY <1>6, LeastNumber
  <1>8. at \in 1..(n + 1)
        BY <1>1, <1>6, <1>7
  <1>9. \A j \in 1..n : j \in later <=> PendingStart(edits, j) > e
        BY <1>1 DEF Later
  <1>10. later = {} => at = n + 1
        OBVIOUS
  <1> HIDE DEF n
  <1>11. ASSUME NEW j \in 1..(at - 1)
         PROVE  PendingEnd(edits, j) < s
    <2>1. j \in 1..n /\ j < at
          BY <1>1, <1>8
    <2>2. at \in Int /\ j \in Int /\ ~(at <= j)
          BY <1>1, <1>8, <2>1
    <2>3. j \notin later
          BY <1>7, <2>2
    <2> QED BY <1>4, <1>5, <1>9, <2>1, <2>3
  <1>12. ASSUME NEW j \in at..n
         PROVE  e < PendingStart(edits, j)
    <2>1. at \in 1..n /\ j \in 1..n /\ (j = at \/ at < j)
          BY <1>1, <1>8
    <2>2. e < PendingStart(edits, at)
          BY <1>1, <1>7, <1>9, <1>10, <2>1
    <2>3. CASE j = at
          BY <2>2, <2>3
    <2>4. CASE at < j
      <3>1. PendingEnd(edits, at) < PendingStart(edits, j)
            BY <1>3, <2>1, <2>4
      <3>2. /\ PendingStart(edits, at) \in Int /\ PendingEnd(edits, at) \in Int
            /\ PendingStart(edits, at) <= PendingEnd(edits, at)
            BY <1>2, <2>1
      <3>3. PendingStart(edits, j) \in Int
            BY <1>2, <2>1
      <3> QED BY <1>4, <2>2, <3>1, <3>2, <3>3
    <2> QED BY <2>1, <2>3, <2>4
  <1>13. ASSUME NEW j \in at..n
         PROVE  s <= PendingStart(edits, j)
    <2>1. j \in 1..n
          BY <1>1, <1>8
    <2>2. e < PendingStart(edits, j) /\ PendingStart(edits, j) \in Int
          BY <1>2, <1>12, <2>1
    <2> QED BY <1>4, <2>2
  <1>14. ASSUME NEW j \in 1..(at - 1)
         PROVE  PendingEnd(edits, j) <= e
    <2>1. j \in 1..n
          BY <1>1, <1>8
    <2>2. PendingEnd(edits, j) < s /\ PendingEnd(edits, j) \in Int
          BY <1>2, <1>11, <2>1
    <2> QED BY <1>4, <2>2
  <1> DEFINE k == at - 1
  <1>15. k \in (at - 1)..n /\ (k + 1)..n = at..n
        BY <1>1, <1>8
  <1>16. /\ at \in 1..(n + 1) /\ k \in (at - 1)..n
         /\ \A j \in 1..(at - 1) : PendingEnd(edits, j) < s
         /\ \A j \in at..n : s <= PendingStart(edits, j)
         /\ \A j \in 1..k : PendingEnd(edits, j) <= e
        BY <1>8, <1>11, <1>13, <1>14, <1>15
  <1> HIDE DEF k
  <1>17. \A j \in (k + 1)..n : e < PendingStart(edits, j)
        BY <1>12, <1>15
  <1>18. Encloses(edits, at, k, s, e)
        BY <1>16, <1>17 DEF Encloses, n
  <1> QED BY <1>8, <1>18 DEF n, k

\* However an edit overlaps or touches those before it, the list explains the text with it.
LEMMA FoldExplains ==
  ASSUME NEW base, NEW edits, NEW t, Explains(base, edits, t),
         NEW s \in 0..Len(t), NEW e \in s..Len(t), NEW new \in Text
  PROVE  /\ Explains(base, Fold(t, edits, s, e, new), Replace(t, s, e, new))
         /\ Fold(t, edits, s, e, new) # <<>>
  <1> DEFINE touched == Touched(edits, s, e)
             later == Later(edits, e)
             fold == Fold(t, edits, s, e, new)
  <1>1. /\ edits \in Edits /\ t \in Text /\ Len(t) \in Nat /\ Len(edits) \in Nat
        BY ExplainsIs
  <1>2. s \in Int /\ e \in Int /\ s \in 0..s /\ e \in e..Len(t)
        BY <1>1
  <1>3. SUFFICES \E f \in 1..(Len(edits) + 1) : \E l \in (f - 1)..Len(edits) :
                 \E from \in 0..s : \E to \in e..Len(t) :
                     /\ Encloses(edits, f, l, from, to)
                     /\ fold = Spliced(edits, f, l, Edit(from - Shifts(edits)[f - 1], to - Shifts(edits)[l],
                                                         Slice(t, from, s) \o new \o Slice(t, e, to)))
    <2>1. PICK f \in 1..(Len(edits) + 1) : \E l \in (f - 1)..Len(edits) :
                 \E from \in 0..s : \E to \in e..Len(t) :
                     /\ Encloses(edits, f, l, from, to)
                     /\ fold = Spliced(edits, f, l, Edit(from - Shifts(edits)[f - 1], to - Shifts(edits)[l],
                                                         Slice(t, from, s) \o new \o Slice(t, e, to)))
          BY <1>3
    <2>2. PICK l \in (f - 1)..Len(edits) : \E from \in 0..s : \E to \in e..Len(t) :
                     /\ Encloses(edits, f, l, from, to)
                     /\ fold = Spliced(edits, f, l, Edit(from - Shifts(edits)[f - 1], to - Shifts(edits)[l],
                                                         Slice(t, from, s) \o new \o Slice(t, e, to)))
          BY <2>1
    <2>3. PICK from \in 0..s, to \in e..Len(t) :
                     /\ Encloses(edits, f, l, from, to)
                     /\ fold = Spliced(edits, f, l, Edit(from - Shifts(edits)[f - 1], to - Shifts(edits)[l],
                                                         Slice(t, from, s) \o new \o Slice(t, e, to)))
          BY <2>2
    <2> DEFINE x == Edit(from - Shifts(edits)[f - 1], to - Shifts(edits)[l],
                         Slice(t, from, s) \o new \o Slice(t, e, to))
    <2>4. fold = Spliced(edits, f, l, x)
          BY <2>3
    <2>5. x = Edit(from - Shifts(edits)[f - 1], to - Shifts(edits)[l],
                   Slice(t, from, s) \o new \o Slice(t, e, to))
          OBVIOUS
    <2> HIDE DEF x, fold
    <2>6. Explains(base, Spliced(edits, f, l, x), Replace(t, s, e, new))
          BY <2>3, <2>5, Merged
    <2>7. Spliced(edits, f, l, x) # <<>>
      <3> DEFINE S == EditRecord \cup {x}
                 m == Spliced(edits, f, l, x)
      <3>1. edits \in Seq(EditRecord)
            BY <1>1 DEF Edits, EditRecord
      <3>2. edits \in Seq(S) /\ x \in S
            BY <3>1
      <3> HIDE DEF S, m
      <3>3. Len(m) = Len(edits) - l + f
            BY <3>2, SplicedIs, SMTT(30) DEF m
      <3>4. Len(m) # 0 /\ Len(<<>>) = 0
            BY <1>1, <3>3
      <3>5. m # <<>>
            BY <3>4
      <3> QED BY <3>5 DEF m
    <2> QED BY <2>4, <2>6, <2>7 DEF fold
  <1>4. CASE touched = {}
    <2> DEFINE at == IF later = {} THEN Len(edits) + 1 ELSE Min(later)
               d  == Shifts(edits)[at - 1]
               k  == at - 1
               x  == Edit(s - d, e - d, new)
    <2>1. Delta(edits, at) = d
          BY DEF Delta
    <2>2. fold = SubSeq(edits, 1, at - 1) \o <<x>> \o SubSeq(edits, at, Len(edits))
          BY <1>4, <2>1 DEF Fold, Touched, Later
    <2>3. at \in 1..(Len(edits) + 1) /\ Encloses(edits, at, k, s, e)
      <3>1. at = IF later = {} THEN Len(edits) + 1 ELSE Min(later)
            OBVIOUS
      <3> HIDE DEF at, later
      <3> QED BY <1>4, <3>1, FoldBetween DEF later, k
    <2> HIDE DEF at, fold, x
    <2>4. k \in (at - 1)..Len(edits) /\ k + 1 = at
          BY <1>1, <2>3
    <2>5. Slice(t, s, s) \o new \o Slice(t, e, e) = new
      <3>1. t \in Seq(Bytes) /\ new \in Seq(Bytes)
            BY <1>1 DEF Text
      <3>2. Slice(t, s, s) = <<>> /\ Slice(t, e, e) = <<>>
            BY <1>2, <3>1 DEF Slice
      <3> QED BY <3>1, <3>2
    <2> HIDE DEF k
    <2>6. fold = Spliced(edits, at, k, x)
      <3>1. SubSeq(edits, 1, at - 1) \o <<x>> \o SubSeq(edits, k + 1, Len(edits)) = Spliced(edits, at, k, x)
            BY <1>1, <2>3, <2>4, FoldSplices
      <3> QED BY <2>2, <2>4, <3>1
    <2>7. x = Edit(s - Shifts(edits)[at - 1], e - Shifts(edits)[k], Slice(t, s, s) \o new \o Slice(t, e, e))
          BY <2>5 DEF x, k
    <2> QED BY <1>2, <2>3, <2>4, <2>6, <2>7
  <1>5. CASE touched # {}
    <2> DEFINE f == Min(touched)
               l == Max(touched)
               from == Min({s, PendingStart(edits, f)})
               to == Max({e, PendingEnd(edits, l)})
               x == Edit(BaseStart(edits, f, from), BaseEnd(edits, l, to),
                         Slice(t, from, s) \o new \o Slice(t, e, to))
    <2>1. /\ f \in 1..Len(edits) /\ l \in f..Len(edits)
          /\ from \in 0..s /\ to \in e..Len(t) /\ Encloses(edits, f, l, from, to)
          /\ BaseStart(edits, f, from) = from - Shifts(edits)[f - 1]
          /\ BaseEnd(edits, l, to) = to - Shifts(edits)[l]
      <3>1. /\ f = Min(touched) /\ l = Max(touched)
            /\ from = Min({s, PendingStart(edits, f)}) /\ to = Max({e, PendingEnd(edits, l)})
            OBVIOUS
      <3> HIDE DEF f, l, from, to
      <3> QED BY <1>5, <3>1, FoldEncloses
    <2>2. fold = SubSeq(edits, 1, f - 1) \o <<x>> \o SubSeq(edits, l + 1, Len(edits))
          BY <1>5 DEF Fold, Touched
    <2>3. f \in 1..(Len(edits) + 1) /\ l \in (f - 1)..Len(edits)
          BY <1>1, <2>1
    <2>4. fold = Spliced(edits, f, l, x)
      <3> HIDE DEF f, l, x, fold
      <3> QED BY <1>1, <2>2, <2>3, FoldSplices
    <2>5. x = Edit(from - Shifts(edits)[f - 1], to - Shifts(edits)[l],
                   Slice(t, from, s) \o new \o Slice(t, e, to))
          BY <2>1
    <2> HIDE DEF f, l, from, to, x, fold
    <2> QED BY <2>1, <2>3, <2>4, <2>5
  <1> QED BY <1>4, <1>5

-----------------------------------------------------------------------------
(* A list is replayed back to front: each edit is put before those done.   *)

\* An edit before all others of a list is made in the new text as it is: it is where it was.
LEMMA Prepended ==
  ASSUME NEW base, NEW edits, NEW t, Explains(base, edits, t), NEW x \in EditRecord,
         x.start <= x.end, x.end <= Len(base),
         edits # <<>> => x.end < edits[1].start
  PROVE  /\ x.end <= Len(t)
         /\ Explains(base, Spliced(edits, 1, 0, x), Replace(t, x.start, x.end, x.new))
  <1> DEFINE n == Len(edits)
             s == x.start
             e == x.end
             new == x.new
             d == Shifts(edits)[0]
  <1>1. /\ edits \in Edits /\ t \in Text /\ Len(t) \in Nat /\ Len(base) \in Nat /\ n \in Nat
        /\ Len(t) = Len(base) + Shifts(edits)[n] /\ d = 0
        BY ExplainsIs
  <1>2. s \in Nat /\ e \in Nat /\ new \in Text /\ s <= e /\ e <= Len(base)
        BY EditIs
  <1>3. x = Edit(s, e, new)
        BY DEF EditRecord, Edit
  <1>4. /\ \A i \in 1..n : 0 <= PendingStart(edits, i) /\ PendingEnd(edits, i) <= Len(t)
        /\ \A i, j \in 1..n : i < j => PendingEnd(edits, i) < PendingStart(edits, j)
    <2>1. Placed(edits, t)
          BY ExplainsIs
    <2> QED BY <2>1 DEF Placed
  <1>5. \A i \in 1..n : /\ PendingStart(edits, i) \in Int /\ PendingEnd(edits, i) \in Int
                        /\ PendingStart(edits, i) <= PendingEnd(edits, i)
        BY ExplainsIs
  <1>6. ASSUME 1 \in 1..n
        PROVE  e < PendingStart(edits, 1)
    <2>1. PendingStart(edits, 1) = edits[1].start + Shifts(edits)[1 - 1] /\ edits[1].start \in Nat
          BY <1>6, ExplainsIs
    <2>2. 1 - 1 = 0
          OBVIOUS
    <2>3. PendingStart(edits, 1) = edits[1].start + d
          BY <2>1, <2>2
    <2>4. edits # <<>>
          BY <1>1, <1>6
    <2>5. e < edits[1].start
          BY <2>4
    <2> HIDE DEF d, e
    <2> QED BY <1>1, <1>2, <2>1, <2>3, <2>5
  <1> HIDE DEF n, s, e, new, d
  <1>7. ASSUME NEW i \in 1..n
        PROVE  e < PendingStart(edits, i)
    <2>1. 1 \in 1..n /\ (i = 1 \/ 1 < i)
          BY <1>1
    <2>2. e < PendingStart(edits, 1)
          BY <1>6, <2>1
    <2>3. CASE i = 1
          BY <2>2, <2>3
    <2>4. CASE 1 < i
      <3>1. PendingEnd(edits, 1) < PendingStart(edits, i)
            BY <1>4, <2>1, <2>4
      <3>2. /\ PendingStart(edits, 1) \in Int /\ PendingEnd(edits, 1) \in Int
            /\ PendingStart(edits, 1) <= PendingEnd(edits, 1) /\ PendingStart(edits, i) \in Int
            BY <1>5, <2>1
      <3> QED BY <1>2, <2>2, <3>1, <3>2
    <2> QED BY <2>1, <2>3, <2>4
  <1>8. e <= Len(t)
    <2>1. CASE n = 0
          BY <1>1, <1>2, <2>1 DEF d
    <2>2. CASE n # 0
      <3>1. 1 \in 1..n
            BY <1>1, <2>2
      <3>2. e < PendingStart(edits, 1) /\ PendingEnd(edits, 1) <= Len(t)
            BY <1>4, <1>7, <3>1
      <3>3. /\ PendingStart(edits, 1) \in Int /\ PendingEnd(edits, 1) \in Int
            /\ PendingStart(edits, 1) <= PendingEnd(edits, 1)
            BY <1>5, <3>1
      <3> QED BY <1>1, <1>2, <3>2, <3>3
    <2> QED BY <2>1, <2>2
  <1> DEFINE f == 1
             l == 0
  <1>9. Encloses(edits, f, l, s, e)
    <2>1. \A i \in 1..n : s <= PendingStart(edits, i)
          BY <1>2, <1>5, <1>7
    <2>2. 1..(f - 1) = {} /\ 1..l = {} /\ l + 1 = 1 /\ f \in 1..(n + 1) /\ l \in (f - 1)..n
          BY <1>1
    <2> QED BY <1>7, <2>1, <2>2 DEF Encloses, n
  <1>10. f - 1 = 0
        OBVIOUS
  <1>11. Slice(t, s, s) \o new \o Slice(t, e, e) = new
    <2>1. t \in Seq(Bytes) /\ new \in Seq(Bytes)
          BY <1>1, <1>2 DEF Text
    <2>2. Slice(t, s, s) = <<>> /\ Slice(t, e, e) = <<>>
          BY <1>2, <2>1 DEF Slice
    <2> QED BY <2>1, <2>2
  <1>12. x = Edit(s - Shifts(edits)[f - 1], e - Shifts(edits)[l], Slice(t, s, s) \o new \o Slice(t, e, e))
    <2>1. s - d = s /\ e - d = e
          BY <1>1, <1>2
    <2> QED BY <1>3, <1>11, <2>1 DEF d
  <1>13. s \in 0..Len(t) /\ e \in s..Len(t) /\ s \in 0..s /\ e \in e..Len(t)
        BY <1>1, <1>2, <1>8
  <1> HIDE DEF f, l
  <1>14. Explains(base, Spliced(edits, f, l, x), Replace(t, s, e, new))
        BY <1>2, <1>9, <1>12, <1>13, Merged
  <1> QED BY <1>8, <1>14 DEF f, l, s, e, new

\* The last k edits of a list.
Rest(edits, k) == Slice(edits, Len(edits) - k, Len(edits))

\* The last k edits of a list, one more for each k.
LEMMA RestIs ==
  ASSUME NEW edits \in Edits
  PROVE  /\ Rest(edits, 0) = <<>> /\ Rest(edits, Len(edits)) = edits
         /\ \A k \in 0..(Len(edits) - 1) :
               Rest(edits, k + 1) = Spliced(Rest(edits, k), 1, 0, edits[Len(edits) - k])
         /\ \A k \in 1..Len(edits) : Rest(edits, k) # <<>> /\ Rest(edits, k)[1] = edits[Len(edits) + 1 - k]
  <1> DEFINE n == Len(edits)
  <1>1. edits \in Seq(EditRecord) /\ n \in Nat
        BY DEF Edits, EditRecord
  <1>2. ASSUME NEW k \in 0..n
        PROVE  /\ Rest(edits, k) \in Seq(EditRecord) /\ Len(Rest(edits, k)) = k
               /\ \A i \in 1..k : Rest(edits, k)[i] = edits[n - k + i]
    <2>1. n - k \in 0..n /\ n \in (n - k)..n /\ n - (n - k) = k
          BY <1>1
    <2> DEFINE p == n - k
    <2> HIDE DEF p
    <2>2. p \in 0..Len(edits) /\ n \in p..Len(edits) /\ n - p = k
          BY <2>1 DEF p, n
    <2>3. /\ Slice(edits, p, n) \in Seq(EditRecord) /\ Len(Slice(edits, p, n)) = n - p
          /\ \A i \in 1..(n - p) : Slice(edits, p, n)[i] = edits[p + i]
      <3> HIDE DEF n
      <3> QED BY <1>1, <2>2, Pieces
    <2>4. Rest(edits, k) = Slice(edits, p, n)
          BY DEF Rest, p
    <2> HIDE DEF n
    <2>5. /\ Rest(edits, k) \in Seq(EditRecord) /\ Len(Rest(edits, k)) = k
          /\ \A i \in 1..k : Rest(edits, k)[i] = edits[p + i]
          BY <2>2, <2>3, <2>4
    <2> QED BY <2>5 DEF p
  <1>3. Rest(edits, 0) = <<>>
    <2>1. 0 \in 0..n
          BY <1>1
    <2>2. Rest(edits, 0) \in Seq(EditRecord) /\ Len(Rest(edits, 0)) = 0
          BY <1>2, <2>1
    <2> QED BY <2>2
  <1>4. Rest(edits, n) = edits
    <2>1. n \in 0..n /\ \A i \in 1..n : n - n + i = i
          BY <1>1
    <2>2. /\ Rest(edits, n) \in Seq(EditRecord) /\ Len(Rest(edits, n)) = n
          /\ \A i \in 1..n : Rest(edits, n)[i] = edits[i]
      <3> HIDE DEF n
      <3> QED BY <1>2, <2>1
    <2> QED BY <1>1, <2>2, SameText
  <1>5. ASSUME NEW k \in 0..(n - 1)
        PROVE  Rest(edits, k + 1) = Spliced(Rest(edits, k), 1, 0, edits[n - k])
    <2> DEFINE r == Rest(edits, k)
               q == Rest(edits, k + 1)
               x == edits[n - k]
               f == 1
               l == 0
               m == Spliced(r, f, l, x)
    <2>1. k \in 0..n /\ k + 1 \in 0..n /\ n - k \in 1..n /\ k \in Nat
          BY <1>1
    <2>2. r \in Seq(EditRecord) /\ Len(r) = k /\ \A i \in 1..k : r[i] = edits[n - k + i]
      <3> HIDE DEF n
      <3> QED BY <1>2, <2>1
    <2>3. q \in Seq(EditRecord) /\ Len(q) = k + 1 /\ \A i \in 1..(k + 1) : q[i] = edits[n - (k + 1) + i]
      <3> HIDE DEF n
      <3> QED BY <1>2, <2>1
    <2>4. x \in EditRecord
          BY <1>1, <2>1
    <2>5. f \in 1..(Len(r) + 1) /\ l \in (f - 1)..Len(r)
          BY <2>1, <2>2
    <2>f. f = 1 /\ l = 0
          OBVIOUS
    <2> HIDE DEF r, q, x, f, l, n
    <2>6. /\ m \in Seq(EditRecord) /\ Len(m) = Len(r) - l + f
          /\ m[f] = x /\ \A i \in (l + 1)..Len(r) : m[i - l + f] = r[i]
      <3>1. r \in Seq(EditRecord)
            BY <2>2
      <3> QED BY <2>4, <2>5, <3>1, SplicedIs
    <2> HIDE DEF m
    <2>7. Len(m) = k + 1 /\ m[1] = x /\ \A i \in 1..k : m[i - 0 + 1] = r[i]
          BY <2>1, <2>2, <2>f, <2>6
    <2>8. ASSUME NEW i \in 1..(k + 1)
          PROVE  q[i] = m[i]
      <3>1. q[i] = edits[n - (k + 1) + i]
            BY <2>3
      <3>2. CASE i = 1
        <4>1. n - (k + 1) + i = n - k
              BY <1>1, <2>1, <3>2
        <4> QED BY <2>7, <3>1, <3>2, <4>1 DEF x
      <3>3. CASE i # 1
        <4> DEFINE j == i - 1
        <4>1. j \in 1..k /\ j - 0 + 1 = i /\ n - (k + 1) + i = n - k + j
              BY <1>1, <2>1, <3>3
        <4> HIDE DEF j
        <4>2. m[i] = r[j] /\ r[j] = edits[n - k + j]
              BY <2>2, <2>7, <4>1
        <4> QED BY <3>1, <4>1, <4>2
      <3> QED BY <3>2, <3>3
    <2>9. q = m
          BY <2>3, <2>6, <2>7, <2>8, SameText
    <2> QED BY <2>9 DEF q, m, r, x, f, l
  <1>6. ASSUME NEW k \in 1..n
        PROVE  Rest(edits, k) # <<>> /\ Rest(edits, k)[1] = edits[n + 1 - k]
    <2>1. k \in 0..n /\ 1 \in 1..k /\ n - k + 1 = n + 1 - k
          BY <1>1
    <2>2. Len(Rest(edits, k)) = k /\ Rest(edits, k)[1] = edits[n - k + 1]
      <3> HIDE DEF n
      <3> QED BY <1>2, <2>1
    <2>3. k # 0
          BY <1>1
    <2> HIDE DEF n
    <2> QED BY <2>1, <2>2, <2>3
  <1> QED BY <1>3, <1>4, <1>5, <1>6

-----------------------------------------------------------------------------
(* Reading a list from the left.                                           *)

\* The base bytes behind the first i edits, and the new ones.
Read(edits, i)  == IF i = 0 THEN 0 ELSE edits[i].end
Shown(edits, i) == IF i = 0 THEN 0 ELSE PendingEnd(edits, i)
\* Where the base bytes between the i-th edit and the next end.
Upto(base, edits, i) == IF i = Len(edits) THEN Len(base) ELSE edits[i + 1].start

\* Where reading has got to in both texts after i edits, and that what comes before the next
\* one is behind these and before the others.
LEMMA ReadTo ==
  ASSUME NEW base, NEW edits, NEW t, Explains(base, edits, t), NEW i \in 0..Len(edits)
  PROVE  /\ Read(edits, i) \in Nat /\ Shown(edits, i) \in Nat /\ Upto(base, edits, i) \in Nat
         /\ Shifts(edits)[i] \in Int /\ Shown(edits, i) = Read(edits, i) + Shifts(edits)[i]
         /\ Read(edits, i) <= Upto(base, edits, i) /\ Upto(base, edits, i) <= Len(base)
         /\ Shown(edits, i) <= Len(t)
         /\ \A b \in (Read(edits, i) + 1)..Upto(base, edits, i) : Between(edits, i, b)
  <1> DEFINE n == Len(edits)
             d == Shifts(edits)
             r == Read(edits, i)
             p == Shown(edits, i)
             u == Upto(base, edits, i)
  <1>1. /\ Len(base) \in Nat /\ Len(t) \in Nat /\ n \in Nat
        /\ d \in [0..n -> Int] /\ d[0] = 0 /\ i \in 0..n
        BY ExplainsIs
  <1>2. \A j \in 1..n :
          /\ PendingStart(edits, j) \in Int /\ PendingEnd(edits, j) \in Int
          /\ PendingEnd(edits, j) = edits[j].end + d[j]
          /\ PendingStart(edits, j) <= PendingEnd(edits, j)
          /\ edits[j].start \in Nat /\ edits[j].end \in Nat
        BY ExplainsIs
  <1>3. /\ \A j \in 1..n : 0 <= PendingStart(edits, j) /\ PendingEnd(edits, j) <= Len(t)
    <2>1. Placed(edits, t)
          BY ExplainsIs
    <2> QED BY <2>1 DEF Placed
  <1>4. /\ \A j \in 1..n : edits[j].start <= edits[j].end /\ edits[j].end <= Len(base)
        /\ \A j, k \in 1..n : j < k => edits[j].end < edits[k].start
    <2>1. Normal(base, edits)
          BY ExplainsIs
    <2> QED BY <2>1 DEF Normal
  <1>5. d[i] \in Int
        BY <1>1
  <1> HIDE DEF n, d
  <1>6. r \in Nat /\ p \in Nat /\ p = r + d[i] /\ p <= Len(t) /\ r <= Len(base)
    <2>1. CASE i = 0
          BY <1>1, <2>1 DEF Read, Shown
    <2>2. CASE i # 0
      <3>1. i \in 1..n
            BY <1>1, <2>2
      <3>2. r = edits[i].end /\ p = PendingEnd(edits, i)
            BY <2>2 DEF Read, Shown
      <3> HIDE DEF r, p
      <3>3. p = edits[i].end + d[i] /\ r \in Nat /\ p \in Int /\ p <= Len(t) /\ r <= Len(base)
            BY <1>2, <1>3, <1>4, <3>1, <3>2
      <3>4. 0 <= PendingStart(edits, i) /\ PendingStart(edits, i) <= p /\ PendingStart(edits, i) \in Int
            BY <1>2, <1>3, <3>1, <3>2
      <3>5. p = r + d[i]
            BY <3>2, <3>3
      <3> QED BY <3>3, <3>4, <3>5
    <2> QED BY <2>1, <2>2
  <1>7. u \in Nat /\ r <= u /\ u <= Len(base)
    <2>1. CASE i = n
      <3>1. u = Len(base)
            BY <2>1 DEF Upto, n
      <3> HIDE DEF u, r
      <3> QED BY <1>1, <1>6, <3>1
    <2>2. CASE i # n
      <3> DEFINE k == i + 1
      <3>1. k \in 1..n /\ i < k
            BY <1>1, <2>2
      <3>2. u = edits[k].start
            BY <2>2 DEF Upto, n
      <3> HIDE DEF k, u
      <3>3. u \in Nat /\ edits[k].end \in Nat /\ u <= edits[k].end /\ edits[k].end <= Len(base)
            BY <1>2, <1>4, <3>1, <3>2
      <3>4. r <= u
        <4>1. CASE i = 0
              BY <3>3, <4>1 DEF Read
        <4>2. CASE i # 0
          <5>1. i \in 1..n /\ edits[i].end \in Nat
                BY <1>1, <1>2, <4>2
          <5>2. edits[i].end < edits[k].start
                BY <1>4, <3>1, <5>1
          <5> QED BY <3>2, <3>3, <4>2, <5>1, <5>2 DEF Read
        <4> QED BY <4>1, <4>2
      <3> QED BY <1>1, <3>3, <3>4
    <2> QED BY <2>1, <2>2
  <1>8. ASSUME NEW b \in (r + 1)..u
        PROVE  Between(edits, i, b)
    <2>1. b \in Int /\ r < b /\ b <= u
          BY <1>6, <1>7
    <2>2. ASSUME NEW j \in 1..i
          PROVE  edits[j].end < b
      <3>1. i # 0 /\ i \in 1..n /\ j \in 1..n /\ (j = i \/ j < i)
            BY <1>1
      <3>2. r = edits[i].end
            BY <3>1 DEF Read
      <3>3. edits[j].end \in Nat /\ edits[i].start \in Nat /\ edits[i].end \in Nat /\ edits[i].start <= edits[i].end
            BY <1>2, <1>4, <3>1
      <3>4. j = i \/ edits[j].end < edits[i].start
            BY <1>4, <3>1
      <3> HIDE DEF r
      <3> QED BY <2>1, <3>2, <3>3, <3>4
    <2>3. ASSUME NEW j \in (i + 1)..n
          PROVE  b <= edits[j].start
      <3> DEFINE k == i + 1
      <3>1. i # n /\ k \in 1..n /\ j \in 1..n /\ (j = k \/ k < j)
            BY <1>1
      <3>2. u = edits[k].start
            BY <3>1 DEF Upto, n
      <3> HIDE DEF k, u
      <3>3. edits[k].end \in Nat /\ edits[j].start \in Nat /\ edits[k].start \in Nat /\ edits[k].start <= edits[k].end
            BY <1>2, <1>4, <3>1
      <3>4. j = k \/ edits[k].end < edits[j].start
            BY <1>4, <3>1
      <3> QED BY <2>1, <3>2, <3>3, <3>4
    <2> QED BY <2>2, <2>3 DEF Between, n
  <1> QED BY <1>5, <1>6, <1>7, <1>8 DEF d

\* A piece on end with the text before it.
LEMMA PrefixGrows ==
  ASSUME NEW S, NEW t \in Seq(S), NEW p \in 0..Len(t), NEW b \in Seq(S), p + Len(b) <= Len(t),
         \A k \in 1..Len(b) : t[p + k] = b[k]
  PROVE  Slice(t, 0, p) \o b = Slice(t, 0, p + Len(b))
  <1> DEFINE q == p + Len(b)
             a == Slice(t, 0, p)
             w == Slice(t, 0, q)
  <1>1. Len(t) \in Nat /\ Len(b) \in Nat /\ p \in Nat
        OBVIOUS
  <1>2. 0 \in 0..Len(t) /\ p - 0 = p /\ q \in 0..Len(t) /\ q - 0 = q /\ \A k \in Nat : 0 + k = k
        BY <1>1
  <1>3. q = p + Len(b)
        OBVIOUS
  <1> HIDE DEF q
  <1>4. a \in Seq(S) /\ Len(a) = p /\ \A k \in 1..p : a[k] = t[k]
    <2>1. Slice(t, 0, p) \in Seq(S) /\ Len(Slice(t, 0, p)) = p - 0 /\ \A k \in 1..(p - 0) : Slice(t, 0, p)[k] = t[0 + k]
          BY <1>2, Pieces, ZenonT(60)
    <2> HIDE DEF a
    <2> QED BY <1>2, <2>1 DEF a
  <1>5. w \in Seq(S) /\ Len(w) = q /\ \A k \in 1..q : w[k] = t[k]
    <2>1. Slice(t, 0, q) \in Seq(S) /\ Len(Slice(t, 0, q)) = q - 0 /\ \A k \in 1..(q - 0) : Slice(t, 0, q)[k] = t[0 + k]
          BY <1>2, Pieces, ZenonT(60)
    <2> HIDE DEF w
    <2> QED BY <1>2, <2>1 DEF w
  <1> HIDE DEF a, w
  <1>6. /\ a \o b \in Seq(S) /\ Len(a \o b) = Len(a) + Len(b)
        /\ \A i \in 1..(Len(a) + Len(b)) : (a \o b)[i] = IF i <= Len(a) THEN a[i] ELSE b[i - Len(a)]
    <2>1. a \in Seq(S)
          BY <1>4
    <2> QED BY <2>1, ConcatProperties
  <1>7. ASSUME NEW i \in 1..q
        PROVE  (a \o b)[i] = w[i]
    <2>1. i \in 1..(Len(a) + Len(b)) /\ w[i] = t[i]
          BY <1>3, <1>4, <1>5
    <2>2. CASE i <= p
      <3>1. i \in 1..p
            BY <1>1, <2>2
      <3> QED BY <1>4, <1>6, <2>1, <2>2, <3>1
    <2>3. CASE ~(i <= p)
      <3>1. i - p \in 1..Len(b) /\ p + (i - p) = i
            BY <1>1, <1>3, <2>3
      <3>2. t[p + (i - p)] = b[i - p]
            BY <3>1
      <3> QED BY <1>4, <1>6, <2>1, <2>3, <3>1, <3>2
    <2> QED BY <2>2, <2>3
  <1>8. Len(a \o b) = Len(w) /\ Len(a \o b) = q
        BY <1>3, <1>4, <1>5, <1>6
  <1>9. a \o b = w
        BY <1>5, <1>6, <1>7, <1>8, SameText
  <1> QED BY <1>9 DEF a, w, q

\* The whole text is a slice of itself.
LEMMA WholeSlice ==
  ASSUME NEW S, NEW t \in Seq(S)
  PROVE  Slice(t, 0, Len(t)) = t
  <1>1. Len(t) \in Nat /\ 0 + 1 = 1
        OBVIOUS
  <1> QED BY <1>1 DEF Slice

\* One piece of the reading.
ReadStep(base, edits, f, i) ==
    IF i = 0 THEN <<>>
    ELSE f[i - 1] \o Slice(base, ReadFrom(edits, i), edits[i].start) \o edits[i].new

\* The reading exists for a list of any length, so it is what its equation says.
LEMMA ExplainedUnfold ==
  ASSUME NEW base, NEW edits, Len(edits) \in Nat
  PROVE  \E f : /\ f = [i \in 0..Len(edits) |-> ReadStep(base, edits, f, i)]
                /\ Explained(base, edits) =
                     f[Len(edits)] \o Slice(base, ReadFrom(edits, Len(edits) + 1), Len(base))
  <1> DEFINE T == {m \in Nat : \E f : f = [i \in 0..m |-> ReadStep(base, edits, f, i)]}
  <1>1. 0 \in T
    <2>1. [i \in 0..0 |-> <<>>] = [i \in 0..0 |-> ReadStep(base, edits, [j \in 0..0 |-> <<>>], i)]
          BY DEF ReadStep
    <2> QED BY <2>1
  <1>2. ASSUME NEW m \in Nat, m \in T
        PROVE  m + 1 \in T
    <2>1. PICK f : f = [i \in 0..m |-> ReadStep(base, edits, f, i)]
          BY <1>2
    <2> DEFINE g == [i \in 0..(m + 1) |-> IF i = m + 1 THEN ReadStep(base, edits, f, m + 1) ELSE f[i]]
    <2>2. ASSUME NEW i \in 0..(m + 1)
          PROVE  g[i] = ReadStep(base, edits, g, i)
      <3>1. CASE i = 0
            BY <2>1, <3>1 DEF ReadStep
      <3>2. CASE i # 0
        <4>1. i - 1 \in 0..m /\ i - 1 \in 0..(m + 1) /\ i - 1 # m + 1
              BY <3>2
        <4>2. g[i - 1] = f[i - 1]
              BY <4>1
        <4>3. ReadStep(base, edits, g, i) = ReadStep(base, edits, f, i)
          <5> HIDE DEF g
          <5> QED BY <3>2, <4>2, Zenon DEF ReadStep
        <4>4. g[i] = ReadStep(base, edits, f, i)
          <5>1. CASE i = m + 1
                BY <5>1
          <5>2. CASE i # m + 1
            <6>1. i \in 0..m
                  BY <5>2
            <6> QED BY <2>1, <5>2, <6>1
          <5> QED BY <5>1, <5>2
        <4> QED BY <4>3, <4>4
      <3> QED BY <3>1, <3>2
    <2>3. g = [i \in 0..(m + 1) |-> ReadStep(base, edits, g, i)]
      <3> DEFINE h == [i \in 0..(m + 1) |-> ReadStep(base, edits, g, i)]
      <3>1. DOMAIN g = DOMAIN h /\ \A i \in 0..(m + 1) : g[i] = h[i]
            BY <2>2
      <3>2. g = [i \in 0..(m + 1) |-> g[i]] /\ h = [i \in 0..(m + 1) |-> h[i]]
            OBVIOUS
      <3> HIDE DEF g, h
      <3>3. g = h
            BY <3>1, <3>2
      <3> QED BY <3>3 DEF h
    <2> HIDE DEF g
    <2> QED BY <2>3
  <1>3. T = Nat
    <2>1. T \subseteq Nat
          OBVIOUS
    <2> HIDE DEF T
    <2> QED BY <1>1, <1>2, <2>1, Induction
  <1>4. \E f : f = [i \in 0..Len(edits) |-> ReadStep(base, edits, f, i)]
        BY <1>3
  <1> DEFINE d == Pieced(base, edits)
  <1>5. d = CHOOSE f : f = [i \in 0..Len(edits) |-> ReadStep(base, edits, f, i)]
        BY DEF Pieced, ReadStep
  <1>6. Explained(base, edits) = d[Len(edits)] \o Slice(base, ReadFrom(edits, Len(edits) + 1), Len(base))
        BY DEF Explained
  <1> HIDE DEF d
  <1>7. d = [i \in 0..Len(edits) |-> ReadStep(base, edits, d, i)]
        BY <1>4, <1>5
  <1> QED BY <1>6, <1>7

\* A list that explains a text reads as that text.
LEMMA ReadsAs ==
  ASSUME NEW base, NEW edits, NEW t, Explains(base, edits, t)
  PROVE  Explained(base, edits) = t
  <1> DEFINE n == Len(edits)
             d == Shifts(edits)
  <1>1. /\ base \in Text /\ edits \in Edits /\ t \in Text
        /\ Len(base) \in Nat /\ Len(t) \in Nat /\ n \in Nat
        /\ Len(t) = Len(base) + d[n]
        BY ExplainsIs
  <1>2. base \in Seq(Bytes) /\ t \in Seq(Bytes)
        BY <1>1 DEF Text
  <1>3. PICK f : /\ f = [i \in 0..n |-> ReadStep(base, edits, f, i)]
                 /\ Explained(base, edits) =
                     f[n] \o Slice(base, ReadFrom(edits, n + 1), Len(base))
        BY <1>1, ExplainedUnfold
  <1>4. \A i \in 0..n : f[i] = ReadStep(base, edits, f, i)
    <2> HIDE DEF n
    <2> QED BY <1>3
  <1> DEFINE Piece(i) == Slice(base, Read(edits, i), Upto(base, edits, i))
  <1>5. ASSUME NEW i \in 0..n
        PROVE  /\ Piece(i) \in Seq(Bytes) /\ Len(Piece(i)) = Upto(base, edits, i) - Read(edits, i)
               /\ Shown(edits, i) + Len(Piece(i)) \in 0..Len(t)
               /\ \A k \in 1..Len(Piece(i)) : t[Shown(edits, i) + k] = Piece(i)[k]
    <2> DEFINE r == Read(edits, i)
               u == Upto(base, edits, i)
               p == Shown(edits, i)
    <2>1. /\ r \in Nat /\ p \in Nat /\ u \in Nat /\ d[i] \in Int /\ p = r + d[i]
          /\ r <= u /\ u <= Len(base) /\ p <= Len(t)
          /\ \A b \in (r + 1)..u : Between(edits, i, b)
          BY ReadTo
    <2> HIDE DEF r, u, p
    <2>2. r \in 0..Len(base) /\ u \in r..Len(base)
          BY <1>1, <2>1
    <2>3. /\ Slice(base, r, u) \in Seq(Bytes) /\ Len(Slice(base, r, u)) = u - r
          /\ \A k \in 1..(u - r) : Slice(base, r, u)[k] = base[r + k]
          BY <1>2, <2>2, Pieces
    <2>4. ASSUME NEW k \in 1..(u - r)
          PROVE  t[p + k] = base[r + k] /\ p + k <= Len(t)
      <3> DEFINE b == r + k
      <3>1. b \in (r + 1)..u /\ b \in 1..Len(base)
            BY <1>1, <2>1
      <3> HIDE DEF b, d
      <3>2. Between(edits, i, b)
            BY <2>1, <3>1
      <3>3. b + d[i] \in 1..Len(t) /\ t[b + d[i]] = base[b]
        <4> HIDE DEF n
        <4> QED BY <3>1, <3>2, BetweenPlace DEF n, d
      <3>4. b + d[i] = p + k
            BY <2>1 DEF b
      <3> QED BY <1>1, <3>3, <3>4 DEF b
    <2>5. p + (u - r) \in 0..Len(t)
      <3>1. CASE u = r
            BY <1>1, <2>1, <3>1
      <3>2. CASE u # r
        <4>1. u - r \in 1..(u - r)
              BY <2>1, <3>2
        <4>2. p + (u - r) <= Len(t)
              BY <2>4, <4>1
        <4> QED BY <1>1, <2>1, <4>2
      <3> QED BY <3>1, <3>2
    <2>6. Piece(i) = Slice(base, r, u)
          BY DEF r, u
    <2> HIDE DEF Piece
    <2> QED BY <2>1, <2>3, <2>4, <2>5, <2>6 DEF r, u, p
  <1> DEFINE T == {m \in Nat : m \in 0..n => f[m] = Slice(t, 0, Shown(edits, m))}
  <1> HIDE DEF n, d
  <1>6. 0 \in T
    <2>1. 0 \in 0..n /\ Shown(edits, 0) = 0
          BY <1>1 DEF Shown
    <2>2. f[0] = <<>>
          BY <1>4, <2>1 DEF ReadStep
    <2>3. Slice(t, 0, 0) = <<>>
          BY <1>2 DEF Slice
    <2> QED BY <2>1, <2>2, <2>3
  <1>7. ASSUME NEW m \in Nat, m \in T
        PROVE  m + 1 \in T
    <2> DEFINE i == m + 1
    <2>1. SUFFICES ASSUME i \in 0..n
                   PROVE  f[i] = Slice(t, 0, Shown(edits, i))
          OBVIOUS
    <2>2. m \in 0..n /\ i \in 1..n /\ i - 1 = m /\ i # 0 /\ m # n /\ i - 1 \in 0..n
          BY <1>1, <2>1
    <2>3. i = m + 1
          OBVIOUS
    <2> DEFINE p == Shown(edits, m)
               b == Piece(m)
               c == edits[i].new
               q == p + Len(b)
    <2>4. f[m] = Slice(t, 0, p)
          BY <1>7, <2>2
    <2>5. ReadFrom(edits, i) = Read(edits, m)
      <3> HIDE DEF i
      <3> QED BY <2>2, <2>3 DEF Read, ReadFrom
    <2>6. edits[i].start = Upto(base, edits, m)
          BY <2>2 DEF Upto, n
    <2> HIDE DEF i
    <2>7. f[i] = Slice(t, 0, p) \o b \o c
      <3>1. f[i] = ReadStep(base, edits, f, i)
            BY <1>4, <2>2
      <3>2. f[i - 1] = Slice(t, 0, p)
            BY <2>2, <2>4
      <3>3. ReadStep(base, edits, f, i) = f[i - 1] \o Slice(base, ReadFrom(edits, i), edits[i].start) \o edits[i].new
            BY <2>2 DEF ReadStep
      <3>4. ReadStep(base, edits, f, i) = f[i - 1] \o Slice(base, Read(edits, m), Upto(base, edits, m)) \o edits[i].new
            BY <2>5, <2>6, <3>3
      <3> HIDE DEF p
      <3> QED BY <3>1, <3>2, <3>4
    <2>8. p \in Nat /\ p <= Len(t) /\ p = Read(edits, m) + d[m] /\ d[m] \in Int
          /\ Read(edits, m) \in Nat /\ Upto(base, edits, m) \in Nat
          BY <2>2, ReadTo DEF n, d
    <2>9. /\ b \in Seq(Bytes) /\ Len(b) = Upto(base, edits, m) - Read(edits, m)
          /\ q \in 0..Len(t)
          /\ \A k \in 1..Len(b) : t[p + k] = b[k]
      <3> HIDE DEF Piece
      <3> QED BY <1>5, <2>2
    <2>10. c \in Seq(Bytes) /\ Len(c) \in Nat
           /\ PendingEnd(edits, i) = PendingStart(edits, i) + Len(c)
           /\ PendingStart(edits, i) = edits[i].start + d[m]
           /\ \A k \in 1..Len(c) : t[PendingStart(edits, i) + k] = c[k]
      <3>1. /\ edits[i].new \in Text /\ Len(edits[i].new) \in Nat
            /\ PendingEnd(edits, i) = PendingStart(edits, i) + Len(edits[i].new)
            /\ PendingStart(edits, i) = edits[i].start + d[i - 1]
            BY <2>2, ExplainsIs DEF n, d
      <3>2. HasNew(edits, t)
            BY ExplainsIs
      <3>3. \A k \in 1..Len(edits[i].new) : t[PendingStart(edits, i) + k] = edits[i].new[k]
            BY <2>2, <3>2 DEF HasNew, n
      <3>4. PendingStart(edits, i) = edits[i].start + d[m]
            BY <2>2, <3>1
      <3> QED BY <3>1, <3>3, <3>4 DEF Text
    <2>11. Shown(edits, i) = PendingEnd(edits, i) /\ Shown(edits, i) <= Len(t) /\ Shown(edits, i) \in Nat
      <3>1. i \in 0..n
            BY <1>1, <2>2
      <3> QED BY <2>2, <3>1, ReadTo DEF n, Shown
    <2> HIDE DEF p, b, c
    <2>12. q = PendingStart(edits, i)
          BY <2>6, <2>8, <2>9, <2>10
    <2>13. q + Len(c) = Shown(edits, i) /\ q + Len(c) <= Len(t) /\ \A k \in 1..Len(c) : t[q + k] = c[k]
          BY <2>10, <2>11, <2>12
    <2>14. p \in 0..Len(t) /\ p + Len(b) <= Len(t)
          BY <1>1, <2>8, <2>9
    <2> HIDE DEF q
    <2>15. Slice(t, 0, p) \o b = Slice(t, 0, q)
          BY <1>2, <2>9, <2>14, PrefixGrows DEF q
    <2>16. Slice(t, 0, q) \o c = Slice(t, 0, q + Len(c))
          BY <1>2, <2>9, <2>10, <2>13, PrefixGrows
    <2> QED BY <2>7, <2>13, <2>15, <2>16
  <1>8. T = Nat
    <2>1. T \subseteq Nat
          OBVIOUS
    <2> HIDE DEF T
    <2> QED BY <1>6, <1>7, <2>1, Induction
  <1>9. f[n] = Slice(t, 0, Shown(edits, n))
    <2>1. n \in 0..n
          BY <1>1
    <2> QED BY <1>1, <1>8, <2>1
  <1> DEFINE p == Shown(edits, n)
             b == Piece(n)
  <1>10. Explained(base, edits) = Slice(t, 0, p) \o b
    <2>1. ReadFrom(edits, n + 1) = Read(edits, n)
      <3> DEFINE k == n + 1
      <3>1. k - 1 = n /\ (k = 1 <=> n = 0)
            BY <1>1
      <3> HIDE DEF k
      <3>2. ReadFrom(edits, k) = Read(edits, n)
            BY <3>1 DEF Read, ReadFrom
      <3> QED BY <3>2 DEF k
    <2>2. Upto(base, edits, n) = Len(base)
          BY DEF Upto, n
    <2> QED BY <1>3, <1>9, <2>1, <2>2
  <1>11. n \in 0..n
        BY <1>1
  <1>12. /\ b \in Seq(Bytes) /\ p + Len(b) \in 0..Len(t)
         /\ \A k \in 1..Len(b) : t[p + k] = b[k]
         /\ Len(b) = Upto(base, edits, n) - Read(edits, n)
    <2> HIDE DEF Piece
    <2> QED BY <1>5, <1>11
  <1>13. p + Len(b) = Len(t) /\ p \in 0..Len(t)
    <2>1. Upto(base, edits, n) = Len(base)
          BY DEF Upto, n
    <2>2. p \in Nat /\ p <= Len(t) /\ p = Read(edits, n) + d[n] /\ d[n] \in Int /\ Read(edits, n) \in Nat
      <3> QED BY <1>11, ReadTo DEF n, d
    <2> HIDE DEF p, b
    <2> QED BY <1>1, <1>12, <2>1, <2>2
  <1> HIDE DEF p, b
  <1>14. Slice(t, 0, p) \o b = Slice(t, 0, p + Len(b))
    <2>1. p + Len(b) <= Len(t)
          BY <1>1, <1>13
    <2> QED BY <1>2, <1>12, <1>13, <2>1, PrefixGrows
  <1>15. Slice(t, 0, Len(t)) = t
        BY <1>2, WholeSlice
  <1> QED BY <1>10, <1>13, <1>14, <1>15

\* So a list and a base text explain one text.
LEMMA ExplainsOne ==
  ASSUME NEW base, NEW edits, NEW t, NEW u, Explains(base, edits, t), Explains(base, edits, u)
  PROVE  t = u
  <1>1. Explained(base, edits) = t
        BY ReadsAs
  <1>2. Explained(base, edits) = u
        BY ReadsAs
  <1> QED BY <1>1, <1>2

-----------------------------------------------------------------------------
(* The way back.                                                           *)

\* The inverse list, edit by edit: the two coordinate systems change places.
LEMMA InverseIs ==
  ASSUME NEW base, NEW edits, NEW t, Explains(base, edits, t)
  PROVE  /\ InverseEdits(base, edits) \in Edits /\ Len(InverseEdits(base, edits)) = Len(edits)
         /\ \A i \in 1..Len(edits) :
               /\ InverseEdits(base, edits)[i].start = PendingStart(edits, i)
               /\ InverseEdits(base, edits)[i].end = PendingEnd(edits, i)
               /\ InverseEdits(base, edits)[i].new = Slice(base, edits[i].start, edits[i].end)
               /\ PendingStart(InverseEdits(base, edits), i) = edits[i].start
               /\ PendingEnd(InverseEdits(base, edits), i) = edits[i].end
         /\ \A i \in 0..Len(edits) : Shifts(InverseEdits(base, edits))[i] = -Shifts(edits)[i]
  <1> DEFINE n == Len(edits)
             d == Shifts(edits)
             m == InverseEdits(base, edits)
             h == [i \in 0..n |-> -d[i]]
             Old(i) == Slice(base, edits[i].start, edits[i].end)
  <1>1. /\ base \in Text /\ edits \in Edits /\ t \in Text
        /\ Len(base) \in Nat /\ n \in Nat
        /\ d \in [0..n -> Int] /\ d[0] = 0 /\ DOMAIN edits = 1..n
        BY ExplainsIs, EditsAre
  <1>2. \A i \in 1..n :
          /\ PendingStart(edits, i) \in Int /\ PendingEnd(edits, i) \in Int
          /\ PendingStart(edits, i) = edits[i].start + d[i - 1]
          /\ PendingEnd(edits, i) = edits[i].end + d[i]
          /\ PendingEnd(edits, i) = PendingStart(edits, i) + Len(edits[i].new)
          /\ PendingStart(edits, i) <= PendingEnd(edits, i)
          /\ edits[i].start \in Nat /\ edits[i].end \in Nat /\ Len(edits[i].new) \in Nat
        BY ExplainsIs
  <1>3. \A i \in 1..n : 0 <= PendingStart(edits, i)
    <2>1. Placed(edits, t)
          BY ExplainsIs
    <2> QED BY <2>1 DEF Placed
  <1>4. \A i \in 1..n : edits[i].start <= edits[i].end /\ edits[i].end <= Len(base)
    <2>1. Normal(base, edits)
          BY ExplainsIs
    <2> QED BY <2>1 DEF Normal
  <1>5. \A i \in 1..n : d[i] = d[i - 1] + Growth(edits[i]) /\ Growth(edits[i]) \in Int
        BY <1>1, ShiftsAre
  <1>6. ASSUME NEW i \in 1..n
        PROVE  Old(i) \in Text /\ Len(Old(i)) = edits[i].end - edits[i].start
    <2> DEFINE s == edits[i].start
               e == edits[i].end
    <2>1. s \in 0..Len(base) /\ e \in s..Len(base)
          BY <1>1, <1>2, <1>4
    <2>2. base \in Seq(Bytes)
          BY <1>1 DEF Text
    <2> HIDE DEF s, e
    <2>3. Slice(base, s, e) \in Seq(Bytes) /\ Len(Slice(base, s, e)) = e - s
          BY <2>1, <2>2, Pieces
    <2> QED BY <2>3 DEF s, e, Text
  <1>7. m = [i \in 1..n |-> Edit(PendingStart(edits, i), PendingEnd(edits, i), Old(i))]
        BY <1>1 DEF InverseEdits
  <1> HIDE DEF n, d, m, Old
  <1>8. ASSUME NEW i \in 1..n
        PROVE  m[i] \in EditRecord /\ m[i].start = PendingStart(edits, i) /\ m[i].end = PendingEnd(edits, i)
               /\ m[i].new = Old(i)
    <2>1. m[i] = Edit(PendingStart(edits, i), PendingEnd(edits, i), Old(i))
          BY <1>7
    <2>2. PendingStart(edits, i) \in Nat /\ PendingEnd(edits, i) \in Nat
          BY <1>2, <1>3
    <2> QED BY <1>6, <2>1, <2>2 DEF Edit, EditRecord
  <1>9. m \in Edits /\ Len(m) = n
    <2>1. m \in Seq(EditRecord) /\ Len(m) = n
          BY <1>1, <1>7, <1>8
    <2> QED BY <2>1 DEF Edits, EditRecord
  <1>10. ASSUME NEW i \in 1..n
         PROVE  h[i] = h[i - 1] + Growth(m[i])
    <2>1. i \in 0..n /\ i - 1 \in 0..n
          BY <1>1
    <2>2. d[i] \in Int /\ d[i - 1] \in Int
          BY <1>1, <2>1
    <2>3. Growth(m[i]) = (edits[i].end - edits[i].start) - (PendingEnd(edits, i) - PendingStart(edits, i))
      <3>1. Growth(m[i]) = Len(Old(i)) - (PendingEnd(edits, i) - PendingStart(edits, i))
            BY <1>8 DEF Growth
      <3> QED BY <1>6, <3>1
    <2>4. h[i] = -d[i] /\ h[i - 1] = -d[i - 1]
          BY <2>1
    <2> HIDE DEF h
    <2>5. Growth(m[i]) = d[i - 1] - d[i]
      <3>1. /\ PendingStart(edits, i) = edits[i].start + d[i - 1] /\ PendingEnd(edits, i) = edits[i].end + d[i]
            /\ edits[i].start \in Int /\ edits[i].end \in Int
            BY <1>2
      <3> QED BY ONLY <2>2, <2>3, <3>1
    <2> QED BY <2>2, <2>4, <2>5
  <1>11. h = Shifts(m)
    <2>1. DOMAIN h = 0..Len(m) /\ h = [i \in DOMAIN h |-> h[i]] /\ h[0] = 0
          BY <1>1, <1>9
    <2> HIDE DEF h
    <2>2. \A i \in 1..Len(m) : h[i] = h[i - 1] + Growth(m[i])
          BY <1>9, <1>10
    <2> QED BY <1>9, <2>1, <2>2, ShiftsOnly
  <1>12. \A i \in 0..n : Shifts(m)[i] = -d[i]
        BY <1>11
  <1> HIDE DEF h
  <1>13. ASSUME NEW i \in 1..n
         PROVE  PendingStart(m, i) = edits[i].start /\ PendingEnd(m, i) = edits[i].end
    <2>1. i \in 0..n /\ i - 1 \in 0..n /\ i \in 1..Len(m)
          BY <1>1, <1>9
    <2>2. d[i] \in Int /\ d[i - 1] \in Int
          BY <1>1, <2>1
    <2>3. /\ PendingStart(m, i) = m[i].start + Shifts(m)[i - 1]
          /\ PendingEnd(m, i) = m[i].end + Shifts(m)[i]
          BY <1>9, <2>1, PendingAt
    <2>4. /\ PendingStart(m, i) = PendingStart(edits, i) + (-d[i - 1])
          /\ PendingEnd(m, i) = PendingEnd(edits, i) + (-d[i])
          BY <1>8, <1>12, <2>1, <2>3
    <2>5. /\ PendingStart(edits, i) = edits[i].start + d[i - 1]
          /\ PendingEnd(edits, i) = edits[i].end + d[i]
          /\ edits[i].start \in Nat /\ edits[i].end \in Nat
          BY <1>2
    <2> QED BY ONLY <2>2, <2>4, <2>5
  <1> QED BY <1>8, <1>9, <1>12, <1>13 DEF n, d, m, Old

\* The inverse list explains the base text from the new one.
LEMMA InverseExplains ==
  ASSUME NEW base, NEW edits, NEW t, Explains(base, edits, t)
  PROVE  Explains(t, InverseEdits(base, edits), base)
  <1> DEFINE n == Len(edits)
             d == Shifts(edits)
             m == InverseEdits(base, edits)
  <1>1. /\ base \in Text /\ edits \in Edits /\ t \in Text
        /\ Len(base) \in Nat /\ Len(t) \in Nat /\ n \in Nat
        /\ Len(t) = Len(base) + d[n]
        /\ d \in [0..n -> Int] /\ d[0] = 0
        BY ExplainsIs
  <1>2. /\ m \in Edits /\ Len(m) = n
        /\ \A i \in 1..n : /\ m[i].start = PendingStart(edits, i) /\ m[i].end = PendingEnd(edits, i)
                           /\ m[i].new = Slice(base, edits[i].start, edits[i].end)
                           /\ PendingStart(m, i) = edits[i].start /\ PendingEnd(m, i) = edits[i].end
        /\ \A i \in 0..n : Shifts(m)[i] = -d[i]
        BY InverseIs
  <1>3. \A i \in 1..n :
          /\ PendingStart(edits, i) \in Int /\ PendingEnd(edits, i) \in Int
          /\ PendingStart(edits, i) = edits[i].start + d[i - 1]
          /\ PendingEnd(edits, i) = edits[i].end + d[i]
          /\ PendingStart(edits, i) <= PendingEnd(edits, i)
          /\ edits[i].start \in Nat /\ edits[i].end \in Nat
        BY ExplainsIs
  <1>4. /\ \A i \in 1..n : 0 <= PendingStart(edits, i) /\ PendingEnd(edits, i) <= Len(t)
        /\ \A i, j \in 1..n : i < j => PendingEnd(edits, i) < PendingStart(edits, j)
    <2>1. Placed(edits, t)
          BY ExplainsIs
    <2> QED BY <2>1 DEF Placed
  <1>5. /\ \A i \in 1..n : edits[i].start <= edits[i].end /\ edits[i].end <= Len(base)
        /\ \A i, j \in 1..n : i < j => edits[i].end < edits[j].start
    <2>1. Normal(base, edits)
          BY ExplainsIs
    <2> QED BY <2>1 DEF Normal
  <1> HIDE DEF n, d, m
  <1>6. Normal(t, m)
        BY <1>2, <1>3, <1>4 DEF Normal
  <1>7. Placed(m, base)
    <2>1. ASSUME NEW i \in 1..n
          PROVE  0 <= PendingStart(m, i) /\ PendingEnd(m, i) <= Len(base)
      <3>1. PendingStart(m, i) = edits[i].start /\ PendingEnd(m, i) = edits[i].end
            BY <1>2
      <3>2. edits[i].start \in Nat /\ edits[i].end <= Len(base)
            BY <1>3, <1>5
      <3>3. 0 <= edits[i].start
            BY <3>2
      <3> QED BY <3>1, <3>2, <3>3
    <2>2. \A i, j \in 1..n : i < j => PendingEnd(m, i) < PendingStart(m, j)
          BY <1>2, <1>5
    <2> QED BY <1>2, <2>1, <2>2 DEF Placed
  <1>8. Len(base) = Len(t) + Shifts(m)[Len(m)]
    <2>1. n \in 0..n
          BY <1>1
    <2>2. d[n] \in Int /\ Shifts(m)[Len(m)] = -d[n]
          BY <1>1, <1>2, <2>1
    <2> QED BY <1>1, <2>2
  <1>9. HasNew(m, base)
    <2>1. ASSUME NEW i \in 1..n, NEW k \in 1..Len(m[i].new)
          PROVE  base[PendingStart(m, i) + k] = m[i].new[k]
      <3> DEFINE s == edits[i].start
                 e == edits[i].end
      <3>1. s \in 0..Len(base) /\ e \in s..Len(base)
        <4>1. s \in Nat /\ e \in Nat /\ s <= e /\ e <= Len(base)
              BY <1>3, <1>5
        <4> HIDE DEF s, e
        <4> QED BY <1>1, <4>1
      <3>2. base \in Seq(Bytes)
            BY <1>1 DEF Text
      <3>3. m[i].new = Slice(base, s, e) /\ PendingStart(m, i) = s
            BY <1>2
      <3> HIDE DEF s, e
      <3>4. Len(Slice(base, s, e)) = e - s /\ \A j \in 1..(e - s) : Slice(base, s, e)[j] = base[s + j]
            BY <3>1, <3>2, Pieces
      <3>5. k \in 1..(e - s)
            BY <3>3, <3>4
      <3> QED BY <3>3, <3>4, <3>5
    <2> QED BY <1>2, <2>1 DEF HasNew
  <1>10. HasOld(t, m, base)
    <2>1. SUFFICES ASSUME NEW i \in 0..n, NEW c \in 1..Len(t), Between(m, i, c)
                   PROVE  base[c + Shifts(m)[i]] = t[c]
          BY <1>2 DEF HasOld
    <2>2. /\ \A j \in 1..i : PendingEnd(edits, j) < c
          /\ \A j \in (i + 1)..n : c <= PendingStart(edits, j)
      <3>1. /\ \A j \in 1..i : m[j].end < c
            /\ \A j \in (i + 1)..n : c <= m[j].start
            BY <1>2, <2>1 DEF Between
      <3>2. 1..i \subseteq 1..n /\ (i + 1)..n \subseteq 1..n
            BY <1>1
      <3> QED BY <1>2, <3>1, <3>2
    <2> DEFINE b == c - d[i]
               r == Read(edits, i)
               p == Shown(edits, i)
               u == Upto(base, edits, i)
    <2>3. /\ r \in Nat /\ p \in Nat /\ u \in Nat /\ d[i] \in Int /\ p = r + d[i] /\ u <= Len(base)
          /\ \A x \in (r + 1)..u : Between(edits, i, x)
          BY ReadTo DEF n, d
    <2>4. c \in Int /\ c >= 1 /\ c <= Len(t) /\ i \in Int
          BY <1>1
    <2>5. p < c
      <3>1. CASE i = 0
            BY <2>4, <3>1 DEF Shown
      <3>2. CASE i # 0
        <4>1. i \in 1..i
              BY <1>1, <3>2
        <4> QED BY <2>2, <3>2, <4>1 DEF Shown
      <3> QED BY <3>1, <3>2
    <2>6. c <= u + d[i]
      <3>1. CASE i = n
        <4>1. u = Len(base)
              BY <3>1 DEF Upto, n
        <4> HIDE DEF u
        <4> QED BY <1>1, <2>4, <3>1, <4>1
      <3>2. CASE i # n
        <4> DEFINE k == i + 1
        <4>1. k \in 1..n /\ k \in (i + 1)..n /\ k - 1 = i
              BY <1>1, <3>2
        <4>2. u = edits[k].start
              BY <3>2 DEF Upto, n
        <4> HIDE DEF k, u
        <4>3. c <= PendingStart(edits, k) /\ PendingStart(edits, k) = edits[k].start + d[k - 1]
              BY <1>3, <2>2, <4>1
        <4> QED BY <4>1, <4>2, <4>3
      <3> QED BY <3>1, <3>2
    <2> HIDE DEF r, p, u
    <2>7. b \in (r + 1)..u /\ b \in 1..Len(base) /\ b + d[i] = c /\ c + (-d[i]) = b
          BY <1>1, <2>3, <2>4, <2>5, <2>6, SMTT(30)
    <2> HIDE DEF b
    <2>8. Between(edits, i, b)
          BY <2>3, <2>7
    <2>9. t[b + d[i]] = base[b]
      <3>1. HasOld(base, edits, t)
            BY ExplainsIs
      <3> QED BY <2>7, <2>8, <3>1 DEF HasOld, n, d
    <2>10. Shifts(m)[i] = -d[i]
          BY <1>2
    <2> QED BY <2>7, <2>9, <2>10
  <1> QED BY <1>1, <1>2, <1>6, <1>7, <1>8, <1>9, <1>10 DEF Explains, m

-----------------------------------------------------------------------------
(* Anchors follow an edit.                                                 *)

Places(n) == [offset : 0..n, affinity : Affinity]

\* An anchor settles in the new text and keeps its affinity; one before the edit, or at its start
\* and staying behind what is put in, keeps its place.
SettlesIn(n, anchor, s, e, k) ==
    /\ Settled(anchor, s, e, k) \in Places(n + (k - (e - s)))
    /\ Settled(anchor, s, e, k).affinity = anchor.affinity
    /\ anchor.affinity = "BeforeInsertion" /\ anchor.offset <= s => Settled(anchor, s, e, k) = anchor

LEMMA SettledIs ==
  ASSUME NEW n \in Nat, NEW anchor \in Places(n), NEW s \in 0..n, NEW e \in s..n, NEW k \in Nat
  PROVE  SettlesIn(n, anchor, s, e, k)
  <1> DEFINE o == anchor.offset
             f == anchor.affinity
             moved == CASE o < s \/ (o = s /\ e > s) -> o
                        [] o > s /\ o >= e -> o - (e - s) + k
                        [] o > s /\ o < e -> s + k
                        [] o = s /\ e = s -> IF anchor.affinity = "AfterInsertion" THEN o + k ELSE o
  <1>1. o \in 0..n /\ f \in Affinity /\ anchor = [offset |-> o, affinity |-> f]
        BY DEF Places
  <1>2. o \in Int /\ s \in Int /\ e \in Int /\ 0 <= o /\ o <= n /\ 0 <= s /\ s <= e /\ e <= n
        BY <1>1
  <1>3. Settled(anchor, s, e, k) = [offset |-> moved, affinity |-> f]
        BY <1>1 DEF Settled
  <1>4. moved \in 0..(n + (k - (e - s)))
    <2> HIDE DEF o, f
    <2>1. CASE o < s \/ (o = s /\ e > s)
      <3>1. moved = o
            BY <1>2, <2>1
      <3> HIDE DEF moved
      <3> QED BY <1>2, <2>1, <3>1
    <2>2. CASE o > s /\ o >= e
      <3>1. moved = o - (e - s) + k
            BY <1>2, <2>2
      <3> HIDE DEF moved
      <3> QED BY <1>2, <2>2, <3>1
    <2>3. CASE o > s /\ o < e
      <3>1. moved = s + k
            BY <1>2, <2>3
      <3> HIDE DEF moved
      <3> QED BY <1>2, <2>3, <3>1
    <2>4. CASE o = s /\ e = s
      <3>1. moved = IF anchor.affinity = "AfterInsertion" THEN o + k ELSE o
            BY <1>2, <2>4
      <3> HIDE DEF moved
      <3>2. moved = o + k \/ moved = o
            BY <3>1
      <3> QED BY <1>2, <2>4, <3>2
    <2> QED BY <1>2, <2>1, <2>2, <2>3, <2>4
  <1>5. ASSUME f = "BeforeInsertion", o <= s
        PROVE  moved = o
    <2>1. CASE o < s \/ (o = s /\ e > s)
      <3> HIDE DEF o, f
      <3> QED BY <1>2, <2>1
    <2>2. CASE o = s /\ e = s
      <3>1. moved = IF f = "AfterInsertion" THEN o + k ELSE o
        <4> HIDE DEF o
        <4> QED BY <1>2, <2>2
      <3>2. "BeforeInsertion" # "AfterInsertion"
            OBVIOUS
      <3> HIDE DEF moved, o, f
      <3> QED BY <1>5, <3>1, <3>2
    <2> HIDE DEF moved, o
    <2> QED BY <1>2, <1>5, <2>1, <2>2
  <1> HIDE DEF moved
  <1>6. /\ Settled(anchor, s, e, k) \in Places(n + (k - (e - s)))
        /\ Settled(anchor, s, e, k).affinity = anchor.affinity
        /\ anchor.affinity = "BeforeInsertion" /\ anchor.offset <= s => Settled(anchor, s, e, k) = anchor
        BY <1>1, <1>3, <1>4, <1>5 DEF Places
  <1> QED BY <1>6 DEF SettlesIn

\* Two anchors of one affinity keep their order.
LEMMA SettledInOrder ==
  ASSUME NEW n \in Nat, NEW x \in Places(n), NEW y \in Places(n), NEW s \in 0..n, NEW e \in s..n, NEW k \in Nat,
         x.affinity = y.affinity, x.offset <= y.offset
  PROVE  Settled(x, s, e, k).offset <= Settled(y, s, e, k).offset
  <1> DEFINE Moved(o, f) == CASE o < s \/ (o = s /\ e > s) -> o
                        [] o > s /\ o >= e -> o - (e - s) + k
                        [] o > s /\ o < e -> s + k
                        [] o = s /\ e = s -> IF f = "AfterInsertion" THEN o + k ELSE o
  <1>1. /\ x.offset \in 0..n /\ x = [offset |-> x.offset, affinity |-> x.affinity]
        /\ y.offset \in 0..n /\ y = [offset |-> y.offset, affinity |-> y.affinity]
        BY DEF Places
  <1>2. /\ Settled(x, s, e, k).offset = Moved(x.offset, x.affinity)
        /\ Settled(y, s, e, k).offset = Moved(y.offset, y.affinity)
        BY <1>1 DEF Settled
  <1>3. SUFFICES ASSUME NEW a \in 0..n, NEW b \in 0..n, a <= b, NEW f
                 PROVE  Moved(a, f) <= Moved(b, f)
        BY <1>1, <1>2
  <1>4. /\ a \in Int /\ b \in Int /\ s \in Int /\ e \in Int /\ k \in Int /\ k >= 0
        /\ 0 <= a /\ a <= b /\ b <= n /\ 0 <= s /\ s <= e /\ e <= n
        BY <1>3
  <1> QED BY ONLY <1>4

-----------------------------------------------------------------------------
(* What an edit does to a transaction.                                     *)

\* Every anchor of bs is one of as, with its affinity, and those of one affinity are in
\* the same order.
Follows(as, bs) ==
    /\ \A a \in AnchorId : (as[a] = Dead <=> bs[a] = Dead) /\ bs[a].affinity = as[a].affinity
    /\ \A a, b \in AnchorId :
          as[a] # Dead /\ as[b] # Dead /\ as[a].affinity = as[b].affinity /\ as[a].offset <= as[b].offset
          => bs[a].offset <= bs[b].offset

Transaction(p) ==
    /\ p \in [active : BOOLEAN, refused : BOOLEAN, text : Text, edits : Edits,
              anchors : [AnchorId -> [offset : Nat, affinity : Affinity \cup {"none"}]]]
    /\ p.anchors \in AnchorsIn(p.text)

\* What holds of a transaction begun on a text with these anchors: its edits explain its
\* text, it has the anchors, and the boundary and the text before it are as they were.
Stands(base, as, p) ==
    /\ Transaction(p)
    /\ Explains(base, p.edits, p.text)
    /\ \A a \in AnchorId : as[a] = Dead <=> p.anchors[a] = Dead
    /\ p.edits = <<>> => \A a \in AnchorId : p.anchors[a].offset = as[a].offset
    /\ boundary # 0 => /\ p.anchors[boundary] = as[boundary]
                       /\ Slice(p.text, 0, as[boundary].offset) = Slice(base, 0, as[boundary].offset)

\* The boundary is an anchor that stays behind what is put in at it.
BoundaryIn(as) == boundary # 0 => boundary \in AnchorId /\ as[boundary].affinity = "BeforeInsertion"

\* What Apply makes of a transaction, field by field.
LEMMA ApplyIs ==
  ASSUME NEW p, Transaction(p), NEW s, NEW e, NEW new
  PROVE  /\ Apply(p, s, e, new).text = Replace(p.text, s, e, new)
         /\ Apply(p, s, e, new).edits = Fold(p.text, p.edits, s, e, new)
         /\ Apply(p, s, e, new).anchors =
              [a \in AnchorId |-> IF p.anchors[a] = Dead THEN Dead ELSE Settled(p.anchors[a], s, e, Len(new))]
         /\ Apply(p, s, e, new).active = p.active /\ Apply(p, s, e, new).refused = p.refused
         /\ Apply(p, s, e, new) =
              [active |-> p.active, refused |-> p.refused, text |-> Replace(p.text, s, e, new),
               edits |-> Fold(p.text, p.edits, s, e, new),
               anchors |-> [a \in AnchorId |-> IF p.anchors[a] = Dead THEN Dead
                                               ELSE Settled(p.anchors[a], s, e, Len(new))]]
  <1> DEFINE bs == [a \in AnchorId |-> IF p.anchors[a] = Dead THEN Dead
                                      ELSE Settled(p.anchors[a], s, e, Len(new))]
             u == Replace(p.text, s, e, new)
             m == Fold(p.text, p.edits, s, e, new)
             A == p.active
             F == p.refused
             R == [active : {A}, refused : {F}, text : {p.text, u}, edits : {p.edits, m},
                   anchors : {p.anchors, bs}]
             q == [p EXCEPT !.text = u, !.edits = m, !.anchors = bs]
  <1>1. p \in R
        BY DEF Transaction
  <1>2. Apply(p, s, e, new) = q
        BY Zenon DEF Apply
  <1> HIDE DEF bs, u, m
  <1>3. /\ q.text = u /\ q.edits = m /\ q.anchors = bs /\ q.active = A /\ q.refused = F
        /\ q \in R
        BY <1>1
  <1> HIDE DEF q, A, F
  <1>4. q = [active |-> q.active, refused |-> q.refused, text |-> q.text, edits |-> q.edits, anchors |-> q.anchors]
        BY <1>3
  <1>5. q = [active |-> A, refused |-> F, text |-> u, edits |-> m, anchors |-> bs]
        BY <1>3, <1>4
  <1> QED BY <1>2, <1>3, <1>5, Zenon DEF bs, u, m, A, F

\* The part of it that replays need.
LEMMA ApplyShows ==
  ASSUME NEW p, Transaction(p), NEW s, NEW e, NEW new
  PROVE  /\ Apply(p, s, e, new).text = Replace(p.text, s, e, new)
         /\ Apply(p, s, e, new).active = p.active /\ Apply(p, s, e, new).refused = p.refused
  <1> DEFINE bs == [a \in AnchorId |-> IF p.anchors[a] = Dead THEN Dead
                                      ELSE Settled(p.anchors[a], s, e, Len(new))]
             u == Replace(p.text, s, e, new)
             m == Fold(p.text, p.edits, s, e, new)
             A == p.active
             F == p.refused
             R == [active : {A}, refused : {F}, text : {p.text, u}, edits : {p.edits, m},
                   anchors : {p.anchors, bs}]
             q == [p EXCEPT !.text = u, !.edits = m, !.anchors = bs]
  <1>1. p \in R
        BY DEF Transaction
  <1>2. Apply(p, s, e, new) = q
        BY Zenon DEF Apply
  <1> HIDE DEF bs, u, m
  <1>3. /\ q.text = u /\ q.edits = m /\ q.anchors = bs /\ q.active = A /\ q.refused = F
        /\ q \in R
        BY <1>1
  <1> QED BY <1>2, <1>3, Zenon DEF bs, u, m, A, F

\* Two texts with the same first bytes.
LEMMA SamePrefix ==
  ASSUME NEW t \in Text, NEW u \in Text, NEW b \in Nat, b <= Len(t), b <= Len(u),
         \A i \in 1..b : t[i] = u[i]
  PROVE  Slice(t, 0, b) = Slice(u, 0, b)
  <1>1. t \in Seq(Bytes) /\ u \in Seq(Bytes)
        BY DEF Text
  <1>2. 0 \in 0..Len(t) /\ b \in 0..Len(t) /\ 0 \in 0..Len(u) /\ b \in 0..Len(u) /\ b - 0 = b
        /\ \A i \in 1..b : 0 + i = i
        BY <1>1
  <1>3. Slice(t, 0, b) \in Seq(Bytes) /\ Len(Slice(t, 0, b)) = b - 0 /\ \A i \in 1..(b - 0) : Slice(t, 0, b)[i] = t[0 + i]
        BY <1>1, <1>2, Pieces
  <1>4. Slice(u, 0, b) \in Seq(Bytes) /\ Len(Slice(u, 0, b)) = b - 0 /\ \A i \in 1..(b - 0) : Slice(u, 0, b)[i] = u[0 + i]
        BY <1>1, <1>2, Pieces
  <1>5. Len(Slice(t, 0, b)) = Len(Slice(u, 0, b)) /\ \A i \in 1..Len(Slice(t, 0, b)) : Slice(t, 0, b)[i] = Slice(u, 0, b)[i]
        BY <1>2, <1>3, <1>4
  <1> QED BY <1>3, <1>4, <1>5, SameText

\* An anchor is at a place in the text, and so is not dead.
LEMMA AnchorIs ==
  ASSUME NEW t \in Text, NEW as \in AnchorsIn(t), NEW a \in AnchorId
  PROVE  /\ as[a] # Dead => as[a] \in Places(Len(t))
         /\ as[a] = Dead => as[a].offset = 0 /\ as[a].affinity = "none"
         /\ as[a].affinity \in Affinity => as[a] # Dead
         /\ as[a].offset \in Nat
  <1>1. as[a] \in Places(Len(t)) \cup {Dead}
        BY DEF AnchorsIn, Places
  <1>2. Dead.affinity \notin Affinity /\ Dead.offset = 0 /\ Dead.affinity = "none"
        BY DEF Dead, Affinity
  <1>3. Len(t) \in Nat
        BY DEF Text
  <1>4. CASE as[a] = Dead
        BY <1>2, <1>4
  <1>5. CASE as[a] # Dead
    <2>1. as[a] \in Places(Len(t))
          BY <1>1, <1>5
    <2> DEFINE o == as[a].offset
               n == Len(t)
    <2>2. o \in 0..n /\ n \in Nat
          BY <1>3, <2>1 DEF Places
    <2>3. o \in Nat
      <3> HIDE DEF o, n
      <3> QED BY <2>2
    <2> QED BY <1>5, <2>1, <2>3
  <1> QED BY <1>4, <1>5

\* An edit that is allowed keeps what holds of a transaction, and the order of the anchors.
LEMMA ApplyKeeps ==
  ASSUME NEW base, NEW as, NEW p, Stands(base, as, p), BoundaryIn(as),
         NEW s \in 0..Len(p.text), NEW e \in s..Len(p.text), NEW new \in Text,
         Allowed(p, s, e)
  PROVE  /\ Stands(base, as, Apply(p, s, e, new))
         /\ Apply(p, s, e, new).edits # <<>>
         /\ Follows(p.anchors, Apply(p, s, e, new).anchors)
  <1> DEFINE q == Apply(p, s, e, new)
             t == p.text
             n == Len(p.text)
             k == Len(new)
             N == n + (k - (e - s))
  <1>1. /\ Transaction(p) /\ Explains(base, p.edits, t)
        /\ \A a \in AnchorId : as[a] = Dead <=> p.anchors[a] = Dead
        /\ boundary # 0 => /\ p.anchors[boundary] = as[boundary]
                           /\ Slice(t, 0, as[boundary].offset) = Slice(base, 0, as[boundary].offset)
        BY DEF Stands
  <1>2. t \in Text /\ p.anchors \in AnchorsIn(t) /\ p.active \in BOOLEAN /\ p.refused \in BOOLEAN
        BY <1>1 DEF Transaction
  <1>3. n \in Nat /\ k \in Nat
        BY <1>2 DEF Text
  <1>4. /\ q.text = Replace(t, s, e, new)
        /\ q.edits = Fold(t, p.edits, s, e, new)
        /\ q.anchors = [a \in AnchorId |-> IF p.anchors[a] = Dead THEN Dead ELSE Settled(p.anchors[a], s, e, k)]
        /\ q.active = p.active /\ q.refused = p.refused
        /\ q = [active |-> q.active, refused |-> q.refused, text |-> q.text, edits |-> q.edits,
                anchors |-> q.anchors]
    <2>1. /\ q.text = Replace(p.text, s, e, new)
          /\ q.edits = Fold(p.text, p.edits, s, e, new)
          /\ q.anchors =
              [a \in AnchorId |-> IF p.anchors[a] = Dead THEN Dead ELSE Settled(p.anchors[a], s, e, Len(new))]
          /\ q.active = p.active /\ q.refused = p.refused
          /\ q = [active |-> p.active, refused |-> p.refused, text |-> Replace(p.text, s, e, new),
               edits |-> Fold(p.text, p.edits, s, e, new),
               anchors |-> [a \in AnchorId |-> IF p.anchors[a] = Dead THEN Dead
                                               ELSE Settled(p.anchors[a], s, e, Len(new))]]
          BY <1>1, ApplyIs
    <2> HIDE DEF q
    <2>2. q = [active |-> q.active, refused |-> q.refused, text |-> q.text, edits |-> q.edits,
                anchors |-> q.anchors]
          BY <2>1
    <2> QED BY <2>1, <2>2
  <1> HIDE DEF q
  <1>5. Explains(base, q.edits, q.text) /\ q.edits # <<>>
    <2>1. s \in 0..Len(t) /\ e \in s..Len(t)
          OBVIOUS
    <2> HIDE DEF t
    <2> QED BY <1>1, <1>4, <2>1, FoldExplains
  <1>6. /\ q.text \in Text /\ Len(q.text) = N
        /\ \A i \in 1..s : q.text[i] = t[i]
    <2>1. s \in 0..Len(t) /\ e \in s..Len(t)
          OBVIOUS
    <2>2. /\ Replace(t, s, e, new) \in Text
          /\ Len(Replace(t, s, e, new)) = Len(t) + (Len(new) - (e - s))
          /\ \A i \in 1..s : Replace(t, s, e, new)[i] = t[i]
      <3> HIDE DEF t
      <3> QED BY <1>2, <2>1, ReplacedIs, ZenonT(60)
    <2> QED BY <1>4, <2>2
  <1>7. ASSUME NEW a \in AnchorId
        PROVE  /\ q.anchors[a] \in Places(N) \cup {Dead}
               /\ p.anchors[a] = Dead <=> q.anchors[a] = Dead
               /\ q.anchors[a].affinity = p.anchors[a].affinity
               /\ p.anchors[a].affinity = "BeforeInsertion" /\ p.anchors[a].offset <= s
                  => q.anchors[a] = p.anchors[a]
    <2>1. CASE p.anchors[a] = Dead
      <3>1. q.anchors[a] = Dead
            BY <1>4, <2>1
      <3> QED BY <2>1, <3>1
    <2>2. CASE p.anchors[a] # Dead
      <3> DEFINE x == p.anchors[a]
                 y == Settled(x, s, e, k)
      <3>1. x \in Places(n)
            BY <1>2, <2>2, AnchorIs
      <3>2. q.anchors[a] = y
            BY <1>4, <2>2
      <3> HIDE DEF x
      <3>3. s \in 0..n /\ e \in s..n
            OBVIOUS
      <3>4. /\ y \in Places(n + (k - (e - s))) /\ y.affinity = x.affinity
            /\ x.affinity = "BeforeInsertion" /\ x.offset <= s => y = x
        <4>1. SettlesIn(n, x, s, e, k)
          <5> HIDE DEF n, k
          <5> QED BY <1>3, <3>1, <3>3, SettledIs
        <4> QED BY <4>1 DEF SettlesIn
      <3> HIDE DEF n, k
      <3>5. x.affinity \in Affinity
            BY <3>1 DEF Places
      <3> HIDE DEF y
      <3>6. y # Dead
            BY <3>4, <3>5 DEF Dead, Affinity
      <3> QED BY <2>2, <3>2, <3>4, <3>6 DEF x
    <2> QED BY <2>1, <2>2
  <1>8. q.anchors \in AnchorsIn(q.text)
    <2>1. q.anchors \in [AnchorId -> Places(N) \cup {Dead}]
          BY <1>4, <1>7
    <2> QED BY <1>6, <2>1 DEF AnchorsIn, Places
  <1>9. N \in Nat
    <2>1. q.text \in Text /\ Len(q.text) = N
          BY <1>6
    <2> HIDE DEF N
    <2>2. Len(q.text) \in Nat
          BY <2>1 DEF Text
    <2> QED BY <2>1, <2>2
  <1>10. Transaction(q)
    <2>1. q.edits \in Edits
          BY <1>5, ExplainsIs
    <2>2. q.anchors \in [AnchorId -> [offset : Nat, affinity : Affinity \cup {"none"}]]
      <3>1. \A a \in AnchorId : q.anchors[a] \in [offset : Nat, affinity : Affinity \cup {"none"}]
        <4>1. Places(N) \cup {Dead} \subseteq [offset : Nat, affinity : Affinity \cup {"none"}]
          <5> HIDE DEF N
          <5> QED BY <1>9 DEF Places, Dead
        <4> QED BY <1>7, <4>1
      <3> QED BY <1>4, <3>1
    <2> QED BY <1>2, <1>4, <1>6, <1>8, <2>1, <2>2 DEF Transaction
  <1>11. Follows(p.anchors, q.anchors)
    <2>1. ASSUME NEW a \in AnchorId, NEW b \in AnchorId, p.anchors[a] # Dead, p.anchors[b] # Dead,
                 p.anchors[a].affinity = p.anchors[b].affinity, p.anchors[a].offset <= p.anchors[b].offset
          PROVE  q.anchors[a].offset <= q.anchors[b].offset
      <3> DEFINE x == p.anchors[a]
                 y == p.anchors[b]
      <3>1. x \in Places(n) /\ y \in Places(n)
            BY <1>2, <2>1, AnchorIs
      <3>2. q.anchors[a] = Settled(x, s, e, k) /\ q.anchors[b] = Settled(y, s, e, k)
            BY <1>4, <2>1
      <3>3. s \in 0..n /\ e \in s..n /\ x.affinity = y.affinity /\ x.offset <= y.offset
            BY <2>1
      <3> HIDE DEF n, k, x, y
      <3>4. Settled(x, s, e, k).offset <= Settled(y, s, e, k).offset
            BY <1>3, <3>1, <3>3, SettledInOrder
      <3> QED BY <3>2, <3>4
    <2> QED BY <1>7, <2>1 DEF Follows
  <1>12. ASSUME boundary # 0
         PROVE  /\ q.anchors[boundary] = as[boundary]
                /\ Slice(q.text, 0, as[boundary].offset) = Slice(base, 0, as[boundary].offset)
    <2> DEFINE o == as[boundary].offset
    <2>1. boundary \in AnchorId /\ p.anchors[boundary] = as[boundary] /\ as[boundary].affinity = "BeforeInsertion"
          BY <1>1, <1>12 DEF BoundaryIn
    <2>2. o <= s /\ o \in Nat
      <3>1. s >= o
            BY <1>12, <2>1 DEF Allowed
      <3>2. o \in Nat
            BY <1>2, <2>1, AnchorIs
      <3> QED BY <1>3, <3>1, <3>2
    <2>3. q.anchors[boundary] = as[boundary]
          BY <1>7, <2>1, <2>2
    <2> HIDE DEF o
    <2>4. o <= Len(q.text) /\ o <= Len(t) /\ \A i \in 1..o : q.text[i] = t[i]
      <3>1. s \in 0..n /\ e \in s..n /\ s \in Nat
            BY <1>3
      <3>2. o <= n /\ s <= N
        <4> HIDE DEF n, k
        <4> QED BY <1>3, <2>2, <3>1
      <3> HIDE DEF N
      <3>3. o <= N
        <4> HIDE DEF n, k
        <4> QED BY <1>9, <2>2, <3>1, <3>2
      <3>4. \A i \in 1..o : i \in 1..s
            BY <2>2, <3>1
      <3> QED BY <1>6, <3>2, <3>3, <3>4
    <2>5. Slice(q.text, 0, o) = Slice(t, 0, o)
      <3> HIDE DEF t
      <3> QED BY <1>2, <1>6, <2>2, <2>4, SamePrefix
    <2>6. Slice(t, 0, o) = Slice(base, 0, o)
          BY <1>1, <1>12 DEF o
    <2> QED BY <2>3, <2>5, <2>6 DEF o
  <1>13. \A a \in AnchorId : as[a] = Dead <=> q.anchors[a] = Dead
        BY <1>1, <1>7
  <1>14. Stands(base, as, q)
        BY <1>5, <1>10, <1>12, <1>13 DEF Stands
  <1> QED BY <1>5, <1>11, <1>14 DEF q

-----------------------------------------------------------------------------
(* Replaying a list.                                                       *)

\* Anchors that follow twice follow.
LEMMA FollowsTransitive ==
  ASSUME NEW as, NEW bs, NEW cs, Follows(as, bs), Follows(bs, cs)
  PROVE  Follows(as, cs)
  BY DEF Follows

\* An edit taken or refused keeps what holds of a transaction; without a boundary an edit in
\* the text is taken.
LEMMA TakeKeeps ==
  ASSUME NEW base, NEW as, NEW p, Stands(base, as, p), BoundaryIn(as), NEW x \in EditRecord
  PROVE  /\ Stands(base, as, Take(p, x)) /\ Follows(p.anchors, Take(p, x).anchors)
         /\ Take(p, x).refused \/ /\ ~p.refused /\ Take(p, x).edits # <<>>
                                  /\ Take(p, x).text = Replace(p.text, x.start, x.end, x.new)
         /\ Take(p, x).refused = TRUE \/ Take(p, x).refused = p.refused
         /\ boundary = 0 /\ ~p.refused /\ x.start <= x.end /\ x.end <= Len(p.text) => ~Take(p, x).refused
  <1>1. Transaction(p)
        BY DEF Stands
  <1>2. x.start \in Nat /\ x.end \in Nat /\ x.new \in Text
        BY EditIs
  <1>3. p.text \in Text /\ Len(p.text) \in Nat
        BY <1>1 DEF Transaction, Text
  <1>4. CASE p.refused \/ ~Allowed(p, x.start, x.end)
    <2> DEFINE q == [p EXCEPT !.refused = TRUE]
    <2>1. Take(p, x) = q
          BY <1>4 DEF Take
    <2>2. /\ q.refused = TRUE /\ q.text = p.text /\ q.edits = p.edits /\ q.anchors = p.anchors
          /\ q \in [active : BOOLEAN, refused : BOOLEAN, text : Text, edits : Edits,
                    anchors : [AnchorId -> [offset : Nat, affinity : Affinity \cup {"none"}]]]
          BY <1>1 DEF Transaction
    <2> HIDE DEF q
    <2>3. Transaction(q)
          BY <1>1, <2>2 DEF Transaction
    <2>4. Stands(base, as, q)
          BY <2>2, <2>3 DEF Stands
    <2>5. Follows(p.anchors, q.anchors)
          BY <2>2 DEF Follows
    <2>6. boundary = 0 /\ ~p.refused => ~(x.start <= x.end /\ x.end <= Len(p.text))
          BY <1>4 DEF Allowed
    <2> QED BY <2>1, <2>2, <2>4, <2>5, <2>6
  <1>5. CASE ~p.refused /\ Allowed(p, x.start, x.end)
    <2> DEFINE q == Apply(p, x.start, x.end, x.new)
    <2>1. Take(p, x) = q
          BY <1>5 DEF Take
    <2>2. q.refused = p.refused /\ q.text = Replace(p.text, x.start, x.end, x.new)
      <3> DEFINE s == x.start
                 e == x.end
                 new == x.new
      <3> HIDE DEF s, e, new
      <3>1. /\ Apply(p, s, e, new).refused = p.refused
            /\ Apply(p, s, e, new).text = Replace(p.text, s, e, new)
            BY <1>1, ApplyShows
      <3> QED BY <3>1, Zenon DEF s, e, new
    <2>3. x.start \in 0..Len(p.text) /\ x.end \in x.start..Len(p.text)
          BY <1>2, <1>3, <1>5 DEF Allowed
    <2> HIDE DEF q
    <2>4. Stands(base, as, q) /\ q.edits # <<>> /\ Follows(p.anchors, q.anchors)
          BY <1>2, <1>5, <2>3, ApplyKeeps DEF q
    <2> QED BY <1>5, <2>1, <2>2, <2>4
  <1> QED BY <1>4, <1>5

\* One step of a replay.
TakeStep(p, edits, f, i) == IF i = 0 THEN p ELSE Take(f[i - 1], edits[Len(edits) + 1 - i])

\* TakeAll as a sequence of transactions, one for each edit from the back.
TakesAll(p, edits, f) ==
    /\ TakeAll(p, edits) = f[Len(edits)] /\ f[0] = p
    /\ \A i \in 1..Len(edits) : f[i] = Take(f[i - 1], edits[Len(edits) + 1 - i])

LEMMA TakeAllUnfold ==
  ASSUME NEW p, NEW edits, Len(edits) \in Nat
  PROVE  \E f : TakesAll(p, edits, f)
  <1> DEFINE T == {m \in Nat : \E f : f = [i \in 0..m |-> TakeStep(p, edits, f, i)]}
  <1>1. 0 \in T
    <2>1. [i \in 0..0 |-> p] = [i \in 0..0 |-> TakeStep(p, edits, [j \in 0..0 |-> p], i)]
          BY DEF TakeStep
    <2> QED BY <2>1
  <1>2. ASSUME NEW m \in Nat, m \in T
        PROVE  m + 1 \in T
    <2>1. PICK f : f = [i \in 0..m |-> TakeStep(p, edits, f, i)]
          BY <1>2
    <2> DEFINE g == [i \in 0..(m + 1) |-> IF i = m + 1 THEN TakeStep(p, edits, f, m + 1) ELSE f[i]]
    <2>2. ASSUME NEW i \in 0..(m + 1)
          PROVE  g[i] = TakeStep(p, edits, g, i)
      <3>1. CASE i = 0
            BY <2>1, <3>1 DEF TakeStep
      <3>2. CASE i # 0
        <4>1. i - 1 \in 0..m /\ i - 1 \in 0..(m + 1) /\ i - 1 # m + 1
              BY <3>2
        <4>2. g[i - 1] = f[i - 1]
              BY <4>1
        <4>3. TakeStep(p, edits, g, i) = TakeStep(p, edits, f, i)
          <5> HIDE DEF g
          <5> QED BY <3>2, <4>2, Zenon DEF TakeStep
        <4>4. g[i] = TakeStep(p, edits, f, i)
          <5>1. CASE i = m + 1
                BY <5>1
          <5>2. CASE i # m + 1
            <6>1. i \in 0..m
                  BY <5>2
            <6> QED BY <2>1, <5>2, <6>1
          <5> QED BY <5>1, <5>2
        <4> QED BY <4>3, <4>4
      <3> QED BY <3>1, <3>2
    <2>3. g = [i \in 0..(m + 1) |-> TakeStep(p, edits, g, i)]
      <3> DEFINE h == [i \in 0..(m + 1) |-> TakeStep(p, edits, g, i)]
      <3>1. DOMAIN g = DOMAIN h /\ \A i \in 0..(m + 1) : g[i] = h[i]
            BY <2>2
      <3>2. g = [i \in 0..(m + 1) |-> g[i]] /\ h = [i \in 0..(m + 1) |-> h[i]]
            OBVIOUS
      <3> HIDE DEF g, h
      <3>3. g = h
            BY <3>1, <3>2
      <3> QED BY <3>3 DEF h
    <2> HIDE DEF g
    <2> QED BY <2>3
  <1>3. T = Nat
    <2>1. T \subseteq Nat
          OBVIOUS
    <2> HIDE DEF T
    <2> QED BY <1>1, <1>2, <2>1, Induction
  <1>4. \E f : f = [i \in 0..Len(edits) |-> TakeStep(p, edits, f, i)]
        BY <1>3
  <1> DEFINE d == CHOOSE f : f = [i \in 0..Len(edits) |-> TakeStep(p, edits, f, i)]
  <1>5. TakeAll(p, edits) = d[Len(edits)]
        BY DEF TakeAll, TakeStep
  <1>6. d = [i \in 0..Len(edits) |-> TakeStep(p, edits, d, i)]
        BY <1>4
  <1> HIDE DEF d
  <1>7. \A i \in 0..Len(edits) : d[i] = TakeStep(p, edits, d, i)
        BY <1>6
  <1>8. d[0] = p
    <2>1. 0 \in 0..Len(edits)
          OBVIOUS
    <2> QED BY <1>7, <2>1 DEF TakeStep
  <1>9. \A i \in 1..Len(edits) : d[i] = Take(d[i - 1], edits[Len(edits) + 1 - i])
    <2>1. \A i \in 1..Len(edits) : i \in 0..Len(edits) /\ i # 0
          OBVIOUS
    <2> QED BY <1>7, <2>1, Zenon DEF TakeStep
  <1>10. TakesAll(p, edits, d)
        BY <1>5, <1>8, <1>9, Zenon DEF TakesAll
  <1> QED BY <1>10

\* A transaction that replays lists, in which every list so far led to this text.
Replayed(p, t) ==
    /\ Stands(text, anchors, p) /\ Follows(anchors, p.anchors)
    /\ ~p.refused => p.text = t
    /\ boundary = 0 => ~p.refused

\* A list that explains another text leads there, from back to front.
LEMMA TakeAllLeads ==
  ASSUME NEW p, NEW edits, NEW u, NEW v, Replayed(p, u), BoundaryIn(anchors), Explains(u, edits, v), edits # <<>>
  PROVE  /\ Replayed(TakeAll(p, edits), v)
         /\ ~TakeAll(p, edits).refused => ~p.refused /\ TakeAll(p, edits).edits # <<>>
  <1> DEFINE n == Len(edits)
  <1>1. /\ u \in Text /\ edits \in Edits /\ n \in Nat /\ Len(u) \in Nat /\ n # 0
        BY ExplainsIs
  <1>2. PICK f : /\ TakeAll(p, edits) = f[n] /\ f[0] = p
                 /\ \A i \in 1..n : f[i] = Take(f[i - 1], edits[n + 1 - i])
    <2>1. PICK f : TakesAll(p, edits, f)
          BY <1>1, TakeAllUnfold
    <2> QED BY <2>1, Zenon DEF TakesAll
  <1>3. /\ Rest(edits, 0) = <<>> /\ Rest(edits, n) = edits
        /\ \A k \in 0..(n - 1) : Rest(edits, k + 1) = Spliced(Rest(edits, k), 1, 0, edits[n - k])
        /\ \A k \in 1..n : Rest(edits, k) # <<>> /\ Rest(edits, k)[1] = edits[n + 1 - k]
        BY <1>1, RestIs
  <1>4. /\ \A i \in 1..n : edits[i].start <= edits[i].end /\ edits[i].end <= Len(u)
        /\ \A i, j \in 1..n : i < j => edits[i].end < edits[j].start
    <2>1. Normal(u, edits)
          BY ExplainsIs
    <2> QED BY <2>1 DEF Normal
  <1>5. \A i \in 1..n : edits[i] \in EditRecord
        BY <1>1, EditsAre
  <1>6. /\ Stands(text, anchors, p) /\ Follows(anchors, p.anchors)
        /\ ~p.refused => p.text = u
        /\ boundary = 0 => ~p.refused
        BY DEF Replayed
  <1> DEFINE Good(k, q) == /\ Stands(text, anchors, q) /\ Follows(anchors, q.anchors)
                           /\ ~q.refused => ~p.refused /\ Explains(u, Rest(edits, k), q.text)
                           /\ ~q.refused /\ k # 0 => q.edits # <<>>
                           /\ boundary = 0 => ~q.refused
             T == {k \in Nat : k \in 0..n => Good(k, f[k])}
  <1> HIDE DEF n
  <1>7. 0 \in T
    <2>1. Explains(u, Rest(edits, 0), u)
          BY <1>1, <1>3, NothingExplains
    <2>2. Good(0, p)
          BY <1>6, <2>1
    <2> QED BY <1>2, <2>2
  <1>8. ASSUME NEW k \in Nat, k \in T
        PROVE  k + 1 \in T
    <2> DEFINE j == k + 1
               q == f[k]
               x == edits[n - k]
               r == Rest(edits, k)
    <2>1. SUFFICES ASSUME j \in 0..n
                   PROVE  Good(j, f[j])
          OBVIOUS
    <2>2. k \in 0..n /\ j \in 1..n /\ j - 1 = k /\ n + 1 - j = n - k /\ n - k \in 1..n /\ k \in 0..(n - 1) /\ j # 0
          BY <1>1, <2>1
    <2>3. Good(k, q)
          BY <1>8, <2>2
    <2>4. f[j] = Take(q, x) /\ x \in EditRecord
      <3>1. f[j] = Take(f[j - 1], edits[n + 1 - j])
            BY <1>2, <2>2
      <3> HIDE DEF j
      <3> QED BY <1>5, <2>2, <3>1
    <2>5. x.start <= x.end /\ x.end <= Len(u)
          BY <1>4, <2>2
    <2>6. r # <<>> => x.end < r[1].start
      <3>1. CASE k = 0
            BY <1>3, <3>1
      <3>2. CASE k # 0
        <4>1. k \in 1..n /\ n + 1 - k \in 1..n /\ n - k < n + 1 - k
              BY <1>1, <2>2, <3>2
        <4>2. r[1] = edits[n + 1 - k]
              BY <1>3, <4>1
        <4>3. edits[n - k].end < edits[n + 1 - k].start
              BY <1>4, <2>2, <4>1
        <4> QED BY <4>2, <4>3
      <3> QED BY <3>1, <3>2
    <2>7. Rest(edits, j) = Spliced(r, 1, 0, x)
          BY <1>3, <2>2
    <2> HIDE DEF x, r, q, j
    <2> DEFINE w == Take(q, x)
    <2>8. Stands(text, anchors, q) /\ Follows(anchors, q.anchors)
          BY <2>3
    <2>9. /\ Stands(text, anchors, w) /\ Follows(q.anchors, w.anchors)
          /\ w.refused \/ /\ ~q.refused /\ w.edits # <<>>
                          /\ w.text = Replace(q.text, x.start, x.end, x.new)
          /\ boundary = 0 /\ ~q.refused /\ x.start <= x.end /\ x.end <= Len(q.text) => ~w.refused
          BY <2>4, <2>8, TakeKeeps
    <2>10. Follows(anchors, w.anchors)
          BY <2>8, <2>9, FollowsTransitive
    <2>11. ASSUME ~q.refused
           PROVE  /\ x.end <= Len(q.text)
                  /\ Explains(u, Spliced(r, 1, 0, x), Replace(q.text, x.start, x.end, x.new))
      <3>1. Explains(u, r, q.text)
            BY <2>3, <2>11 DEF r
      <3> QED BY <2>4, <2>5, <2>6, <3>1, Prepended
    <2> HIDE DEF w
    <2>12. ~w.refused => ~p.refused /\ Explains(u, Rest(edits, j), w.text)
          BY <2>3, <2>7, <2>9, <2>11
    <2>13. boundary = 0 => ~w.refused
          BY <2>3, <2>5, <2>9, <2>11
    <2>14. Good(j, w)
          BY <2>9, <2>10, <2>12, <2>13
    <2> HIDE DEF Good
    <2>15. f[j] = w
          BY <2>4 DEF w
    <2> QED BY <2>14, <2>15
  <1>9. T = Nat
    <2>1. T \subseteq Nat
          OBVIOUS
    <2> HIDE DEF T
    <2> QED BY <1>7, <1>8, <2>1, Induction
  <1> DEFINE q == f[n]
  <1>10. Good(n, q)
    <2>1. n \in 0..n
          BY <1>1
    <2> HIDE DEF Good
    <2> QED BY <1>1, <1>9, <2>1
  <1>11. TakeAll(p, edits) = q
        BY <1>2
  <1> HIDE DEF q
  <1>12. ~q.refused => q.text = v
    <2>1. SUFFICES ASSUME ~q.refused
                   PROVE  q.text = v
          OBVIOUS
    <2>2. Explains(u, edits, q.text)
          BY <1>3, <1>10, <2>1
    <2> QED BY <2>2, ExplainsOne
  <1>13. Replayed(q, v)
        BY <1>10, <1>12 DEF Replayed
  <1> QED BY <1>1, <1>10, <1>11, <1>13

\* One list of a route.
ReplayStep(first, lists, f, i) == IF i = 0 THEN first ELSE TakeAll(f[i - 1], lists[i])

\* Replay as a sequence of transactions, one for each list.
LEMMA ReplayUnfold ==
  ASSUME NEW lists, Len(lists) \in Nat
  PROVE  \E f : /\ Replay(lists) = f[Len(lists)] /\ f[0] = Opened
                /\ \A i \in 1..Len(lists) : f[i] = TakeAll(f[i - 1], lists[i])
  <1> DEFINE first == Opened
  <1> HIDE DEF first
  <1> DEFINE T == {m \in Nat : \E f : f = [i \in 0..m |-> ReplayStep(first, lists, f, i)]}
  <1>1. 0 \in T
    <2>1. [i \in 0..0 |-> first] = [i \in 0..0 |-> ReplayStep(first, lists, [j \in 0..0 |-> first], i)]
          BY DEF ReplayStep
    <2> QED BY <2>1
  <1>2. ASSUME NEW m \in Nat, m \in T
        PROVE  m + 1 \in T
    <2>1. PICK f : f = [i \in 0..m |-> ReplayStep(first, lists, f, i)]
          BY <1>2
    <2> DEFINE g == [i \in 0..(m + 1) |-> IF i = m + 1 THEN ReplayStep(first, lists, f, m + 1) ELSE f[i]]
    <2>2. ASSUME NEW i \in 0..(m + 1)
          PROVE  g[i] = ReplayStep(first, lists, g, i)
      <3>1. CASE i = 0
            BY <2>1, <3>1 DEF ReplayStep
      <3>2. CASE i # 0
        <4>1. i - 1 \in 0..m /\ i - 1 \in 0..(m + 1) /\ i - 1 # m + 1
              BY <3>2
        <4>2. g[i - 1] = f[i - 1]
              BY <4>1
        <4>3. ReplayStep(first, lists, g, i) = ReplayStep(first, lists, f, i)
          <5> HIDE DEF g
          <5> QED BY <3>2, <4>2, Zenon DEF ReplayStep
        <4>4. g[i] = ReplayStep(first, lists, f, i)
          <5>1. CASE i = m + 1
                BY <5>1
          <5>2. CASE i # m + 1
            <6>1. i \in 0..m
                  BY <5>2
            <6> QED BY <2>1, <5>2, <6>1
          <5> QED BY <5>1, <5>2
        <4> QED BY <4>3, <4>4
      <3> QED BY <3>1, <3>2
    <2>3. g = [i \in 0..(m + 1) |-> ReplayStep(first, lists, g, i)]
      <3> DEFINE h == [i \in 0..(m + 1) |-> ReplayStep(first, lists, g, i)]
      <3>1. DOMAIN g = DOMAIN h /\ \A i \in 0..(m + 1) : g[i] = h[i]
            BY <2>2
      <3>2. g = [i \in 0..(m + 1) |-> g[i]] /\ h = [i \in 0..(m + 1) |-> h[i]]
            OBVIOUS
      <3> HIDE DEF g, h
      <3>3. g = h
            BY <3>1, <3>2
      <3> QED BY <3>3 DEF h
    <2> HIDE DEF g
    <2> QED BY <2>3
  <1>3. T = Nat
    <2>1. T \subseteq Nat
          OBVIOUS
    <2> HIDE DEF T
    <2> QED BY <1>1, <1>2, <2>1, Induction
  <1>4. \E f : f = [i \in 0..Len(lists) |-> ReplayStep(first, lists, f, i)]
        BY <1>3
  <1> DEFINE d == CHOOSE f : f = [i \in 0..Len(lists) |-> ReplayStep(first, lists, f, i)]
  <1>5. Replay(lists) = d[Len(lists)]
        BY DEF Replay, ReplayStep, first
  <1>6. d = [i \in 0..Len(lists) |-> ReplayStep(first, lists, d, i)]
        BY <1>4
  <1> HIDE DEF d
  <1>7. \A i \in 0..Len(lists) : d[i] = ReplayStep(first, lists, d, i)
        BY <1>6
  <1>8. d[0] = Opened
    <2>1. 0 \in 0..Len(lists)
          OBVIOUS
    <2> QED BY <1>7, <2>1 DEF ReplayStep, first
  <1>9. \A i \in 1..Len(lists) : d[i] = TakeAll(d[i - 1], lists[i])
    <2>1. \A i \in 1..Len(lists) : i \in 0..Len(lists) /\ i # 0
          OBVIOUS
    <2> QED BY <1>7, <2>1, Zenon DEF ReplayStep
  <1> QED BY <1>5, <1>8, <1>9

\* Lists that lead from text to text, each of them a change.
Route(lists, texts) ==
    \A i \in 1..Len(lists) : lists[i] # <<>> /\ Explains(texts[i - 1], lists[i], texts[i])

\* A transaction stands when it is opened.
LEMMA OpenedStands ==
  ASSUME text \in Text, anchors \in AnchorsIn(text)
  PROVE  Stands(text, anchors, Opened)
  <1> DEFINE o == Opened
  <1>1. /\ o.active = TRUE /\ o.refused = FALSE /\ o.text = text /\ o.edits = <<>> /\ o.anchors = anchors
        /\ o = [active |-> TRUE, refused |-> FALSE, text |-> text, edits |-> <<>>, anchors |-> anchors]
        BY DEF Opened
  <1> HIDE DEF o
  <1>2. o.anchors \in [AnchorId -> [offset : Nat, affinity : Affinity \cup {"none"}]]
    <2>1. Len(text) \in Nat
          BY DEF Text
    <2>2. [offset : 0..Len(text), affinity : Affinity] \cup {Dead} \subseteq [offset : Nat, affinity : Affinity \cup {"none"}]
          BY <2>1 DEF Dead
    <2> QED BY <1>1, <2>2 DEF AnchorsIn
  <1>3. <<>> \in Edits
        BY DEF Edits
  <1>4. Transaction(o)
        BY <1>1, <1>2, <1>3 DEF Transaction
  <1>5. Explains(text, <<>>, text)
        BY NothingExplains
  <1>6. Stands(text, anchors, o)
        BY <1>1, <1>4, <1>5 DEF Stands
  <1> QED BY <1>6 DEF o

\* A replay along a route from the current text ends in the last text of the route, in
\* a list of edits that is empty only if the route is, and is refused only if a boundary
\* stands.
LEMMA ReplayLeads ==
  ASSUME NEW lists, NEW texts, Len(lists) \in Nat, Route(lists, texts), texts[0] = text,
         text \in Text, anchors \in AnchorsIn(text), BoundaryIn(anchors)
  PROVE  /\ Replayed(Replay(lists), texts[Len(lists)])
         /\ ~Replay(lists).refused => (Replay(lists).edits = <<>> <=> Len(lists) = 0)
  <1> DEFINE n == Len(lists)
  <1>1. PICK f : /\ Replay(lists) = f[n] /\ f[0] = Opened
                 /\ \A i \in 1..n : f[i] = TakeAll(f[i - 1], lists[i])
        BY ReplayUnfold
  <1>2. n \in Nat
        OBVIOUS
  <1> DEFINE Good(i, q) == /\ Replayed(q, texts[i])
                           /\ ~q.refused => (q.edits = <<>> <=> i = 0)
             T == {i \in Nat : i \in 0..n => Good(i, f[i])}
  <1> HIDE DEF n
  <1>3. 0 \in T
    <2> DEFINE o == Opened
    <2>1. o.refused = FALSE /\ o.text = text /\ o.edits = <<>> /\ o.anchors = anchors
          BY DEF Opened
    <2>2. Stands(text, anchors, o)
          BY OpenedStands
    <2> HIDE DEF o
    <2>3. Follows(anchors, o.anchors)
          BY <2>1 DEF Follows
    <2>4. Good(0, o)
          BY <2>1, <2>2, <2>3 DEF Replayed
    <2> QED BY <1>1, <2>4 DEF o
  <1>4. ASSUME NEW k \in Nat, k \in T
        PROVE  k + 1 \in T
    <2> DEFINE j == k + 1
    <2>1. SUFFICES ASSUME j \in 0..n
                   PROVE  Good(j, f[j])
          OBVIOUS
    <2>2. k \in 0..n /\ j \in 1..n /\ j - 1 = k /\ j # 0
          BY <1>2, <2>1
    <2>3. Replayed(f[k], texts[k])
          BY <1>4, <2>2
    <2> HIDE DEF j
    <2>4. lists[j] # <<>> /\ Explains(texts[k], lists[j], texts[j])
          BY <2>2 DEF Route, n
    <2>5. f[j] = TakeAll(f[k], lists[j])
          BY <1>1, <2>2
    <2>6. /\ Replayed(TakeAll(f[k], lists[j]), texts[j])
          /\ ~TakeAll(f[k], lists[j]).refused => TakeAll(f[k], lists[j]).edits # <<>>
          BY <2>3, <2>4, TakeAllLeads
    <2> QED BY <2>2, <2>5, <2>6
  <1>5. T = Nat
    <2>1. T \subseteq Nat
          OBVIOUS
    <2> HIDE DEF T
    <2> QED BY <1>3, <1>4, <2>1, Induction
  <1>6. Good(n, f[n])
    <2>1. n \in 0..n
          BY <1>2
    <2> HIDE DEF Good
    <2> QED BY <1>2, <1>5, <2>1
  <1> QED BY <1>1, <1>6 DEF n

-----------------------------------------------------------------------------
(* The undo tree.                                                          *)

\* Every node but the root has an earlier one as its parent, and its two lists lead from
\* the parent's text to its own and back.
Tree ==
    /\ nodes \in Seq([text : Text, forward : Edits, inverse : Edits, parent : Nat])
    /\ Len(nodes) >= 1 /\ nodes[1].parent = 0
    /\ \A m \in 2..Len(nodes) :
          /\ nodes[m].parent \in 1..(m - 1)
          /\ nodes[m].forward # <<>> /\ nodes[m].inverse # <<>>
          /\ Explains(nodes[nodes[m].parent].text, nodes[m].forward, nodes[m].text)
          /\ Explains(nodes[m].text, nodes[m].inverse, nodes[nodes[m].parent].text)

\* What the nodes of a tree are; the parent is 0 at the root only.
LEMMA TreeIs ==
  ASSUME Tree
  PROVE  /\ Len(nodes) \in Nat /\ Len(nodes) >= 1 /\ DOMAIN nodes = 1..Len(nodes)
         /\ \A m \in 1..Len(nodes) :
               /\ nodes[m].text \in Text /\ nodes[m].forward \in Edits /\ nodes[m].inverse \in Edits
               /\ nodes[m].parent \in 0..(m - 1) /\ (nodes[m].parent = 0 <=> m = 1)
  <1>1. /\ nodes \in Seq([text : Text, forward : Edits, inverse : Edits, parent : Nat])
        /\ Len(nodes) >= 1 /\ nodes[1].parent = 0
        /\ \A m \in 2..Len(nodes) : nodes[m].parent \in 1..(m - 1)
        BY DEF Tree
  <1>2. ASSUME NEW m \in 1..Len(nodes)
        PROVE  /\ nodes[m].text \in Text /\ nodes[m].forward \in Edits /\ nodes[m].inverse \in Edits
               /\ nodes[m].parent \in 0..(m - 1) /\ (nodes[m].parent = 0 <=> m = 1)
    <2> DEFINE R == [text : Text, forward : Edits, inverse : Edits, parent : Nat]
    <2>1. nodes[m] \in R
      <3>1. nodes \in Seq(R)
            BY <1>1
      <3> HIDE DEF R
      <3> QED BY <3>1
    <2>2. m = 1 \/ m \in 2..Len(nodes)
          BY <1>1
    <2>3. CASE m = 1
          BY <1>1, <2>1, <2>3
    <2>4. CASE m \in 2..Len(nodes)
      <3>1. nodes[m].parent \in 1..(m - 1)
            BY <1>1, <2>4
      <3> QED BY <2>1, <2>4, <3>1
    <2> QED BY <2>2, <2>3, <2>4
  <1> QED BY <1>1, <1>2

\* One step up the tree.
ChainStep(n, f, i) == IF i = 0 THEN n ELSE Parent(f[i - 1])

\* A chain begins with its node and goes on with parents.
LEMMA ChainUnfold ==
  ASSUME NEW n, Len(nodes) \in Nat
  PROVE  /\ DOMAIN Chain(n) = 0..Len(nodes) /\ Chain(n)[0] = n
         /\ \A i \in 1..Len(nodes) : Chain(n)[i] = Parent(Chain(n)[i - 1])
  <1> DEFINE T == {m \in Nat : \E f : f = [i \in 0..m |-> ChainStep(n, f, i)]}
  <1>1. 0 \in T
    <2>1. [i \in 0..0 |-> n] = [i \in 0..0 |-> ChainStep(n, [j \in 0..0 |-> n], i)]
          BY DEF ChainStep
    <2> QED BY <2>1
  <1>2. ASSUME NEW m \in Nat, m \in T
        PROVE  m + 1 \in T
    <2>1. PICK f : f = [i \in 0..m |-> ChainStep(n, f, i)]
          BY <1>2
    <2> DEFINE g == [i \in 0..(m + 1) |-> IF i = m + 1 THEN ChainStep(n, f, m + 1) ELSE f[i]]
    <2>2. ASSUME NEW i \in 0..(m + 1)
          PROVE  g[i] = ChainStep(n, g, i)
      <3>1. CASE i = 0
            BY <2>1, <3>1 DEF ChainStep
      <3>2. CASE i # 0
        <4>1. i - 1 \in 0..m /\ i - 1 \in 0..(m + 1) /\ i - 1 # m + 1
              BY <3>2
        <4>2. g[i - 1] = f[i - 1]
              BY <4>1
        <4>3. ChainStep(n, g, i) = ChainStep(n, f, i)
          <5> HIDE DEF g
          <5> QED BY <3>2, <4>2, Zenon DEF ChainStep
        <4>4. g[i] = ChainStep(n, f, i)
          <5>1. CASE i = m + 1
                BY <5>1
          <5>2. CASE i # m + 1
            <6>1. i \in 0..m
                  BY <5>2
            <6> QED BY <2>1, <5>2, <6>1
          <5> QED BY <5>1, <5>2
        <4> QED BY <4>3, <4>4
      <3> QED BY <3>1, <3>2
    <2>3. g = [i \in 0..(m + 1) |-> ChainStep(n, g, i)]
      <3> DEFINE h == [i \in 0..(m + 1) |-> ChainStep(n, g, i)]
      <3>1. DOMAIN g = DOMAIN h /\ \A i \in 0..(m + 1) : g[i] = h[i]
            BY <2>2
      <3>2. g = [i \in 0..(m + 1) |-> g[i]] /\ h = [i \in 0..(m + 1) |-> h[i]]
            OBVIOUS
      <3> HIDE DEF g, h
      <3>3. g = h
            BY <3>1, <3>2
      <3> QED BY <3>3 DEF h
    <2> HIDE DEF g
    <2> QED BY <2>3
  <1>3. T = Nat
    <2>1. T \subseteq Nat
          OBVIOUS
    <2> HIDE DEF T
    <2> QED BY <1>1, <1>2, <2>1, Induction
  <1>4. \E f : f = [i \in 0..Len(nodes) |-> ChainStep(n, f, i)]
        BY <1>3
  <1> DEFINE d == Chain(n)
  <1>5. d = CHOOSE f : f = [i \in 0..Len(nodes) |-> ChainStep(n, f, i)]
        BY DEF Chain, ChainStep
  <1> HIDE DEF d
  <1>6. d = [i \in 0..Len(nodes) |-> ChainStep(n, d, i)]
        BY <1>4, <1>5
  <1>7. \A i \in 0..Len(nodes) : d[i] = ChainStep(n, d, i)
        BY <1>6
  <1>8. d[0] = n
    <2>1. 0 \in 0..Len(nodes)
          OBVIOUS
    <2> QED BY <1>7, <2>1 DEF ChainStep
  <1>9. \A i \in 1..Len(nodes) : d[i] = Parent(d[i - 1])
    <2>1. \A i \in 1..Len(nodes) : i \in 0..Len(nodes) /\ i # 0
          OBVIOUS
    <2> QED BY <1>7, <2>1, Zenon DEF ChainStep
  <1> QED BY <1>6, <1>8, <1>9 DEF d

\* The chain of a node goes through its ancestors to the root, and is 0 from there on.
LEMMA ChainIs ==
  ASSUME Tree, NEW n \in 1..Len(nodes)
  PROVE  /\ DOMAIN Chain(n) = 0..Len(nodes) /\ Chain(n)[0] = n
         /\ \A i \in 0..Len(nodes) : Chain(n)[i] \in 0..Len(nodes)
         /\ \A i \in 1..Len(nodes) : Chain(n)[i - 1] # 0 => Chain(n)[i] = nodes[Chain(n)[i - 1]].parent
         /\ \A i, j \in 0..Len(nodes) : i <= j /\ Chain(n)[i] = 0 => Chain(n)[j] = 0
         /\ \E i \in 0..Len(nodes) : Chain(n)[i] = 1
  <1> DEFINE N == Len(nodes)
             c == Chain(n)
  <1>1. /\ N \in Nat /\ N >= 1 /\ n \in 1..N
        /\ \A m \in 1..N : nodes[m].parent \in 0..(m - 1) /\ (nodes[m].parent = 0 <=> m = 1)
        BY TreeIs
  <1>2. /\ DOMAIN c = 0..N /\ c[0] = n
        /\ \A i \in 1..N : c[i] = Parent(c[i - 1])
        BY <1>1, ChainUnfold
  <1> HIDE DEF N, c
  <1> DEFINE Good(i) == c[i] \in 0..N /\ (c[i] = 0 \/ c[i] + i <= n)
             T == {i \in Nat : i \in 0..N => Good(i)}
  <1>3. 0 \in T
        BY <1>1, <1>2
  <1>4. ASSUME NEW k \in Nat, k \in T
        PROVE  k + 1 \in T
    <2> DEFINE j == k + 1
    <2>1. SUFFICES ASSUME j \in 0..N
                   PROVE  Good(j)
          OBVIOUS
    <2>2. k \in 0..N /\ j \in 1..N /\ j - 1 = k
          BY <1>1, <2>1
    <2>3. Good(k)
          BY <1>4, <2>2
    <2>4. c[j] = Parent(c[k])
      <3> HIDE DEF j
      <3>1. c[j] = Parent(c[j - 1])
            BY <1>2, <2>2
      <3> QED BY <2>2, <3>1
    <2>5. CASE c[k] = 0
      <3>1. c[j] = 0
            BY <2>4, <2>5 DEF Parent
      <3> QED BY <1>1, <3>1
    <2>6. CASE c[k] # 0
      <3>1. c[j] = nodes[c[k]].parent /\ c[k] \in 1..N /\ c[k] + k <= n
            BY <1>1, <2>3, <2>4, <2>6 DEF Parent
      <3>2. c[j] \in 0..(c[k] - 1)
            BY <1>1, <3>1
      <3> QED BY <1>1, <2>2, <3>1, <3>2, SMTT(30)
    <2> QED BY <2>5, <2>6
  <1>5. T = Nat
    <2>1. T \subseteq Nat
          OBVIOUS
    <2> HIDE DEF T
    <2> QED BY <1>3, <1>4, <2>1, Induction
  <1>6. \A i \in 0..N : Good(i)
    <2> HIDE DEF Good
    <2> QED BY <1>1, <1>5
  <1>7. c[N] = 0
    <2>1. N \in 0..N
          BY <1>1
    <2>2. c[N] \in 0..N /\ (c[N] = 0 \/ c[N] + N <= n)
          BY <1>6, <2>1
    <2> QED BY <1>1, <2>2
  <1>8. ASSUME NEW i \in 0..N, c[i] = 0
        PROVE  \A j \in 0..N : i <= j => c[j] = 0
    <2> DEFINE U == {j \in Nat : j \in 0..N /\ i <= j => c[j] = 0}
    <2>1. 0 \in U
          BY <1>1, <1>8
    <2>2. ASSUME NEW k \in Nat, k \in U
          PROVE  k + 1 \in U
      <3> DEFINE j == k + 1
      <3>1. SUFFICES ASSUME j \in 0..N, i <= j
                     PROVE  c[j] = 0
            OBVIOUS
      <3>2. CASE i = j
            BY <1>8, <3>2
      <3>3. CASE i # j
        <4>1. k \in 0..N /\ j \in 1..N /\ j - 1 = k /\ i <= k
              BY <1>1, <3>1, <3>3
        <4>2. c[k] = 0
              BY <2>2, <4>1
        <4> HIDE DEF j
        <4>3. c[j] = Parent(c[j - 1])
              BY <1>2, <4>1
        <4> QED BY <4>1, <4>2, <4>3 DEF Parent
      <3> QED BY <3>2, <3>3
    <2>3. U = Nat
      <3>1. U \subseteq Nat
            OBVIOUS
      <3> HIDE DEF U
      <3> QED BY <2>1, <2>2, <3>1, Induction
    <2>4. ASSUME NEW j \in 0..N, i <= j
          PROVE  c[j] = 0
      <3>1. j \in Nat
            BY <1>1
      <3>2. j \in U
        <4> HIDE DEF U
        <4> QED BY <2>3, <3>1
      <3> QED BY <2>4, <3>2
    <2> QED BY <2>4
  <1>9. \E i \in 0..N : c[i] = 1
    <2> DEFINE Z == {i \in 0..N : c[i] = 0}
               z == Min(Z)
    <2>1. Z \subseteq Nat /\ N \in Z
          BY <1>1, <1>7
    <2> HIDE DEF Z
    <2>2. z \in Z /\ \A y \in Z : z <= y
          BY <2>1, LeastNumber
    <2> HIDE DEF z
    <2>3. z \in 0..N /\ c[z] = 0
          BY <2>2 DEF Z
    <2>4. z # 0
          BY <1>1, <1>2, <2>3
    <2> DEFINE y == z - 1
    <2>5. y \in 0..N /\ z \in 1..N /\ ~(z <= y) /\ z - 1 = y
          BY <1>1, <2>3, <2>4
    <2> HIDE DEF y
    <2>6. y \notin Z
          BY <2>2, <2>5
    <2>7. c[y] # 0 /\ c[y] \in 1..N
      <3>1. c[y] # 0
            BY <2>5, <2>6 DEF Z
      <3>2. c[y] \in 0..N
            BY <1>6, <2>5
      <3> QED BY <1>1, <3>1, <3>2
    <2>8. c[z] = Parent(c[y])
      <3>1. c[z] = Parent(c[z - 1])
            BY <1>2, <2>5
      <3> QED BY <2>5, <3>1
    <2>9. nodes[c[y]].parent = 0
          BY <2>3, <2>7, <2>8 DEF Parent
    <2> QED BY <1>1, <2>5, <2>7, <2>9
  <1>10. ASSUME NEW i \in 1..N, c[i - 1] # 0
         PROVE  c[i] = nodes[c[i - 1]].parent
         BY <1>2, <1>10 DEF Parent
  <1> QED BY <1>2, <1>6, <1>8, <1>9, <1>10 DEF N, c

\* What PathTo makes of the two chains: where they meet, each seen from its own end.
Meets(here, there, k, l) ==
    /\ k \in Nat /\ l \in Nat /\ k \in DOMAIN here /\ l \in DOMAIN there /\ here[k] = there[l]
    /\ \A i \in 0..k : i \in DOMAIN here /\ here[i] # 0
    /\ \A i \in 0..l : i \in DOMAIN there /\ there[i] # 0
    /\ here[0] = there[0] => k = 0 /\ l = 0

\* Two chains meet at the first node of the one that is in the other, and below it they have
\* no node in common.
LEMMA ChainsMeet ==
  ASSUME Tree, NEW m \in 1..Len(nodes), NEW n \in 1..Len(nodes),
         NEW here, here = Chain(m), NEW there, there = Chain(n),
         NEW k, k = Min({i \in DOMAIN here : here[i] \in Range(there)}),
         NEW l, l = Min({i \in DOMAIN there : there[i] = here[k]})
  PROVE  Meets(here, there, k, l)
  <1> DEFINE N == Len(nodes)
             A == {i \in DOMAIN here : here[i] \in Range(there)}
             B == {i \in DOMAIN there : there[i] = here[k]}
  <1>1. N \in Nat
        BY TreeIs
  <1>2. /\ DOMAIN here = 0..N
        /\ \A i, j \in 0..N : i <= j /\ here[i] = 0 => here[j] = 0
        BY ChainIs
  <1>3. /\ DOMAIN there = 0..N
        /\ \A i, j \in 0..N : i <= j /\ there[i] = 0 => there[j] = 0
        BY ChainIs
  <1>4. PICK x \in 0..N : here[x] = 1
        BY ChainIs
  <1>5. PICK y \in 0..N : there[y] = 1
        BY ChainIs
  <1> HIDE DEF N
  <1>6. x \in A
    <2>1. here[x] \in Range(there)
          BY <1>3, <1>4, <1>5 DEF Range
    <2> QED BY <1>2, <2>1
  <1>7. A \subseteq Nat /\ B \subseteq Nat
        BY <1>1, <1>2, <1>3
  <1> DEFINE M == Min(A)
  <1>8. k = M
        OBVIOUS
  <1>9. k \in A /\ \A i \in A : k <= i
    <2> HIDE DEF A
    <2>1. M \in A /\ \A i \in A : M <= i
          BY <1>6, <1>7, LeastNumber
    <2> QED BY <1>8, <2>1
  <1>10. k \in 0..N /\ here[k] \in Range(there) /\ k <= x
        BY <1>2, <1>6, <1>9
  <1>11. PICK z \in 0..N : there[z] = here[k]
        BY <1>3, <1>10 DEF Range
  <1>12. z \in B
        BY <1>3, <1>11
  <1> DEFINE L == Min(B)
  <1>13. l = L
        OBVIOUS
  <1>14. l \in B /\ \A i \in B : l <= i
    <2> HIDE DEF B
    <2>1. L \in B /\ \A i \in B : L <= i
          BY <1>7, <1>12, LeastNumber
    <2> QED BY <1>13, <2>1
  <1>15. l \in 0..N /\ there[l] = here[k]
        BY <1>3, <1>14
  <1>16. here[k] # 0
        BY <1>2, <1>4, <1>10
  <1>17. ASSUME NEW i \in 0..k
         PROVE  i \in 0..N /\ here[i] # 0
    <2>1. i \in 0..N /\ i <= k
          BY <1>1, <1>10
    <2> QED BY <1>2, <1>10, <1>16, <2>1
  <1>18. ASSUME NEW i \in 0..l
         PROVE  i \in 0..N /\ there[i] # 0
    <2>1. i \in 0..N /\ i <= l
          BY <1>1, <1>15
    <2> QED BY <1>3, <1>15, <1>16, <2>1
  <1>19. ASSUME here[0] = there[0]
         PROVE  k = 0 /\ l = 0
    <2>1. 0 \in 0..N
          BY <1>1
    <2>2. 0 \in A
          BY <1>2, <1>3, <1>19, <2>1 DEF Range
    <2>3. k = 0
          BY <1>1, <1>9, <1>10, <2>2
    <2>4. 0 \in B
          BY <1>3, <1>19, <2>1, <2>3
    <2> QED BY <1>1, <1>14, <1>15, <2>3, <2>4
  <1>20. k \in Nat /\ l \in Nat /\ k \in DOMAIN here /\ l \in DOMAIN there /\ here[k] = there[l]
         BY <1>1, <1>2, <1>3, <1>10, <1>15
  <1>21. /\ \A i \in 0..k : i \in DOMAIN here /\ here[i] # 0
         /\ \A i \in 0..l : i \in DOMAIN there /\ there[i] # 0
         BY <1>2, <1>3, <1>17, <1>18
  <1> QED BY <1>19, <1>20, <1>21, Zenon DEF Meets

\* The path to a node is a route from the current text to its text, empty only for the
\* current node.
LEMMA PathLeads ==
  ASSUME Tree, NEW m \in 1..Len(nodes), m = current, NEW n \in 1..Len(nodes), text = nodes[m].text
  PROVE  \E texts : /\ Len(PathTo(n)) \in Nat /\ Route(PathTo(n), texts)
                    /\ texts[0] = text /\ texts[Len(PathTo(n))] = nodes[n].text
                    /\ Len(PathTo(n)) = 0 <=> n = m
  <1> DEFINE N == Len(nodes)
             here == Chain(m)
             there == Chain(n)
             k == Min({i \in DOMAIN here : here[i] \in Range(there)})
             l == Min({i \in DOMAIN there : there[i] = here[k]})
             a == [i \in 1..k |-> nodes[here[i - 1]].inverse]
             b == [i \in 1..l |-> nodes[there[l - i]].forward]
             path == a \o b
             texts == [i \in 0..(k + l) |-> IF i <= k THEN nodes[here[i]].text
                                            ELSE nodes[there[k + l - i]].text]
  <1>1. /\ N \in Nat
        /\ \A x \in 1..N : /\ nodes[x].forward \in Edits /\ nodes[x].inverse \in Edits
                           /\ nodes[x].parent = 0 <=> x = 1
        BY TreeIs
  <1>2. \A x \in 2..N : /\ nodes[x].forward # <<>> /\ nodes[x].inverse # <<>>
                        /\ Explains(nodes[nodes[x].parent].text, nodes[x].forward, nodes[x].text)
                        /\ Explains(nodes[x].text, nodes[x].inverse, nodes[nodes[x].parent].text)
        BY DEF Tree
  <1>3. Meets(here, there, k, l)
        BY ChainsMeet
  <1>4. PathTo(n) = path
        BY DEF PathTo
  <1>5. /\ here[0] = m /\ DOMAIN here = 0..N
        /\ \A i \in 0..N : here[i] \in 0..N
        /\ \A i \in 1..N : here[i - 1] # 0 => here[i] = nodes[here[i - 1]].parent
        BY ChainIs
  <1>6. /\ there[0] = n /\ DOMAIN there = 0..N
        /\ \A i \in 0..N : there[i] \in 0..N
        /\ \A i \in 1..N : there[i - 1] # 0 => there[i] = nodes[there[i - 1]].parent
        BY ChainIs
  <1> HIDE DEF N, here, there, k, l, a, b, path, texts
  <1>7. /\ k \in Nat /\ l \in Nat /\ k \in 0..N /\ l \in 0..N /\ here[k] = there[l]
        /\ \A i \in 0..k : i \in 0..N /\ here[i] # 0
        /\ \A i \in 0..l : i \in 0..N /\ there[i] # 0
        /\ m = n => k = 0 /\ l = 0
        BY <1>3, <1>5, <1>6 DEF Meets
  <1>8. ASSUME NEW i \in 0..k
        PROVE  here[i] \in 1..N
    <2>1. here[i] \in 0..N /\ here[i] # 0
          BY <1>5, <1>7
    <2> QED BY <1>1, <2>1
  <1>9. ASSUME NEW i \in 0..l
        PROVE  there[i] \in 1..N
    <2>1. there[i] \in 0..N /\ there[i] # 0
          BY <1>6, <1>7
    <2> QED BY <1>1, <2>1
  \* Up: the inverse list of a node leads to its parent.
  <1>10. ASSUME NEW i \in 1..k
         PROVE  /\ nodes[here[i - 1]].inverse # <<>> /\ nodes[here[i - 1]].inverse \in Edits
                /\ Explains(nodes[here[i - 1]].text, nodes[here[i - 1]].inverse, nodes[here[i]].text)
    <2> DEFINE x == here[i - 1]
    <2>1. i - 1 \in 0..k /\ i \in 0..k /\ i \in 1..N
          BY <1>1, <1>7
    <2>2. x \in 1..N /\ x # 0 /\ here[i] = nodes[x].parent /\ here[i] # 0
          BY <1>5, <1>7, <1>8, <2>1
    <2> HIDE DEF x
    <2>3. x \in 2..N
          BY <1>1, <2>2
    <2>4. nodes[x].inverse # <<>> /\ nodes[x].inverse \in Edits
          /\ Explains(nodes[x].text, nodes[x].inverse, nodes[nodes[x].parent].text)
          BY <1>1, <1>2, <2>2, <2>3
    <2> QED BY <2>2, <2>4 DEF x
  \* Down: the forward list of a node leads from its parent.
  <1>11. ASSUME NEW i \in 1..l
         PROVE  /\ nodes[there[i - 1]].forward # <<>> /\ nodes[there[i - 1]].forward \in Edits
                /\ Explains(nodes[there[i]].text, nodes[there[i - 1]].forward, nodes[there[i - 1]].text)
    <2> DEFINE x == there[i - 1]
    <2>1. i - 1 \in 0..l /\ i \in 0..l /\ i \in 1..N
          BY <1>1, <1>7
    <2>2. x \in 1..N /\ x # 0 /\ there[i] = nodes[x].parent /\ there[i] # 0
          BY <1>6, <1>7, <1>9, <2>1
    <2> HIDE DEF x
    <2>3. x \in 2..N
          BY <1>1, <2>2
    <2>4. nodes[x].forward # <<>> /\ nodes[x].forward \in Edits
          /\ Explains(nodes[nodes[x].parent].text, nodes[x].forward, nodes[x].text)
          BY <1>1, <1>2, <2>2, <2>3
    <2> QED BY <2>2, <2>4 DEF x
  <1>12. a \in Seq(Edits) /\ Len(a) = k /\ \A i \in 1..k : a[i] = nodes[here[i - 1]].inverse
    <2>1. a \in [1..k -> Edits] /\ \A i \in 1..k : a[i] = nodes[here[i - 1]].inverse
          BY <1>10 DEF a
    <2> QED BY <1>7, <2>1
  <1>13. b \in Seq(Edits) /\ Len(b) = l /\ \A i \in 1..l : b[i] = nodes[there[l - i]].forward
    <2>1. ASSUME NEW i \in 1..l
          PROVE  nodes[there[l - i]].forward \in Edits
      <3> DEFINE j == l - i + 1
      <3>1. j \in 1..l /\ j - 1 = l - i
            BY <1>7
      <3> HIDE DEF j
      <3>2. nodes[there[j - 1]].forward \in Edits
            BY <1>11, <3>1
      <3> QED BY <3>1, <3>2
    <2>2. b \in [1..l -> Edits] /\ \A i \in 1..l : b[i] = nodes[there[l - i]].forward
          BY <2>1 DEF b
    <2> QED BY <1>7, <2>2
  <1>14. /\ path \in Seq(Edits) /\ Len(path) = k + l
         /\ \A i \in 1..(k + l) : path[i] = IF i <= k THEN a[i] ELSE b[i - k]
    <2>1. a \in Seq(Edits) /\ b \in Seq(Edits)
          BY <1>12, <1>13
    <2>2. /\ a \o b \in Seq(Edits) /\ Len(a \o b) = Len(a) + Len(b)
          /\ \A i \in 1..(Len(a) + Len(b)) : (a \o b)[i] = IF i <= Len(a) THEN a[i] ELSE b[i - Len(a)]
          BY <2>1, ConcatProperties
    <2> QED BY <1>12, <1>13, <2>2 DEF path
  <1>15. /\ \A i \in 0..k : texts[i] = nodes[here[i]].text
         /\ \A i \in 0..(k + l) : i > k => texts[i] = nodes[there[k + l - i]].text
    <2>1. \A i \in 0..k : i \in 0..(k + l) /\ i <= k
          BY <1>7
    <2>2. \A i \in 0..(k + l) : i > k => ~(i <= k)
          BY <1>7
    <2> QED BY <2>1, <2>2 DEF texts
  <1>16. \A i \in 0..(k + l) : i >= k => texts[i] = nodes[there[k + l - i]].text
    <2>1. k \in 0..k /\ k + l - k = l
          BY <1>7
    <2>2. texts[k] = nodes[there[l]].text
          BY <1>7, <1>15, <2>1
    <2>3. ASSUME NEW i \in 0..(k + l), i >= k
          PROVE  texts[i] = nodes[there[k + l - i]].text
      <3>1. i = k \/ i > k
            BY <1>7, <2>3
      <3> QED BY <1>15, <2>1, <2>2, <2>3, <3>1
    <2> QED BY <2>3
  <1>17. ASSUME NEW i \in 1..(k + l)
         PROVE  path[i] # <<>> /\ Explains(texts[i - 1], path[i], texts[i])
    <2>1. CASE i <= k
      <3>1. i \in 1..k /\ i - 1 \in 0..k /\ i \in 0..k
            BY <1>7, <2>1
      <3>2. path[i] = nodes[here[i - 1]].inverse
            BY <1>12, <1>14, <2>1, <3>1
      <3>3. texts[i - 1] = nodes[here[i - 1]].text /\ texts[i] = nodes[here[i]].text
            BY <1>15, <3>1
      <3> QED BY <1>10, <3>1, <3>2, <3>3
    <2>2. CASE ~(i <= k)
      <3> DEFINE j == k + l - i + 1
      <3>1. /\ j \in 1..l /\ i - 1 \in 0..(k + l) /\ i \in 0..(k + l) /\ i >= k /\ i - 1 >= k
            /\ k + l - i = j - 1 /\ k + l - (i - 1) = j /\ i - k \in 1..l /\ l - (i - k) = j - 1
            BY <1>7, <2>2
      <3> HIDE DEF j
      <3>2. path[i] = nodes[there[j - 1]].forward
        <4>1. path[i] = b[i - k]
              BY <1>14, <2>2
        <4>2. b[i - k] = nodes[there[l - (i - k)]].forward
              BY <1>13, <3>1
        <4> QED BY <3>1, <4>1, <4>2
      <3>3. texts[i] = nodes[there[j - 1]].text
        <4>1. texts[i] = nodes[there[k + l - i]].text
              BY <1>16, <3>1
        <4> QED BY <3>1, <4>1
      <3>4. texts[i - 1] = nodes[there[j]].text
        <4>1. texts[i - 1] = nodes[there[k + l - (i - 1)]].text
              BY <1>16, <3>1
        <4> QED BY <3>1, <4>1
      <3> QED BY <1>11, <3>1, <3>2, <3>3, <3>4
    <2> QED BY <2>1, <2>2
  <1>18. texts[0] = text
    <2>1. 0 \in 0..k
          BY <1>7
    <2> QED BY <1>5, <1>15, <2>1
  <1>19. texts[k + l] = nodes[n].text
    <2>1. k + l \in 0..(k + l) /\ k + l >= k /\ k + l - (k + l) = 0
          BY <1>7
    <2>2. texts[k + l] = nodes[there[k + l - (k + l)]].text
          BY <1>16, <2>1
    <2> QED BY <1>6, <2>1, <2>2
  <1>20. k + l = 0 <=> n = m
    <2>1. ASSUME k + l = 0
          PROVE  n = m
      <3>1. k = 0 /\ l = 0
            BY <1>7, <2>1
      <3> QED BY <1>5, <1>6, <1>7, <3>1
    <2>2. ASSUME n = m
          PROVE  k + l = 0
          BY <1>7, <2>2
    <2> QED BY <2>1, <2>2
  <1>21. Len(path) \in Nat
        BY <1>7, <1>14
  <1>22. Route(path, texts)
        BY <1>14, <1>17 DEF Route
  <1> QED BY <1>4, <1>14, <1>18, <1>19, <1>20, <1>21, <1>22

-----------------------------------------------------------------------------
(* The inductive invariant.                                                *)

\* The document is where its tree says it is, its anchors lie in its text, those not yet
\* made are dead, and the transaction under way stands on it.
Inv ==
    /\ text \in Text /\ revision \in 0..MaxRevision
    /\ anchors \in AnchorsIn(text) /\ nextAnchor \in 1..(MaxAnchors + 1)
    /\ BoundaryIn(anchors) /\ boundary \in 0..MaxAnchors
    /\ \A a \in AnchorId : a >= nextAnchor => anchors[a] = Dead
    /\ Tree /\ current \in 1..Len(nodes) /\ text = nodes[current].text
    /\ Transaction(tx)
    /\ tx.active => Stands(text, anchors, tx) /\ revision < MaxRevision

\* A move to a node: to the current one, which changes nothing, or to another, whose text
\* it brings back under a new revision. The anchors go along and stop at the boundary.
Moved(n) ==
    /\ n \in 1..Len(nodes) /\ current' = n /\ text' = nodes[n].text
    /\ ~tx.active /\ revision < MaxRevision
    /\ \/ n = current /\ UNCHANGED <<text, revision, anchors>>
       \/ /\ n # current /\ revision' = revision + 1
          /\ anchors' \in AnchorsIn(text') /\ Follows(anchors, anchors')
          /\ boundary # 0 => /\ anchors'[boundary] = anchors[boundary]
                             /\ Slice(text', 0, anchors[boundary].offset)
                                  = Slice(text, 0, anchors[boundary].offset)
    /\ UNCHANGED <<nodes, nextAnchor, boundary, tx>>

\* Whatever lists lead to a node, replaying them moves there.
LEMMA RouteMoves ==
  ASSUME Inv, NEW n \in 1..Len(nodes), NEW lists, NEW texts, Len(lists) \in Nat, Route(lists, texts),
         texts[0] = text, texts[Len(lists)] = nodes[n].text, Len(lists) = 0 <=> n = current,
         MoveTo(n, lists)
  PROVE  Moved(n)
  <1> DEFINE p == Replay(lists)
  <1>1. text \in Text /\ anchors \in AnchorsIn(text) /\ BoundaryIn(anchors) /\ text = nodes[current].text
        BY DEF Inv
  <1>2. /\ Replayed(p, nodes[n].text)
        /\ ~p.refused => (p.edits = <<>> <=> n = current)
        BY <1>1, ReplayLeads
  <1>3. /\ ~tx.active /\ revision < MaxRevision
        /\ ~p.refused
        /\ IF p.edits = <<>> THEN UNCHANGED <<textVars, anchors>> ELSE Publish(p)
        /\ current' = n
        /\ UNCHANGED <<nodes, nextAnchor, boundary, tx>>
        BY DEF MoveTo
  <1> HIDE DEF p
  <1>4. /\ Stands(text, anchors, p) /\ Follows(anchors, p.anchors) /\ p.text = nodes[n].text
        BY <1>2, <1>3 DEF Replayed
  <1>5. CASE n = current
    <2>1. UNCHANGED <<text, revision, anchors>>
          BY <1>2, <1>3, <1>5 DEF textVars
    <2> QED BY <1>1, <1>3, <1>5, <2>1 DEF Moved
  <1>6. CASE n # current
    <2>1. text' = p.text /\ revision' = revision + 1 /\ anchors' = p.anchors
          BY <1>2, <1>3, <1>6 DEF Publish
    <2>2. /\ p.anchors \in AnchorsIn(p.text)
          /\ boundary # 0 => /\ p.anchors[boundary] = anchors[boundary]
                             /\ Slice(p.text, 0, anchors[boundary].offset) = Slice(text, 0, anchors[boundary].offset)
          BY <1>4 DEF Stands, Transaction
    <2>3. /\ anchors' \in AnchorsIn(text') /\ Follows(anchors, anchors')
          /\ boundary # 0 => /\ anchors'[boundary] = anchors[boundary]
                             /\ Slice(text', 0, anchors[boundary].offset) = Slice(text, 0, anchors[boundary].offset)
          BY <1>4, <2>1, <2>2
    <2> QED BY <1>3, <1>4, <1>6, <2>1, <2>3 DEF Moved
  <1> QED BY <1>5, <1>6

\* One list from the current text to that of a neighbour in the tree.
LEMMA ListMoves ==
  ASSUME Inv, NEW n \in 1..Len(nodes), n # current, NEW edits, edits # <<>>,
         Explains(text, edits, nodes[n].text), MoveTo(n, <<edits>>)
  PROVE  Moved(n)
  <1> DEFINE lists == <<edits>>
             texts == [i \in 0..1 |-> IF i = 0 THEN text ELSE nodes[n].text]
  <1>1. Len(lists) = 1 /\ lists[1] = edits /\ MoveTo(n, lists)
        OBVIOUS
  <1>2. texts[0] = text /\ texts[1] = nodes[n].text
        OBVIOUS
  <1> HIDE DEF lists, texts
  <1>3. Route(lists, texts)
    <2>1. ASSUME NEW i \in 1..Len(lists)
          PROVE  lists[i] # <<>> /\ Explains(texts[i - 1], lists[i], texts[i])
      <3>1. i = 1 /\ i - 1 = 0
            BY <1>1
      <3> QED BY <1>1, <1>2, <3>1
    <2> QED BY <2>1 DEF Route
  <1>4. Len(lists) \in Nat /\ (Len(lists) = 0 <=> n = current)
        BY <1>1
  <1>5. texts[Len(lists)] = nodes[n].text
        BY <1>1, <1>2
  <1> QED BY <1>1, <1>2, <1>3, <1>4, <1>5, RouteMoves

\* Undo, redo and jumps move to a node.
LEMMA MoveIs ==
  ASSUME Inv, Undo \/ Redo \/ \E n \in DOMAIN nodes : UndoTo(n)
  PROVE  \E n \in 1..Len(nodes) : Moved(n)
  <1> DEFINE N == Len(nodes)
  <1>1. /\ Tree /\ current \in 1..N /\ text = nodes[current].text
        BY DEF Inv
  <1>2. /\ N \in Nat /\ DOMAIN nodes = 1..N
        /\ \A m \in 1..N : nodes[m].parent \in 0..(m - 1) /\ (nodes[m].parent = 0 <=> m = 1)
        BY <1>1, TreeIs
  <1>3. \A m \in 2..N :
          /\ nodes[m].forward # <<>> /\ nodes[m].inverse # <<>>
          /\ Explains(nodes[nodes[m].parent].text, nodes[m].forward, nodes[m].text)
          /\ Explains(nodes[m].text, nodes[m].inverse, nodes[nodes[m].parent].text)
        BY <1>1 DEF Tree
  <1> HIDE DEF N
  <1>4. CASE Undo
    <2> DEFINE n == nodes[current].parent
    <2>1. current # 1 /\ MoveTo(n, <<nodes[current].inverse>>)
          BY <1>4 DEF Undo
    <2>2. current \in 2..N
          BY <1>1, <1>2, <2>1
    <2>3. n \in 1..N /\ n # current
      <3>1. n \in 0..(current - 1) /\ n # 0
            BY <1>1, <1>2, <2>1
      <3> HIDE DEF n
      <3> QED BY <1>1, <1>2, <3>1
    <2>4. nodes[current].inverse # <<>> /\ Explains(text, nodes[current].inverse, nodes[n].text)
          BY <1>1, <1>3, <2>2
    <2> HIDE DEF n
    <2>5. Moved(n)
          BY <2>1, <2>3, <2>4, ListMoves DEF N
    <2> QED BY <2>3, <2>5 DEF N
  <1>5. CASE Redo
    <2> DEFINE children == {m \in DOMAIN nodes : nodes[m].parent = current}
               n == Max(children)
    <2>1. children # {} /\ MoveTo(n, <<nodes[n].forward>>)
          BY <1>5 DEF Redo
    <2>2. children \subseteq 1..N
          BY <1>2
    <2>3. n \in children
      <3> HIDE DEF children
      <3> QED BY <1>2, <2>1, <2>2, GreatestNumber
    <2>4. n \in 1..N /\ nodes[n].parent = current
          BY <1>2, <2>3
    <2> HIDE DEF n
    <2>5. n \in 2..N /\ n # current
      <3>1. nodes[n].parent \in 0..(n - 1) /\ (nodes[n].parent = 0 <=> n = 1)
            BY <1>2, <2>4
      <3> QED BY <1>1, <1>2, <2>4, <3>1
    <2>6. nodes[n].forward # <<>> /\ Explains(text, nodes[n].forward, nodes[n].text)
          BY <1>1, <1>3, <2>4, <2>5
    <2>7. Moved(n)
          BY <2>1, <2>4, <2>5, <2>6, ListMoves DEF N
    <2> QED BY <2>4, <2>7 DEF N
  <1>6. ASSUME NEW n \in DOMAIN nodes, UndoTo(n)
        PROVE  Moved(n)
    <2>1. n \in 1..N /\ current \in 1..N
          BY <1>1, <1>2
    <2>2. PICK texts : /\ Len(PathTo(n)) \in Nat /\ Route(PathTo(n), texts)
                       /\ texts[0] = text /\ texts[Len(PathTo(n))] = nodes[n].text
                       /\ Len(PathTo(n)) = 0 <=> n = current
          BY <1>1, <2>1, PathLeads DEF N
    <2>3. MoveTo(n, PathTo(n))
          BY <1>6 DEF UndoTo
    <2> DEFINE lists == PathTo(n)
    <2> HIDE DEF lists
    <2>4. /\ Len(lists) \in Nat /\ Route(lists, texts) /\ MoveTo(n, lists)
          /\ texts[0] = text /\ texts[Len(lists)] = nodes[n].text
          /\ Len(lists) = 0 <=> n = current
          BY <2>2, <2>3 DEF lists
    <2> QED BY <2>1, <2>4, RouteMoves DEF N
  <1> QED BY <1>2, <1>4, <1>5, <1>6 DEF N

\* No transaction is one that is not active.
LEMMA ClosedIs == Transaction(Closed) /\ Closed.active = FALSE
  <1> DEFINE c == Closed
             none == <<>>
  <1>1. /\ c.active = FALSE /\ c.refused = FALSE /\ c.text = none /\ c.edits = none
        /\ c.anchors = [a \in AnchorId |-> Dead]
        /\ c = [active |-> c.active, refused |-> c.refused, text |-> c.text, edits |-> c.edits, anchors |-> c.anchors]
        BY DEF Closed
  <1>2. none \in Text /\ none \in Edits /\ Len(none) = 0
        BY DEF Text, Edits
  <1>3. Dead \in [offset : Nat, affinity : Affinity \cup {"none"}]
        BY DEF Dead
  <1> HIDE DEF c, none
  <1>4. c.anchors \in AnchorsIn(c.text)
        BY <1>1 DEF AnchorsIn
  <1>5. Transaction(c)
        BY <1>1, <1>2, <1>3, <1>4, ZenonT(60) DEF Transaction
  <1> QED BY <1>1, <1>5 DEF c

\* A document is made with a tree of one node, and no anchors.
LEMMA InvInit == Init => Inv
  <1> SUFFICES ASSUME Init
               PROVE  Inv
      OBVIOUS
  <1>1. /\ text = Initial /\ revision = 0
        /\ anchors = [a \in AnchorId |-> Dead] /\ nextAnchor = 1 /\ boundary = 0
        /\ nodes = <<[text |-> Initial, forward |-> <<>>, inverse |-> <<>>, parent |-> 0]>>
        /\ current = 1 /\ tx = Closed
        BY DEF Init
  <1>2. Initial \in Text /\ MaxRevision \in Nat /\ MaxAnchors \in Nat
        BY DocumentAssumption
  <1>3. <<>> \in Edits
        BY DEF Edits
  <1>4. anchors \in AnchorsIn(text)
        BY <1>1 DEF AnchorsIn
  <1>5. Tree /\ Len(nodes) = 1 /\ nodes[1].text = Initial
    <2> DEFINE root == [text |-> Initial, forward |-> <<>>, inverse |-> <<>>, parent |-> 0]
    <2>1. root \in [text : Text, forward : Edits, inverse : Edits, parent : Nat]
          BY <1>2, <1>3
    <2>2. root.parent = 0 /\ root.text = Initial
          OBVIOUS
    <2> HIDE DEF root
    <2>3. nodes = <<root>>
          BY <1>1 DEF root
    <2>4. Len(nodes) = 1 /\ nodes[1] = root /\ 2..1 = {}
          BY <2>3
    <2>5. nodes \in Seq([text : Text, forward : Edits, inverse : Edits, parent : Nat])
          BY <2>1, <2>3
    <2> QED BY <2>2, <2>4, <2>5 DEF Tree
  <1>6. Transaction(tx) /\ ~tx.active
        BY <1>1, ClosedIs
  <1>7. BoundaryIn(anchors)
        BY <1>1 DEF BoundaryIn
  <1> QED BY <1>1, <1>2, <1>4, <1>5, <1>6, <1>7 DEF Inv

\* A node put below an earlier one, with lists that lead there and back.
LEMMA TreeGrows ==
  ASSUME Tree, NEW x \in [text : Text, forward : Edits, inverse : Edits, parent : Nat],
         nodes' = Append(nodes, x), x.parent \in 1..Len(nodes), x.forward # <<>>, x.inverse # <<>>,
         Explains(nodes[x.parent].text, x.forward, x.text),
         Explains(x.text, x.inverse, nodes[x.parent].text)
  PROVE  /\ Tree' /\ Len(nodes') = Len(nodes) + 1 /\ nodes'[Len(nodes) + 1] = x
         /\ \A m \in 1..Len(nodes) : nodes'[m] = nodes[m]
  <1> DEFINE N == Len(nodes)
             M == N + 1
  <1>1. /\ nodes \in Seq([text : Text, forward : Edits, inverse : Edits, parent : Nat])
        /\ N >= 1 /\ N \in Nat /\ nodes[1].parent = 0
        BY TreeIs DEF Tree
  <1>2. \A m \in 2..N :
          /\ nodes[m].parent \in 1..(m - 1)
          /\ nodes[m].forward # <<>> /\ nodes[m].inverse # <<>>
          /\ Explains(nodes[nodes[m].parent].text, nodes[m].forward, nodes[m].text)
          /\ Explains(nodes[m].text, nodes[m].inverse, nodes[nodes[m].parent].text)
        BY DEF Tree
  <1>3. /\ nodes' \in Seq([text : Text, forward : Edits, inverse : Edits, parent : Nat])
        /\ Len(nodes') = N + 1 /\ nodes'[N + 1] = x
        /\ \A m \in 1..N : nodes'[m] = nodes[m]
        BY <1>1
  <1>4. Len(nodes') = M /\ nodes'[M] = x /\ M \in Nat /\ M = N + 1
        BY <1>1, <1>3
  <1> HIDE DEF N, M
  <1>5. ASSUME NEW m \in 2..M
        PROVE  /\ nodes'[m].parent \in 1..(m - 1)
               /\ nodes'[m].forward # <<>> /\ nodes'[m].inverse # <<>>
               /\ Explains(nodes'[nodes'[m].parent].text, nodes'[m].forward, nodes'[m].text)
               /\ Explains(nodes'[m].text, nodes'[m].inverse, nodes'[nodes'[m].parent].text)
    <2>1. CASE m = M
      <3>1. nodes'[m] = x /\ x.parent \in 1..N /\ x.parent \in 1..(m - 1)
            BY <1>1, <1>4, <2>1 DEF N
      <3>2. nodes'[x.parent] = nodes[x.parent]
            BY <1>3, <3>1
      <3> QED BY <3>1, <3>2
    <2>2. CASE m # M
      <3>1. m \in 2..N /\ m \in 1..N
            BY <1>1, <1>4, <2>2
      <3>2. nodes'[m] = nodes[m] /\ nodes[m].parent \in 1..(m - 1)
            BY <1>2, <1>3, <3>1
      <3>3. nodes[m].parent \in 1..N
            BY <1>1, <3>1, <3>2
      <3>4. nodes'[nodes[m].parent] = nodes[nodes[m].parent]
            BY <1>3, <3>3
      <3> QED BY <1>2, <3>1, <3>2, <3>4
    <2> QED BY <2>1, <2>2
  <1>6. 1 \in 1..N /\ M >= 1
        BY <1>1, <1>4
  <1>7. nodes'[1].parent = 0
        BY <1>1, <1>3, <1>6
  <1>8. Tree'
        BY <1>3, <1>4, <1>5, <1>6, <1>7 DEF Tree
  <1> QED BY <1>3, <1>8 DEF N

\* The invariant through every action.
LEMMA MovedKeeps ==
  ASSUME Inv, NEW n, Moved(n)
  PROVE  Inv'
  <1>1. /\ text \in Text /\ revision \in 0..MaxRevision
        /\ anchors \in AnchorsIn(text) /\ nextAnchor \in 1..(MaxAnchors + 1)
        /\ BoundaryIn(anchors) /\ boundary \in 0..MaxAnchors
        /\ \A a \in AnchorId : a >= nextAnchor => anchors[a] = Dead
        /\ Tree /\ Transaction(tx)
        BY DEF Inv
  <1>2. /\ n \in 1..Len(nodes) /\ current' = n /\ text' = nodes[n].text
        /\ ~tx.active /\ revision < MaxRevision
        /\ nodes' = nodes /\ nextAnchor' = nextAnchor /\ boundary' = boundary /\ tx' = tx
        BY DEF Moved
  <1>3. MaxRevision \in Nat
        BY DocumentAssumption
  <1>4. nodes[n].text \in Text
        BY <1>1, <1>2, TreeIs
  <1>5. Tree'
        BY <1>1, <1>2 DEF Tree
  <1>6. Transaction(tx)' /\ ~tx'.active
        BY <1>1, <1>2 DEF Transaction
  <1>7. CASE n = current /\ UNCHANGED <<text, revision, anchors>>
    <2>1. BoundaryIn(anchors)'
          BY <1>1, <1>2, <1>7 DEF BoundaryIn
    <2> QED BY <1>1, <1>2, <1>4, <1>5, <1>6, <1>7, <2>1 DEF Inv
  <1>8. CASE /\ n # current /\ revision' = revision + 1
             /\ anchors' \in AnchorsIn(text') /\ Follows(anchors, anchors')
             /\ boundary # 0 => /\ anchors'[boundary] = anchors[boundary]
                                /\ Slice(text', 0, anchors[boundary].offset)
                                     = Slice(text, 0, anchors[boundary].offset)
    <2>1. BoundaryIn(anchors)'
          BY <1>1, <1>2, <1>8 DEF BoundaryIn
    <2>2. \A a \in AnchorId : a >= nextAnchor' => anchors'[a] = Dead
          BY <1>1, <1>2, <1>8 DEF Follows
    <2>3. revision' \in 0..MaxRevision
          BY <1>1, <1>2, <1>3, <1>8
    <2> QED BY <1>1, <1>2, <1>4, <1>5, <1>6, <1>8, <2>1, <2>2, <2>3 DEF Inv
  <1> QED BY <1>7, <1>8 DEF Moved

\* Steps of a transaction that leave the document alone.
LEMMA TransactionKeeps ==
  ASSUME Inv, UNCHANGED <<textVars, treeVars, anchors, nextAnchor, boundary>>,
         Transaction(tx'), tx'.active => Stands(text, anchors, tx') /\ revision < MaxRevision
  PROVE  Inv'
  <1>1. /\ text' = text /\ revision' = revision /\ nodes' = nodes /\ current' = current
        /\ anchors' = anchors /\ nextAnchor' = nextAnchor /\ boundary' = boundary
        BY DEF textVars, treeVars
  <1>2. Tree'
        BY <1>1 DEF Inv, Tree
  <1>3. BoundaryIn(anchors)'
        BY <1>1 DEF Inv, BoundaryIn
  <1>4. Transaction(tx)'
        BY DEF Transaction
  <1>5. tx'.active => Stands(text, anchors, tx)' /\ revision < MaxRevision
    <2>1. Stands(text, anchors, tx') => Stands(text, anchors, tx)'
          BY <1>1, <1>4 DEF Stands
    <2> QED BY <2>1
  <1> QED BY <1>1, <1>2, <1>3, <1>4, <1>5 DEF Inv

LEMMA BeginKeeps == Inv /\ Begin => Inv'
  <1> SUFFICES ASSUME Inv, Begin
               PROVE  Inv'
      OBVIOUS
  <1>1. /\ revision < MaxRevision /\ tx' = Opened
        /\ UNCHANGED <<textVars, treeVars, anchors, nextAnchor, boundary>>
        BY DEF Begin
  <1>2. Stands(text, anchors, tx')
        BY <1>1, OpenedStands DEF Inv
  <1>3. Transaction(tx')
        BY <1>2 DEF Stands
  <1> QED BY <1>1, <1>2, <1>3, TransactionKeeps

\* An edit of the client, with what it does to the anchors of the transaction.
LEMMA ReplaceTextIs ==
  ASSUME Inv, ReplaceText
  PROVE  /\ UNCHANGED <<textVars, treeVars, anchors, nextAnchor, boundary>>
         /\ tx.active /\ Stands(text, anchors, tx') /\ tx'.active
         /\ Follows(tx.anchors, tx'.anchors)
  <1>1. PICK s \in 0..Len(tx.text), e \in 0..Len(tx.text), new \in Snippets :
          /\ tx.active /\ Allowed(tx, s, e)
          /\ tx' = Apply(tx, s, e, new)
          /\ UNCHANGED <<textVars, treeVars, anchors, nextAnchor, boundary>>
        BY DEF ReplaceText
  <1>2. Stands(text, anchors, tx) /\ BoundaryIn(anchors) /\ Transaction(tx)
        BY <1>1 DEF Inv
  <1>3. new \in Text
        BY DocumentAssumption
  <1>4. Len(tx.text) \in Nat
        BY <1>2 DEF Transaction, Text
  <1>5. e \in s..Len(tx.text)
        BY <1>1, <1>4 DEF Allowed
  <1> DEFINE q == Apply(tx, s, e, new)
  <1>6. q.active = tx.active
        BY <1>2, ApplyShows
  <1> HIDE DEF q
  <1>7. Stands(text, anchors, q) /\ Follows(tx.anchors, q.anchors)
        BY <1>1, <1>2, <1>3, <1>5, ApplyKeeps DEF q
  <1>8. tx' = q
        BY <1>1 DEF q
  <1> QED BY <1>1, <1>6, <1>7, <1>8

LEMMA ReplaceTextKeeps == Inv /\ ReplaceText => Inv'
  <1> SUFFICES ASSUME Inv, ReplaceText
               PROVE  Inv'
      OBVIOUS
  <1>1. /\ UNCHANGED <<textVars, treeVars, anchors, nextAnchor, boundary>>
        /\ tx.active /\ Stands(text, anchors, tx')
        BY ReplaceTextIs
  <1>2. Transaction(tx')
        BY <1>1 DEF Stands
  <1>3. revision < MaxRevision
        BY <1>1 DEF Inv
  <1> QED BY <1>1, <1>2, <1>3, TransactionKeeps

LEMMA AbortKeeps == Inv /\ Abort => Inv'
  <1> SUFFICES ASSUME Inv, Abort
               PROVE  Inv'
      OBVIOUS
  <1>1. tx' = Closed /\ UNCHANGED <<textVars, treeVars, anchors, nextAnchor, boundary>>
        BY DEF Abort
  <1>2. Transaction(tx') /\ ~tx'.active
        BY <1>1, ClosedIs
  <1> QED BY <1>1, <1>2, TransactionKeeps

\* A commit of a change: the text and the anchors of the transaction, and a new node for them.
LEMMA CommitIs ==
  ASSUME Inv, Commit, tx.edits # <<>>
  PROVE  /\ Tree' /\ Len(nodes') = Len(nodes) + 1
         /\ nodes'[Len(nodes) + 1].text = tx.text /\ nodes'[Len(nodes) + 1].parent = current
         /\ \A m \in 1..Len(nodes) : nodes'[m] = nodes[m]
         /\ current' = Len(nodes) + 1 /\ text' = tx.text /\ revision' = revision + 1 /\ anchors' = tx.anchors
  <1>1. /\ Tree /\ current \in 1..Len(nodes) /\ text = nodes[current].text /\ Stands(text, anchors, tx)
        BY DEF Inv, Commit
  <1>2. Explains(text, tx.edits, tx.text)
        BY <1>1 DEF Stands
  <1> DEFINE back == InverseEdits(text, tx.edits)
             x == [text |-> tx.text, forward |-> tx.edits, inverse |-> back, parent |-> current]
  <1>3. nodes' = Append(nodes, x) /\ current' = Len(nodes')
        BY DEF Commit
  <1>4. text' = tx.text /\ revision' = revision + 1 /\ anchors' = tx.anchors
        BY DEF Commit, Publish
  <1>5. back \in Edits /\ Len(back) = Len(tx.edits) /\ Explains(tx.text, back, text)
        BY <1>2, InverseIs, InverseExplains
  <1> HIDE DEF back
  <1>6. back # <<>>
    <2>1. tx.edits \in Edits /\ tx.edits # <<>>
          BY <1>2, ExplainsIs
    <2>2. Len(tx.edits) # 0
          BY <2>1 DEF Edits
    <2> QED BY <1>5, <2>2
  <1>7. /\ x.text = tx.text /\ x.forward = tx.edits /\ x.inverse = back /\ x.parent = current
        OBVIOUS
  <1>8. x \in [text : Text, forward : Edits, inverse : Edits, parent : Nat]
    <2>1. tx.text \in Text /\ tx.edits \in Edits
          BY <1>2, ExplainsIs
    <2>2. current \in Nat
          BY <1>1, TreeIs
    <2> QED BY <1>5, <2>1, <2>2
  <1> HIDE DEF x
  <1>9. /\ x.parent \in 1..Len(nodes) /\ x.forward # <<>> /\ x.inverse # <<>>
        /\ Explains(nodes[x.parent].text, x.forward, x.text)
        /\ Explains(x.text, x.inverse, nodes[x.parent].text)
        BY <1>1, <1>2, <1>5, <1>6, <1>7
  <1>10. /\ Tree' /\ Len(nodes') = Len(nodes) + 1 /\ nodes'[Len(nodes) + 1] = x
         /\ \A m \in 1..Len(nodes) : nodes'[m] = nodes[m]
        BY <1>1, <1>3, <1>8, <1>9, TreeGrows
  <1> QED BY <1>3, <1>4, <1>7, <1>10

LEMMA CommitKeeps == Inv /\ Commit => Inv'
  <1> SUFFICES ASSUME Inv, Commit
               PROVE  Inv'
      OBVIOUS
  <1>1. tx' = Closed /\ nextAnchor' = nextAnchor /\ boundary' = boundary /\ tx.active
        BY DEF Commit
  <1>2. Transaction(tx') /\ ~tx'.active
        BY <1>1, ClosedIs
  <1>3. CASE tx.edits = <<>>
    <2>1. UNCHANGED <<textVars, treeVars, anchors, nextAnchor, boundary>>
          BY <1>1, <1>3 DEF Commit
    <2> QED BY <1>2, <2>1, TransactionKeeps
  <1>4. CASE tx.edits # <<>>
    <2>1. /\ Tree' /\ Len(nodes') = Len(nodes) + 1
          /\ nodes'[Len(nodes) + 1].text = tx.text
          /\ current' = Len(nodes) + 1 /\ text' = tx.text /\ revision' = revision + 1 /\ anchors' = tx.anchors
          BY <1>4, CommitIs
    <2>2. /\ revision \in 0..MaxRevision /\ revision < MaxRevision
          /\ nextAnchor \in 1..(MaxAnchors + 1) /\ boundary \in 0..MaxAnchors
          /\ BoundaryIn(anchors) /\ Stands(text, anchors, tx) /\ Tree
          /\ \A a \in AnchorId : a >= nextAnchor => anchors[a] = Dead
          BY <1>1 DEF Inv
    <2>3. /\ tx.text \in Text /\ tx.anchors \in AnchorsIn(tx.text)
          /\ \A a \in AnchorId : anchors[a] = Dead <=> tx.anchors[a] = Dead
          /\ boundary # 0 => tx.anchors[boundary] = anchors[boundary]
          BY <2>2 DEF Stands, Transaction
    <2>4. Len(nodes) \in Nat /\ MaxRevision \in Nat
          BY <2>2, TreeIs, DocumentAssumption
    <2>5. current' \in 1..Len(nodes') /\ text' = nodes'[current'].text
          BY <2>1, <2>4
    <2>6. revision' \in 0..MaxRevision
          BY <2>1, <2>2, <2>4
    <2>7. BoundaryIn(anchors)'
          BY <1>1, <2>1, <2>2, <2>3 DEF BoundaryIn
    <2>8. \A a \in AnchorId : a >= nextAnchor' => anchors'[a] = Dead
          BY <1>1, <2>1, <2>2, <2>3
    <2>9. anchors' \in AnchorsIn(text')
          BY <2>1, <2>3
    <2>10. Transaction(tx)'
          BY <1>2 DEF Transaction
    <2> QED BY <1>1, <1>2, <2>1, <2>2, <2>3, <2>5, <2>6, <2>7, <2>8, <2>9, <2>10 DEF Inv
  <1> QED BY <1>3, <1>4

\* Steps on the anchors while no transaction is under way.
LEMMA AnchorsKeep ==
  ASSUME Inv, ~tx.active, UNCHANGED <<textVars, treeVars, tx>>,
         anchors' \in AnchorsIn(text), nextAnchor' \in 1..(MaxAnchors + 1), boundary' \in 0..MaxAnchors,
         boundary' # 0 => boundary' \in AnchorId /\ anchors'[boundary'].affinity = "BeforeInsertion",
         \A a \in AnchorId : a >= nextAnchor' => anchors'[a] = Dead
  PROVE  Inv'
  <1>1. text' = text /\ revision' = revision /\ nodes' = nodes /\ current' = current /\ tx' = tx
        BY DEF textVars, treeVars
  <1>2. Tree'
        BY <1>1 DEF Inv, Tree
  <1>3. BoundaryIn(anchors)'
        BY DEF BoundaryIn
  <1>4. Transaction(tx)'
        BY <1>1 DEF Inv, Transaction
  <1> QED BY <1>1, <1>2, <1>3, <1>4 DEF Inv

LEMMA CreateAnchorKeeps ==
  ASSUME Inv, NEW o \in 0..Len(text), NEW f \in Affinity, CreateAnchor(o, f)
  PROVE  Inv'
  <1>1. /\ ~tx.active /\ nextAnchor <= MaxAnchors /\ nextAnchor' = nextAnchor + 1
        /\ anchors' = [anchors EXCEPT ![nextAnchor] = [offset |-> o, affinity |-> f]]
        /\ UNCHANGED <<textVars, treeVars, tx>> /\ boundary' = boundary
        BY DEF CreateAnchor
  <1>2. /\ anchors \in AnchorsIn(text) /\ nextAnchor \in 1..(MaxAnchors + 1) /\ BoundaryIn(anchors)
        /\ boundary \in 0..MaxAnchors /\ \A a \in AnchorId : a >= nextAnchor => anchors[a] = Dead
        BY DEF Inv
  <1>3. MaxAnchors \in Nat
        BY DocumentAssumption
  <1>4. nextAnchor \in AnchorId /\ nextAnchor' \in 1..(MaxAnchors + 1)
        BY <1>1, <1>2, <1>3 DEF AnchorId
  <1>5. anchors' \in AnchorsIn(text)
        BY <1>1, <1>2 DEF AnchorsIn
  <1>6. boundary # 0 => boundary # nextAnchor /\ boundary \in AnchorId /\ anchors'[boundary] = anchors[boundary]
    <2>1. SUFFICES ASSUME boundary # 0
                   PROVE  boundary # nextAnchor /\ boundary \in AnchorId /\ anchors'[boundary] = anchors[boundary]
          OBVIOUS
    <2>2. boundary \in AnchorId /\ anchors[boundary].affinity = "BeforeInsertion"
          BY <1>2, <2>1 DEF BoundaryIn
    <2>3. anchors[boundary] # Dead
          BY <2>2 DEF Dead
    <2>4. boundary # nextAnchor
          BY <1>2, <1>4, <2>3
    <2> QED BY <1>1, <1>2, <2>2, <2>4 DEF AnchorsIn
  <1>7. boundary' # 0 => boundary' \in AnchorId /\ anchors'[boundary'].affinity = "BeforeInsertion"
        BY <1>1, <1>2, <1>6 DEF BoundaryIn
  <1>8. ASSUME NEW a \in AnchorId, a >= nextAnchor'
        PROVE  anchors'[a] = Dead
    <2>1. a >= nextAnchor /\ a # nextAnchor
          BY <1>1, <1>2, <1>3, <1>8 DEF AnchorId
    <2> QED BY <1>1, <1>2, <2>1 DEF AnchorsIn
  <1> QED BY <1>1, <1>2, <1>4, <1>5, <1>7, <1>8, AnchorsKeep

LEMMA RemoveAnchorKeeps ==
  ASSUME Inv, NEW a \in AnchorId, RemoveAnchor(a)
  PROVE  Inv'
  <1>1. /\ ~tx.active /\ nextAnchor' = nextAnchor /\ a # boundary
        /\ anchors' = [anchors EXCEPT ![a] = Dead]
        /\ UNCHANGED <<textVars, treeVars, tx>> /\ boundary' = boundary
        BY DEF RemoveAnchor
  <1>2. /\ anchors \in AnchorsIn(text) /\ nextAnchor \in 1..(MaxAnchors + 1) /\ BoundaryIn(anchors)
        /\ boundary \in 0..MaxAnchors /\ \A b \in AnchorId : b >= nextAnchor => anchors[b] = Dead
        BY DEF Inv
  <1>3. anchors' \in AnchorsIn(text)
        BY <1>1, <1>2 DEF AnchorsIn
  <1>4. boundary' # 0 => boundary' \in AnchorId /\ anchors'[boundary'].affinity = "BeforeInsertion"
        BY <1>1, <1>2 DEF BoundaryIn, AnchorsIn
  <1>5. \A b \in AnchorId : b >= nextAnchor' => anchors'[b] = Dead
        BY <1>1, <1>2 DEF AnchorsIn
  <1> QED BY <1>1, <1>2, <1>3, <1>4, <1>5, AnchorsKeep

\* A change of affinity in a transaction.
LEMMA AffinityStands ==
  ASSUME NEW base, NEW as, NEW p, Stands(base, as, p), BoundaryIn(as),
         NEW a \in AnchorId, a # boundary, p.anchors[a] # Dead, NEW f \in Affinity,
         NEW q, q = [p EXCEPT !.anchors[a].affinity = f]
  PROVE  /\ Stands(base, as, q) /\ q.active = p.active
         /\ \A b \in AnchorId : q.anchors[b].offset = p.anchors[b].offset
         /\ \A b \in AnchorId : p.anchors[b] = Dead <=> q.anchors[b] = Dead
  <1>1. Transaction(p)
        BY DEF Stands
  <1>2. p.text \in Text /\ p.anchors \in AnchorsIn(p.text)
        BY <1>1 DEF Transaction
  <1> DEFINE bs == [p.anchors EXCEPT ![a].affinity = f]
  <1>3. /\ q.active = p.active /\ q.refused = p.refused /\ q.text = p.text /\ q.edits = p.edits
        /\ q.anchors = bs
        /\ q = [active |-> p.active, refused |-> p.refused, text |-> p.text, edits |-> p.edits, anchors |-> bs]
        BY <1>1 DEF Transaction
  <1>4. /\ p.anchors \in [AnchorId -> Places(Len(p.text)) \cup {Dead}]
        /\ p.anchors[a] \in Places(Len(p.text)) /\ Len(p.text) \in Nat
        BY <1>2, AnchorIs DEF AnchorsIn, Places, Text
  <1>5. /\ bs \in [AnchorId -> Places(Len(p.text)) \cup {Dead}]
        /\ bs[a] = [offset |-> p.anchors[a].offset, affinity |-> f] /\ bs[a] \in Places(Len(p.text))
        /\ \A b \in AnchorId : b # a => bs[b] = p.anchors[b]
    <2>1. [p.anchors[a] EXCEPT !.affinity = f] = [offset |-> p.anchors[a].offset, affinity |-> f]
          BY <1>4 DEF Places
    <2>2. bs = [b \in AnchorId |-> IF b = a THEN [p.anchors[a] EXCEPT !.affinity = f] ELSE p.anchors[b]]
          BY <1>4
    <2>3. [offset |-> p.anchors[a].offset, affinity |-> f] \in Places(Len(p.text))
          BY <1>4 DEF Places
    <2> HIDE DEF bs
    <2> QED BY <1>4, <2>1, <2>2, <2>3
  <1>6. bs[a] # Dead
        BY <1>5 DEF Dead, Affinity
  <1> HIDE DEF bs
  <1>7. q.anchors \in AnchorsIn(q.text)
        BY <1>3, <1>5 DEF AnchorsIn, Places
  <1>8. Transaction(q)
    <2>1. Places(Len(p.text)) \cup {Dead} \subseteq [offset : Nat, affinity : Affinity \cup {"none"}]
          BY <1>4 DEF Places, Dead
    <2>2. bs \in [AnchorId -> [offset : Nat, affinity : Affinity \cup {"none"}]]
          BY <1>5, <2>1
    <2> QED BY <1>1, <1>3, <1>7, <2>2 DEF Transaction
  <1>9. \A b \in AnchorId : q.anchors[b].offset = p.anchors[b].offset
        BY <1>3, <1>5
  <1>10. \A b \in AnchorId : p.anchors[b] = Dead <=> q.anchors[b] = Dead
        BY <1>3, <1>5, <1>6
  <1>11. boundary # 0 => q.anchors[boundary] = p.anchors[boundary]
        BY <1>3, <1>5 DEF BoundaryIn
  <1>12. /\ Explains(base, p.edits, p.text)
         /\ \A b \in AnchorId : as[b] = Dead <=> p.anchors[b] = Dead
         /\ p.edits = <<>> => \A b \in AnchorId : p.anchors[b].offset = as[b].offset
         /\ boundary # 0 => /\ p.anchors[boundary] = as[boundary]
                            /\ Slice(p.text, 0, as[boundary].offset) = Slice(base, 0, as[boundary].offset)
         BY DEF Stands
  <1>13. \A b \in AnchorId : as[b] = Dead <=> q.anchors[b] = Dead
         BY <1>10, <1>12
  <1>14. q.edits = <<>> => \A b \in AnchorId : q.anchors[b].offset = as[b].offset
         BY <1>3, <1>9, <1>12, ZenonT(60)
  <1>15. Stands(base, as, q)
         BY <1>3, <1>8, <1>11, <1>12, <1>13, <1>14, Zenon DEF Stands
  <1> QED BY <1>3, <1>9, <1>10, <1>15

LEMMA SetAffinityKeeps ==
  ASSUME Inv, NEW a \in AnchorId, NEW f \in Affinity, SetAffinity(a, f)
  PROVE  Inv'
  <1>1. /\ a # boundary
        /\ IF tx.active
           THEN /\ a \in Live(tx.anchors)
                /\ tx' = [tx EXCEPT !.anchors[a].affinity = f]
                /\ UNCHANGED anchors
           ELSE /\ a \in Live(anchors)
                /\ anchors' = [anchors EXCEPT ![a].affinity = f]
                /\ UNCHANGED tx
        /\ UNCHANGED <<textVars, treeVars, nextAnchor, boundary>>
        BY DEF SetAffinity
  <1>2. /\ anchors \in AnchorsIn(text) /\ nextAnchor \in 1..(MaxAnchors + 1) /\ BoundaryIn(anchors)
        /\ boundary \in 0..MaxAnchors /\ (\A b \in AnchorId : b >= nextAnchor => anchors[b] = Dead)
        /\ tx.active => Stands(text, anchors, tx) /\ revision < MaxRevision
        BY DEF Inv
  <1>3. CASE tx.active
    <2>1. tx.anchors[a] # Dead /\ Stands(text, anchors, tx)
          BY <1>1, <1>2, <1>3 DEF Live
    <2>2. Stands(text, anchors, tx')
          BY <1>1, <1>2, <1>3, <2>1, AffinityStands
    <2>3. Transaction(tx')
          BY <2>2 DEF Stands
    <2> QED BY <1>1, <1>2, <1>3, <2>2, <2>3, TransactionKeeps
  <1>4. CASE ~tx.active
    <2>1. anchors' = [anchors EXCEPT ![a].affinity = f] /\ anchors[a] # Dead
          BY <1>1, <1>4 DEF Live
    <2>2. anchors' \in AnchorsIn(text)
          BY <1>2, <2>1 DEF AnchorsIn
    <2>3. boundary' # 0 => boundary' \in AnchorId /\ anchors'[boundary'].affinity = "BeforeInsertion"
          BY <1>1, <1>2, <2>1 DEF BoundaryIn, AnchorsIn
    <2>4. \A b \in AnchorId : b >= nextAnchor' => anchors'[b] = Dead
          BY <1>1, <1>2, <2>1 DEF AnchorsIn
    <2> QED BY <1>1, <1>2, <1>4, <2>2, <2>3, <2>4, AnchorsKeep
  <1> QED BY <1>3, <1>4

LEMMA SetEditableStartKeeps ==
  ASSUME Inv, NEW o \in 0..Len(text), SetEditableStart(o)
  PROVE  Inv'
  <1>1. /\ ~tx.active /\ nextAnchor <= MaxAnchors /\ nextAnchor' = nextAnchor + 1
        /\ anchors' = [a \in AnchorId |->
                         CASE a = boundary -> Dead
                           [] a = nextAnchor -> [offset |-> o, affinity |-> "BeforeInsertion"]
                           [] OTHER -> anchors[a]]
        /\ UNCHANGED <<textVars, treeVars, tx>> /\ boundary' = nextAnchor
        BY DEF SetEditableStart
  <1>2. /\ anchors \in AnchorsIn(text) /\ nextAnchor \in 1..(MaxAnchors + 1) /\ BoundaryIn(anchors)
        /\ boundary \in 0..MaxAnchors /\ \A a \in AnchorId : a >= nextAnchor => anchors[a] = Dead
        BY DEF Inv
  <1>3. MaxAnchors \in Nat
        BY DocumentAssumption
  <1>4. nextAnchor \in AnchorId /\ nextAnchor' \in 1..(MaxAnchors + 1) /\ boundary' \in 0..MaxAnchors
        BY <1>1, <1>2, <1>3 DEF AnchorId
  <1>5. boundary # nextAnchor
    <2>1. CASE boundary = 0
          BY <1>2, <1>3, <2>1
    <2>2. CASE boundary # 0
      <3>1. anchors[boundary] # Dead
            BY <1>2, <2>2 DEF BoundaryIn, Dead
      <3> QED BY <1>2, <1>4, <3>1
    <2> QED BY <2>1, <2>2
  <1>6. \A a \in AnchorId : anchors'[a] = CASE a = boundary -> Dead
                                           [] a = nextAnchor -> [offset |-> o, affinity |-> "BeforeInsertion"]
                                           [] OTHER -> anchors[a]
        BY <1>1
  <1>7. /\ anchors'[nextAnchor] = [offset |-> o, affinity |-> "BeforeInsertion"]
        /\ boundary \in AnchorId => anchors'[boundary] = Dead
        /\ \A a \in AnchorId : a # boundary /\ a # nextAnchor => anchors'[a] = anchors[a]
        BY <1>4, <1>5, <1>6
  <1>8. anchors' \in AnchorsIn(text)
    <2>1. \A a \in AnchorId : anchors'[a] \in [offset : 0..Len(text), affinity : Affinity] \cup {Dead}
          BY <1>2, <1>7 DEF AnchorsIn, Affinity
    <2>2. anchors' = [a \in AnchorId |-> anchors'[a]]
          BY <1>1
    <2> QED BY <2>1, <2>2 DEF AnchorsIn
  <1>9. boundary' # 0 => boundary' \in AnchorId /\ anchors'[boundary'].affinity = "BeforeInsertion"
        BY <1>1, <1>4, <1>7
  <1>10. ASSUME NEW a \in AnchorId, a >= nextAnchor'
        PROVE  anchors'[a] = Dead
    <2>1. a >= nextAnchor /\ a # nextAnchor
          BY <1>1, <1>2, <1>3, <1>10 DEF AnchorId
    <2> QED BY <1>2, <1>7, <2>1
  <1> QED BY <1>1, <1>2, <1>4, <1>8, <1>9, <1>10, AnchorsKeep

LEMMA ClearEditableStartKeeps == Inv /\ ClearEditableStart => Inv'
  <1> SUFFICES ASSUME Inv, ClearEditableStart
               PROVE  Inv'
      OBVIOUS
  <1>1. /\ ~tx.active /\ boundary # 0 /\ nextAnchor' = nextAnchor /\ boundary' = 0
        /\ anchors' = [anchors EXCEPT ![boundary] = Dead]
        /\ UNCHANGED <<textVars, treeVars, tx>>
        BY DEF ClearEditableStart
  <1>2. /\ anchors \in AnchorsIn(text) /\ nextAnchor \in 1..(MaxAnchors + 1)
        /\ boundary \in 0..MaxAnchors /\ \A a \in AnchorId : a >= nextAnchor => anchors[a] = Dead
        BY DEF Inv
  <1>3. 0 \in 0..MaxAnchors
        BY DocumentAssumption
  <1>4. anchors' \in AnchorsIn(text)
        BY <1>1, <1>2 DEF AnchorsIn
  <1>5. \A a \in AnchorId : a >= nextAnchor' => anchors'[a] = Dead
        BY <1>1, <1>2 DEF AnchorsIn
  <1> QED BY <1>1, <1>2, <1>3, <1>4, <1>5, AnchorsKeep

\* Every step keeps the invariant.
LEMMA InvNext == Inv /\ [Next]_vars => Inv'
  <1> SUFFICES ASSUME Inv, [Next]_vars
               PROVE  Inv'
      OBVIOUS
  <1>1. CASE Undo \/ Redo \/ \E n \in DOMAIN nodes : UndoTo(n)
        BY <1>1, MoveIs, MovedKeeps
  <1>2. ASSUME NEW o \in 0..Len(text), (\E f \in Affinity : CreateAnchor(o, f)) \/ SetEditableStart(o)
        PROVE  Inv'
        BY <1>2, CreateAnchorKeeps, SetEditableStartKeeps
  <1>3. ASSUME NEW a \in AnchorId, RemoveAnchor(a) \/ \E f \in Affinity : SetAffinity(a, f)
        PROVE  Inv'
        BY <1>3, RemoveAnchorKeeps, SetAffinityKeeps
  <1>4. CASE UNCHANGED vars
    <2>1. UNCHANGED <<textVars, treeVars, anchors, nextAnchor, boundary>> /\ tx' = tx
          BY <1>4 DEF vars
    <2>2. Transaction(tx') /\ (tx'.active => Stands(text, anchors, tx') /\ revision < MaxRevision)
          BY <2>1 DEF Inv
    <2> QED BY <2>1, <2>2, TransactionKeeps
  <1> QED BY <1>1, <1>2, <1>3, <1>4, BeginKeeps, ReplaceTextKeeps, CommitKeeps, AbortKeeps,
             ClearEditableStartKeeps DEF Next

\* The invariant holds in every state.
THEOREM InvHolds == Spec => []Inv
  <1>1. Init => Inv
        BY InvInit
  <1>2. Inv /\ [Next]_vars => Inv'
        BY InvNext
  <1> QED BY <1>1, <1>2, PTL DEF Spec

-----------------------------------------------------------------------------
(* What follows from the invariant.                                        *)

\* Texts, lists of edits, anchors and nodes are what they are taken for in every state.
THEOREM TypeHolds == Spec => []TypeOK
  <1>1. ASSUME Inv
        PROVE  TypeOK
    <2>1. /\ text \in Text /\ revision \in 0..MaxRevision
          /\ anchors \in AnchorsIn(text) /\ nextAnchor \in 1..(MaxAnchors + 1)
          /\ BoundaryIn(anchors) /\ Tree /\ current \in 1..Len(nodes) /\ Transaction(tx)
          BY <1>1 DEF Inv
    <2>2. nodes \in Seq([text : Text, forward : Edits, inverse : Edits, parent : Nat])
          BY <2>1 DEF Tree
    <2>3. current \in DOMAIN nodes
          BY <2>1, TreeIs
    <2>4. boundary = 0 \/ boundary \in Live(anchors)
      <3>1. SUFFICES ASSUME boundary # 0
                     PROVE  boundary \in Live(anchors)
            OBVIOUS
      <3>2. boundary \in AnchorId /\ anchors[boundary].affinity = "BeforeInsertion"
            BY <2>1, <3>1 DEF BoundaryIn
      <3>3. anchors[boundary] # Dead
            BY <3>2 DEF Dead
      <3> QED BY <3>2, <3>3 DEF Live
    <2>5. tx.text \in Text /\ tx.edits \in Edits /\ tx.anchors \in AnchorsIn(tx.text)
          BY <2>1 DEF Transaction
    <2> QED BY <2>1, <2>2, <2>3, <2>4, <2>5 DEF TypeOK
  <1> QED BY <1>1, InvHolds, PTL

\* "normalized (old-revision coordinates, ascending, non-overlapping)" (document.hpp): the
\* edits a transaction hands on are in base coordinates, each strictly behind the last, and
\* turn the base text into the pending one, however many were made and however they met.
THEOREM EditsExplain == Spec => []PendingEditsExplainText
  <1>1. ASSUME Inv
        PROVE  PendingEditsExplainText
    <2>1. SUFFICES ASSUME tx.active
                   PROVE  /\ \A i \in DOMAIN tx.edits :
                                /\ tx.edits[i].start <= tx.edits[i].end /\ tx.edits[i].end <= Len(text)
                                /\ i > 1 => tx.edits[i - 1].end < tx.edits[i].start
                          /\ Explained(text, tx.edits) = tx.text
          BY DEF PendingEditsExplainText
    <2>2. Explains(text, tx.edits, tx.text)
          BY <1>1, <2>1 DEF Inv, Stands
    <2>3. Normal(text, tx.edits) /\ tx.edits \in Edits /\ Len(tx.edits) \in Nat
          BY <2>2, ExplainsIs
    <2>4. DOMAIN tx.edits = 1..Len(tx.edits)
          BY <2>3 DEF Edits
    <2>5. ASSUME NEW i \in 1..Len(tx.edits)
          PROVE  /\ tx.edits[i].start <= tx.edits[i].end /\ tx.edits[i].end <= Len(text)
                 /\ i > 1 => tx.edits[i - 1].end < tx.edits[i].start
      <3>1. tx.edits[i].start <= tx.edits[i].end /\ tx.edits[i].end <= Len(text)
            BY <2>3 DEF Normal
      <3>2. ASSUME i > 1
            PROVE  tx.edits[i - 1].end < tx.edits[i].start
        <4> DEFINE j == i - 1
        <4>1. j \in 1..Len(tx.edits) /\ j < i
              BY <2>3, <3>2
        <4> HIDE DEF j
        <4>2. tx.edits[j].end < tx.edits[i].start
              BY <2>3, <4>1 DEF Normal
        <4> QED BY <4>2 DEF j
      <3> QED BY <3>1, <3>2
    <2>6. Explained(text, tx.edits) = tx.text
          BY <2>2, ReadsAs
    <2> QED BY <2>4, <2>5, <2>6
  <1> QED BY <1>1, InvHolds, PTL

\* From wherever the document is, the edit lists on the way to any node lead to exactly
\* that node's text, in a list that explains the jump; only a boundary can refuse one.
THEOREM NodesReachable == Spec => []EveryNodeIsReachable
  <1>1. ASSUME Inv
        PROVE  EveryNodeIsReachable
    <2>1. /\ text \in Text /\ anchors \in AnchorsIn(text) /\ BoundaryIn(anchors)
          /\ Tree /\ current \in 1..Len(nodes) /\ text = nodes[current].text
          BY <1>1 DEF Inv
    <2>2. ASSUME NEW n \in DOMAIN nodes, NEW p, p = Replay(PathTo(n))
          PROVE  /\ boundary = 0 => ~p.refused
                 /\ ~p.refused => p.text = nodes[n].text /\ Explained(text, p.edits) = p.text
      <3>1. n \in 1..Len(nodes)
            BY <2>1, TreeIs
      <3>2. PICK texts : /\ Len(PathTo(n)) \in Nat /\ Route(PathTo(n), texts)
                         /\ texts[0] = text /\ texts[Len(PathTo(n))] = nodes[n].text
            BY <2>1, <3>1, PathLeads
      <3> DEFINE lists == PathTo(n)
      <3>3. p = Replay(lists)
            BY <2>2
      <3> HIDE DEF lists
      <3>4. /\ Len(lists) \in Nat /\ Route(lists, texts)
            /\ texts[0] = text /\ texts[Len(lists)] = nodes[n].text
            BY <3>2 DEF lists
      <3>5. Replayed(p, nodes[n].text)
            BY <2>1, <3>3, <3>4, ReplayLeads
      <3>6. Explains(text, p.edits, p.text)
            BY <3>5 DEF Replayed, Stands
      <3>7. Explained(text, p.edits) = p.text
            BY <3>6, ReadsAs
      <3> QED BY <3>5, <3>7 DEF Replayed
    <2> QED BY <2>2 DEF EveryNodeIsReachable
  <1> QED BY <1>1, InvHolds, PTL

-----------------------------------------------------------------------------
(* What a step may do.                                                     *)

\* The steps of Next, put together by what they do to text and anchors.
Edited ==
    \/ Begin \/ ReplaceText \/ Abort
    \/ Commit /\ tx.edits = <<>>
Anchored ==
    \/ \E o \in 0..Len(text), f \in Affinity : CreateAnchor(o, f)
    \/ \E a \in AnchorId : RemoveAnchor(a)
    \/ \E a \in AnchorId, f \in Affinity : SetAffinity(a, f)
Bounded == (\E o \in 0..Len(text) : SetEditableStart(o)) \/ ClearEditableStart

\* What a step is.
LEMMA StepIs ==
  ASSUME Inv, Next
  PROVE  \/ Edited \/ Anchored \/ Bounded
         \/ Commit /\ tx.edits # <<>>
         \/ \E n \in 1..Len(nodes) : Moved(n)
  <1>1. CASE Undo \/ Redo \/ \E n \in DOMAIN nodes : UndoTo(n)
        BY <1>1, MoveIs
  <1>2. CASE Begin \/ ReplaceText \/ Commit \/ Abort
        BY <1>2 DEF Edited
  <1>3. CASE \E o \in 0..Len(text) : \/ \E f \in Affinity : CreateAnchor(o, f)
                                     \/ SetEditableStart(o)
        BY <1>3 DEF Anchored, Bounded
  <1>4. CASE \E a \in AnchorId : RemoveAnchor(a) \/ \E f \in Affinity : SetAffinity(a, f)
        BY <1>4 DEF Anchored
  <1>5. CASE ClearEditableStart
        BY <1>5 DEF Bounded
  <1> QED BY <1>1, <1>2, <1>3, <1>4, <1>5 DEF Next

\* Nothing outside the transaction changes until it is committed.
LEMMA EditedIs ==
  ASSUME Edited
  PROVE  UNCHANGED <<textVars, treeVars, anchors, nextAnchor, boundary>>
  BY DEF Edited, Begin, ReplaceText, Commit, Abort

\* A new anchor gets an id of its own.
LEMMA NextIsDead ==
  ASSUME Inv, nextAnchor <= MaxAnchors
  PROVE  nextAnchor \in AnchorId /\ anchors[nextAnchor] = Dead /\ nextAnchor # boundary
  <1>1. /\ nextAnchor \in 1..(MaxAnchors + 1) /\ BoundaryIn(anchors) /\ MaxAnchors \in Nat
        /\ \A a \in AnchorId : a >= nextAnchor => anchors[a] = Dead
        BY DocumentAssumption DEF Inv
  <1>2. nextAnchor \in AnchorId /\ nextAnchor # 0 /\ nextAnchor >= nextAnchor
        BY <1>1 DEF AnchorId
  <1>3. anchors[nextAnchor] = Dead
        BY <1>1, <1>2
  <1>4. Dead.affinity # "BeforeInsertion"
        BY DEF Dead
  <1>5. ASSUME nextAnchor = boundary
        PROVE  FALSE
    <2>1. anchors[boundary].affinity = "BeforeInsertion"
          BY <1>1, <1>2, <1>5 DEF BoundaryIn
    <2> QED BY <1>3, <1>4, <1>5, <2>1
  <1> QED BY <1>2, <1>3, <1>5

\* Nobody but the boundary's own operations touches its anchor.
LEMMA AnchoredKeepsBoundary ==
  ASSUME Inv, Anchored, boundary # 0
  PROVE  text' = text /\ boundary' = boundary /\ anchors'[boundary] = anchors[boundary]
  <1>1. boundary \in AnchorId /\ anchors \in AnchorsIn(text)
        BY DEF Inv, BoundaryIn
  <1>2. ASSUME NEW o \in 0..Len(text), NEW f \in Affinity, CreateAnchor(o, f)
        PROVE  text' = text /\ boundary' = boundary /\ anchors'[boundary] = anchors[boundary]
    <2>1. /\ anchors' = [anchors EXCEPT ![nextAnchor] = [offset |-> o, affinity |-> f]]
          /\ text' = text /\ boundary' = boundary /\ nextAnchor <= MaxAnchors
          BY <1>2 DEF CreateAnchor, textVars
    <2>2. nextAnchor # boundary
          BY <2>1, NextIsDead
    <2> QED BY <1>1, <2>1, <2>2 DEF AnchorsIn
  <1>3. ASSUME NEW a \in AnchorId, RemoveAnchor(a)
        PROVE  text' = text /\ boundary' = boundary /\ anchors'[boundary] = anchors[boundary]
    <2>1. /\ anchors' = [anchors EXCEPT ![a] = Dead] /\ a # boundary
          /\ text' = text /\ boundary' = boundary
          BY <1>3 DEF RemoveAnchor, textVars
    <2> QED BY <1>1, <2>1 DEF AnchorsIn
  <1>4. ASSUME NEW a \in AnchorId, NEW f \in Affinity, SetAffinity(a, f)
        PROVE  text' = text /\ boundary' = boundary /\ anchors'[boundary] = anchors[boundary]
    <2>1. /\ anchors' = anchors \/ anchors' = [anchors EXCEPT ![a].affinity = f]
          /\ a # boundary /\ text' = text /\ boundary' = boundary
          BY <1>4 DEF SetAffinity, textVars
    <2> QED BY <1>1, <2>1 DEF AnchorsIn
  <1> QED BY <1>2, <1>3, <1>4 DEF Anchored

\* Text before the boundary.
PrefixKept == Boundary' = Boundary /\ Slice(text', 0, Boundary) = Slice(text, 0, Boundary)

\* "text before the editable boundary is read-only" (the code's own message): edits, undo,
\* redo and jumps of every kind leave the boundary where it is and the text before it alone.
THEOREM PrefixIsReadOnly == Spec => ReadOnlyPrefix
  <1>1. ASSUME Inv, Next, boundary # 0, boundary' = boundary
        PROVE  PrefixKept
    <2>1. CASE Edited
          BY <1>1, <2>1, EditedIs DEF PrefixKept, Boundary, textVars
    <2>2. CASE Anchored
          BY <1>1, <2>2, AnchoredKeepsBoundary DEF PrefixKept, Boundary
    <2>3. CASE Bounded
      <3>1. ASSUME NEW o \in 0..Len(text), SetEditableStart(o)
            PROVE  FALSE
        <4>1. nextAnchor <= MaxAnchors /\ boundary' = nextAnchor
              BY <3>1 DEF SetEditableStart
        <4> QED BY <1>1, <4>1, NextIsDead
      <3>2. ~ClearEditableStart
            BY <1>1 DEF ClearEditableStart
      <3> QED BY <2>3, <3>1, <3>2 DEF Bounded
    <2>4. CASE Commit /\ tx.edits # <<>>
      <3>1. text' = tx.text /\ anchors' = tx.anchors
            BY <1>1, <2>4, CommitIs
      <3>2. Stands(text, anchors, tx)
            BY <1>1, <2>4 DEF Inv, Commit
      <3>3. /\ tx.anchors[boundary] = anchors[boundary]
            /\ Slice(tx.text, 0, anchors[boundary].offset) = Slice(text, 0, anchors[boundary].offset)
            BY <1>1, <3>2 DEF Stands
      <3> QED BY <1>1, <3>1, <3>3 DEF PrefixKept, Boundary
    <2>5. ASSUME NEW n \in 1..Len(nodes), Moved(n)
          PROVE  PrefixKept
      <3>1. CASE n = current /\ UNCHANGED <<text, revision, anchors>>
            BY <1>1, <3>1 DEF PrefixKept, Boundary
      <3>2. CASE /\ anchors'[boundary] = anchors[boundary]
                 /\ Slice(text', 0, anchors[boundary].offset) = Slice(text, 0, anchors[boundary].offset)
            BY <1>1, <3>2 DEF PrefixKept, Boundary
      <3> QED BY <1>1, <2>5, <3>1, <3>2 DEF Moved
    <2> QED BY <1>1, <2>1, <2>2, <2>3, <2>4, <2>5, StepIs
  <1>2. Inv /\ [Next]_vars => [boundary # 0 /\ boundary' = boundary =>
                                 /\ Boundary' = Boundary
                                 /\ Slice(text', 0, Boundary) = Slice(text, 0, Boundary)]_vars
        BY <1>1 DEF PrefixKept
  <1> QED BY <1>2, InvHolds, PTL DEF Spec, ReadOnlyPrefix

\* Anchors of one affinity in the order they were in.
Ordered(before, after) ==
    \A a, b \in AnchorId :
        /\ before[a] # Dead /\ before[b] # Dead /\ after[a] # Dead /\ after[b] # Dead
        /\ before[a].affinity = before[b].affinity /\ before[a].offset <= before[b].offset
        => after[a].offset <= after[b].offset

\* Anchors in the places they were in.
InPlace(before, after) ==
    \A a \in AnchorId : before[a] # Dead /\ after[a] # Dead => after[a].offset = before[a].offset

\* Anchors in their places, and anchors that follow, are in order.
LEMMA InPlaceIsOrdered ==
  ASSUME NEW before, NEW after, InPlace(before, after)
  PROVE  Ordered(before, after)
  BY DEF InPlace, Ordered

LEMMA FollowsIsOrdered ==
  ASSUME NEW before, NEW after, Follows(before, after)
  PROVE  Ordered(before, after)
  BY DEF Follows, Ordered

\* Making, removing and changing anchors moves none.
LEMMA AnchoredInPlace ==
  ASSUME Inv, Anchored \/ Bounded
  PROVE  InPlace(ShownAnchors, ShownAnchors')
  <1>1. anchors \in AnchorsIn(text) /\ Transaction(tx)
        BY DEF Inv
  <1>2. ASSUME NEW o \in 0..Len(text), NEW f \in Affinity, CreateAnchor(o, f)
        PROVE  InPlace(ShownAnchors, ShownAnchors')
    <2>1. /\ anchors' = [anchors EXCEPT ![nextAnchor] = [offset |-> o, affinity |-> f]]
          /\ ~tx.active /\ tx' = tx /\ nextAnchor <= MaxAnchors
          BY <1>2 DEF CreateAnchor
    <2>2. anchors[nextAnchor] = Dead
          BY <2>1, NextIsDead
    <2>3. \A a \in AnchorId : a # nextAnchor => anchors'[a] = anchors[a]
          BY <1>1, <2>1 DEF AnchorsIn
    <2> QED BY <2>1, <2>2, <2>3 DEF InPlace, ShownAnchors
  <1>3. ASSUME NEW a \in AnchorId, RemoveAnchor(a)
        PROVE  InPlace(ShownAnchors, ShownAnchors')
    <2>1. anchors' = [anchors EXCEPT ![a] = Dead] /\ ~tx.active /\ tx' = tx
          BY <1>3 DEF RemoveAnchor
    <2>2. /\ anchors'[a] = Dead
          /\ \A b \in AnchorId : b # a => anchors'[b] = anchors[b]
          BY <1>1, <2>1 DEF AnchorsIn
    <2> QED BY <2>1, <2>2 DEF InPlace, ShownAnchors
  <1>4. ASSUME NEW a \in AnchorId, NEW f \in Affinity, SetAffinity(a, f)
        PROVE  InPlace(ShownAnchors, ShownAnchors')
    <2>1. CASE tx.active
      <3>1. tx' = [tx EXCEPT !.anchors[a].affinity = f] /\ a # boundary /\ tx.anchors[a] # Dead
            BY <1>4, <2>1 DEF SetAffinity, Live
      <3>2. Stands(text, anchors, tx) /\ BoundaryIn(anchors)
            BY <2>1 DEF Inv
      <3>3. /\ tx'.active = tx.active
            /\ \A b \in AnchorId : tx'.anchors[b].offset = tx.anchors[b].offset
            BY <3>1, <3>2, AffinityStands
      <3> QED BY <2>1, <3>3 DEF InPlace, ShownAnchors
    <2>2. CASE ~tx.active
      <3>1. anchors' = [anchors EXCEPT ![a].affinity = f] /\ tx' = tx
            BY <1>4, <2>2 DEF SetAffinity
      <3>2. anchors[a] # Dead
            BY <1>4, <2>2 DEF SetAffinity, Live
      <3>3. anchors[a] \in Places(Len(text))
            BY <1>1, <3>2, AnchorIs DEF Inv
      <3>4. /\ anchors'[a] = [anchors[a] EXCEPT !.affinity = f]
            /\ \A b \in AnchorId : b # a => anchors'[b] = anchors[b]
            BY <1>1, <3>1 DEF AnchorsIn
      <3>5. anchors'[a].offset = anchors[a].offset
            BY <3>3, <3>4 DEF Places
      <3> QED BY <2>2, <3>1, <3>4, <3>5 DEF InPlace, ShownAnchors
    <2> QED BY <2>1, <2>2
  <1>5. ASSUME NEW o \in 0..Len(text), SetEditableStart(o)
        PROVE  InPlace(ShownAnchors, ShownAnchors')
    <2>1. /\ anchors' = [a \in AnchorId |->
                           CASE a = boundary -> Dead
                             [] a = nextAnchor -> [offset |-> o, affinity |-> "BeforeInsertion"]
                             [] OTHER -> anchors[a]]
          /\ ~tx.active /\ tx' = tx /\ nextAnchor <= MaxAnchors
          BY <1>5 DEF SetEditableStart
    <2>2. anchors[nextAnchor] = Dead /\ nextAnchor # boundary
          BY <2>1, NextIsDead
    <2>3. \A a \in AnchorId : a # boundary /\ a # nextAnchor => anchors'[a] = anchors[a]
          BY <2>1
    <2>4. \A a \in AnchorId : a = boundary => anchors'[a] = Dead
          BY <2>1, <2>2
    <2> QED BY <2>1, <2>2, <2>3, <2>4 DEF InPlace, ShownAnchors
  <1>6. ASSUME ClearEditableStart
        PROVE  InPlace(ShownAnchors, ShownAnchors')
    <2>1. anchors' = [anchors EXCEPT ![boundary] = Dead] /\ ~tx.active /\ tx' = tx
          BY <1>6 DEF ClearEditableStart
    <2>2. \A b \in AnchorId : b # boundary => anchors'[b] = anchors[b]
          BY <1>1, <2>1 DEF AnchorsIn
    <2>3. \A b \in AnchorId : b = boundary => anchors'[b] = Dead
          BY <1>1, <2>1 DEF AnchorsIn
    <2> QED BY <2>1, <2>2, <2>3 DEF InPlace, ShownAnchors
  <1> QED BY <1>2, <1>3, <1>4, <1>5, <1>6 DEF Anchored, Bounded

\* Two anchors of one affinity never change sides, through edits, commits, undo and jumps;
\* only an abort goes back to what was before.
THEOREM AnchorsKeepOrder == Spec => AnchorsNeverCross
  <1>1. ASSUME Inv, Next, ~Abort
        PROVE  Ordered(ShownAnchors, ShownAnchors')
    <2>1. CASE Begin
      <3>1. ~tx.active /\ tx'.active = TRUE /\ tx'.anchors = anchors
            BY <2>1 DEF Begin, Opened
      <3>2. ShownAnchors' = ShownAnchors
            BY <3>1 DEF ShownAnchors
      <3>3. InPlace(ShownAnchors, ShownAnchors')
            BY <3>2 DEF InPlace
      <3> QED BY <3>3, InPlaceIsOrdered
    <2>2. CASE ReplaceText
      <3>1. tx.active /\ tx'.active /\ Follows(tx.anchors, tx'.anchors)
            BY <1>1, <2>2, ReplaceTextIs
      <3>2. ShownAnchors = tx.anchors /\ ShownAnchors' = tx'.anchors
            BY <3>1 DEF ShownAnchors
      <3> QED BY <3>1, <3>2, FollowsIsOrdered
    <2>3. CASE Commit
      <3>1. tx.active /\ tx' = Closed /\ Stands(text, anchors, tx)
            BY <1>1, <2>3 DEF Commit, Inv
      <3>2. ShownAnchors = tx.anchors /\ ShownAnchors' = anchors'
            BY <3>1, ClosedIs DEF ShownAnchors
      <3>3. CASE tx.edits = <<>>
        <4>1. anchors' = anchors
              BY <2>3, <3>3 DEF Commit
        <4>2. \A a \in AnchorId : tx.anchors[a].offset = anchors[a].offset
              BY <3>1, <3>3 DEF Stands
        <4>3. InPlace(ShownAnchors, ShownAnchors')
              BY <3>2, <4>1, <4>2 DEF InPlace
        <4> QED BY <4>3, InPlaceIsOrdered
      <3>4. CASE tx.edits # <<>>
        <4>1. anchors' = tx.anchors
              BY <1>1, <2>3, <3>4, CommitIs
        <4>2. InPlace(ShownAnchors, ShownAnchors')
              BY <3>2, <4>1 DEF InPlace
        <4> QED BY <4>2, InPlaceIsOrdered
      <3> QED BY <3>3, <3>4
    <2>4. CASE Anchored \/ Bounded
          BY <1>1, <2>4, AnchoredInPlace, InPlaceIsOrdered
    <2>5. ASSUME NEW n \in 1..Len(nodes), Moved(n)
          PROVE  Ordered(ShownAnchors, ShownAnchors')
      <3>1. ~tx.active /\ tx' = tx /\ (anchors' = anchors \/ Follows(anchors, anchors'))
            BY <2>5 DEF Moved
      <3>2. ShownAnchors = anchors /\ ShownAnchors' = anchors'
            BY <3>1 DEF ShownAnchors
      <3>3. CASE anchors' = anchors
        <4>1. InPlace(ShownAnchors, ShownAnchors')
              BY <3>2, <3>3 DEF InPlace
        <4> QED BY <4>1, InPlaceIsOrdered
      <3>4. CASE Follows(anchors, anchors')
            BY <3>2, <3>4, FollowsIsOrdered
      <3> QED BY <3>1, <3>3, <3>4
    <2> QED BY <1>1, <2>1, <2>2, <2>3, <2>4, <2>5, StepIs DEF Edited
  <1>2. Inv /\ [Next]_vars =>
          [Abort \/ \A a, b \in AnchorId :
             LET before == ShownAnchors
                 after  == ShownAnchors' IN
             /\ before[a] # Dead /\ before[b] # Dead /\ after[a] # Dead /\ after[b] # Dead
             /\ before[a].affinity = before[b].affinity /\ before[a].offset <= before[b].offset
             => after[a].offset <= after[b].offset]_vars
        BY <1>1 DEF Ordered
  <1> QED BY <1>2, InvHolds, PTL DEF Spec, AnchorsNeverCross

-----------------------------------------------------------------------------
(* The history a document promises.                                        *)

\* The tree as its history sees it, node by node.
Story == [n \in DOMAIN nodes |-> [text |-> nodes[n].text, parent |-> nodes[n].parent]]

Told == /\ Story \in Seq([text : Text, parent : Nat]) /\ Len(Story) = Len(nodes)
        /\ DOMAIN Story = 1..Len(nodes)
        /\ \A n \in 1..Len(nodes) : Story[n] = [text |-> nodes[n].text, parent |-> nodes[n].parent]

\* The history of a tree is a sequence of texts with parents,
LEMMA StoryIs == Tree => Told
  <1> SUFFICES ASSUME Tree
               PROVE  Told
      OBVIOUS
  <1> DEFINE R == [text : Text, parent : Nat]
             N == Len(nodes)
             s == Story
  <1>1. N \in Nat /\ DOMAIN nodes = 1..N
        BY TreeIs
  <1>2. s = [n \in 1..N |-> [text |-> nodes[n].text, parent |-> nodes[n].parent]]
        BY <1>1 DEF Story
  <1>3. ASSUME NEW n \in 1..N
        PROVE  [text |-> nodes[n].text, parent |-> nodes[n].parent] \in R
    <2>1. nodes[n].text \in Text /\ nodes[n].parent \in 0..(n - 1)
          BY TreeIs
    <2>2. nodes[n].parent \in Nat
          BY <1>1, <2>1
    <2> QED BY <2>1, <2>2
  <1> HIDE DEF N, R, s
  <1>4. s \in [1..N -> R]
        BY <1>2, <1>3
  <1>5. s \in Seq(R) /\ Len(s) = N
        BY <1>1, <1>4
  <1>6. DOMAIN s = 1..N /\ \A n \in 1..N : s[n] = [text |-> nodes[n].text, parent |-> nodes[n].parent]
        BY <1>2
  <1> QED BY <1>5, <1>6 DEF N, R, s, Told

\* and stays one.
LEMMA StoryIsNext == Tree' => Told'
  BY StoryIs, PTL

\* A commit of a change puts one node at the end of the story.
LEMMA StoryGrows ==
  ASSUME Inv, Commit, tx.edits # <<>>
  PROVE  Story' = Append(Story, [text |-> text', parent |-> current])
  <1> DEFINE R == [text : Text, parent : Nat]
             N == Len(nodes)
             M == N + 1
             x == [text |-> text', parent |-> current]
             s == Story
             r == Story'
  <1>1. /\ Tree' /\ Len(nodes') = M
        /\ nodes'[M].text = text' /\ nodes'[M].parent = current
        /\ \A m \in 1..N : nodes'[m] = nodes[m]
        BY CommitIs
  <1>2. /\ s \in Seq(R) /\ Len(s) = N /\ DOMAIN s = 1..N
        /\ \A n \in 1..N : s[n] = [text |-> nodes[n].text, parent |-> nodes[n].parent]
        BY StoryIs DEF Inv, Told
  <1>3. /\ r \in Seq(R) /\ Len(r) = Len(nodes') /\ DOMAIN r = 1..Len(nodes')
        /\ \A n \in 1..Len(nodes') : r[n] = [text |-> nodes'[n].text, parent |-> nodes'[n].parent]
        BY <1>1, StoryIsNext DEF Told
  <1>4. N \in Nat /\ M \in Nat /\ M = N + 1 /\ M \in 1..M
        BY TreeIs DEF Inv
  <1> HIDE DEF N, M, s, r, x
  <1>5. r[M] = [text |-> text', parent |-> current]
        BY <1>1, <1>3, <1>4
  <1>6. r[M] = x
        BY <1>5 DEF x
  <1>7. ASSUME NEW n \in 1..N
        PROVE  r[n] = s[n]
    <2>1. n \in 1..M
          BY <1>4
    <2> QED BY <1>1, <1>2, <1>3, <2>1
  <1>8. x \in R
    <2>1. r[M] \in R
      <3> HIDE DEF R
      <3> QED BY <1>1, <1>3, <1>4
    <2> QED BY <1>6, <2>1
  <1> DEFINE a == Append(s, x)
  <1> HIDE DEF R
  <1>9. /\ a \in Seq(R) /\ Len(a) = M /\ a[M] = x
        /\ \A n \in 1..N : a[n] = s[n]
        BY <1>2, <1>4, <1>8
  <1> HIDE DEF a
  <1>10. ASSUME NEW n \in 1..M
         PROVE  r[n] = a[n]
    <2>1. n = M \/ n \in 1..N
          BY <1>4
    <2> QED BY <1>6, <1>7, <1>9, <2>1
  <1>11. r = a
    <2>1. r \in Seq(R) /\ a \in Seq(R) /\ Len(r) = M /\ Len(a) = M
          BY <1>1, <1>3, <1>9
    <2> QED BY <1>10, <2>1, SameText
  <1> QED BY <1>11 DEF r, a, s, x

\* It begins with the text the document was made with.
LEMMA StoryBegins ==
  ASSUME Init
  PROVE  Story = <<[text |-> Initial, parent |-> 0]>>
  <1> DEFINE R == [text : Text, parent : Nat]
             x == [text |-> Initial, parent |-> 0]
             s == Story
             root == [text |-> Initial, forward |-> <<>>, inverse |-> <<>>, parent |-> 0]
  <1>1. x \in R
        BY DocumentAssumption
  <1>2. root.text = Initial /\ root.parent = 0
        OBVIOUS
  <1>3. nodes = <<root>>
        BY DEF Init
  <1> HIDE DEF root
  <1>4. Len(nodes) = 1 /\ nodes[1] = root
        BY <1>3
  <1>5. /\ s \in Seq(R) /\ Len(s) = Len(nodes)
        /\ \A n \in 1..Len(nodes) : s[n] = [text |-> nodes[n].text, parent |-> nodes[n].parent]
        BY InvInit, StoryIs DEF Inv, Told
  <1> HIDE DEF s
  <1>6. 1 \in 1..Len(nodes)
        BY <1>4
  <1>7. s[1] = x
        BY <1>2, <1>4, <1>5, <1>6
  <1> DEFINE one == <<x>>
  <1> HIDE DEF x, R
  <1>8. one \in Seq(R) /\ Len(one) = 1 /\ one[1] = x
        BY <1>1
  <1> HIDE DEF one
  <1>9. \A i \in 1..Len(s) : s[i] = one[i]
        BY <1>4, <1>5, <1>7, <1>8
  <1>10. s = one
    <2>1. s \in Seq(R) /\ one \in Seq(R) /\ Len(s) = Len(one)
          BY <1>4, <1>5, <1>8
    <2> QED BY <1>9, <2>1, SameText
  <1> QED BY <1>10 DEF s, one, x

\* A document keeps the history it promises: a committed change is a new leaf below the
\* current node and a new revision; undo, redo and jumps bring back the very text of the
\* node they go to, under a new revision; nothing else touches text, revision or tree.
THEOREM HistoryKept == Spec => Implements
  <1>1. Init => History!Init
    <2>1. SUFFICES ASSUME Init
                   PROVE  History!Init
          OBVIOUS
    <2>2. text = Initial /\ revision = 0 /\ current = 1 /\ Story = <<[text |-> Initial, parent |-> 0]>>
          BY <2>1, StoryBegins DEF Init
    <2> QED BY <2>2 DEF History!Init, Story
  <1>2. ASSUME Inv, Next
        PROVE  History!Edit \/ History!Move \/ UNCHANGED History!historyVars
    <2>1. CASE UNCHANGED <<textVars, treeVars>>
      <3>1. text' = text /\ revision' = revision /\ nodes' = nodes /\ current' = current
            BY <2>1 DEF textVars, treeVars
      <3> QED BY <3>1 DEF History!historyVars
    <2>2. CASE Edited \/ Anchored \/ Bounded
      <3>1. UNCHANGED <<textVars, treeVars>>
            BY <2>2, EditedIs DEF Anchored, Bounded, CreateAnchor, RemoveAnchor, SetAffinity,
                                  SetEditableStart, ClearEditableStart
      <3> QED BY <2>1, <3>1
    <2>3. CASE Commit /\ tx.edits # <<>>
      <3>1. revision' = revision + 1 /\ current' = Len(nodes')
            BY <2>3 DEF Commit, Publish
      <3>2. Story' = Append(Story, [text |-> text', parent |-> current])
            BY <1>2, <2>3, StoryGrows
      <3>3. Len(Story') = Len(nodes')
        <4>1. Tree'
              BY <1>2, <2>3, CommitIs
        <4> QED BY <4>1, StoryIsNext DEF Told
      <3> QED BY <3>1, <3>2, <3>3 DEF History!Edit, Story
    <2>4. ASSUME NEW n \in 1..Len(nodes), Moved(n)
          PROVE  History!Edit \/ History!Move \/ UNCHANGED History!historyVars
      <3>1. current' = n /\ nodes' = nodes
            BY <2>4 DEF Moved
      <3>2. CASE n = current
        <4>1. text' = text /\ revision' = revision
              BY <2>4, <3>2 DEF Moved
        <4> QED BY <3>1, <3>2, <4>1 DEF History!historyVars
      <3>3. CASE n # current
        <4>1. text' = nodes[n].text /\ revision' = revision + 1
              BY <2>4, <3>3 DEF Moved
        <4>2. n \in DOMAIN nodes
              BY <1>2, TreeIs DEF Inv
        <4>3. History!Move
              BY <3>1, <3>3, <4>1, <4>2 DEF History!Move
        <4> QED BY <4>3
      <3> QED BY <3>2, <3>3
    <2> QED BY <1>2, <2>2, <2>3, <2>4, StepIs
  <1>3. Inv /\ [Next]_vars => [History!Edit \/ History!Move]_(History!historyVars)
    <2>1. UNCHANGED vars => UNCHANGED History!historyVars
          BY DEF vars, textVars, treeVars, History!historyVars
    <2> QED BY <1>2, <2>1
  <1> QED BY <1>1, <1>3, InvHolds, PTL DEF Spec, Implements, History!Spec
=============================================================================
