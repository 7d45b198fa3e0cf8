----------------------------- MODULE EditorProofs -----------------------------
(***************************************************************************)
(* Proofs about Editor with its Minibuffer, for any files, inputs, matches *)
(* and budgets, buffers, windows, workbenches and jump limit. Part one is  *)
(* about the operators of EditorState, and of the slots, graphs and walks  *)
(* below it: what each keeps of the windows (LayoutInv, ShownInv,          *)
(* SlotInv), of the graphs and walks (JumpInv), of what holds the anchors  *)
(* and where they and the carets are (AnchorInv, CaretInv), and the saves  *)
(* (SaveInv). Sequences are built by recursion over their length, and what *)
(* is said of them is proved by the set of the lengths for which it fails  *)
(* (Induction). Part two is about the actions. The candidates of an        *)
(* interaction are current: most of the commands touch it only by          *)
(* submitting it, which makes the proof one about Minibuffer. And the      *)
(* state of the editor is sound: each command and each answer is a row of  *)
(* operators, of which part one says what they keep.                       *)
(***************************************************************************)
EXTENDS Editor, TLAPS, FiniteSetTheorems, NaturalsInduction, WellFoundedInduction

-----------------------------------------------------------------------------
(* Handles.                                                                *)

Handle == (Nat \ {0}) \X (Nat \ {0})

IsSlots(slots) ==
    /\ DOMAIN slots = {"generations", "free"}
    /\ slots.generations \in Seq(Nat \ {0}) /\ slots.free \in Seq(DOMAIN slots.generations)
    /\ IsInjective(slots.free)

\* A handle that finds something, and one that did.
Live(slots, h) ==
    /\ h \in Handle /\ h[1] \in DOMAIN slots.generations /\ h[2] = slots.generations[h[1]]
    /\ \A i \in DOMAIN slots.free : slots.free[i] # h[1]
Past(slots, h) ==
    h \in Handle /\ h[1] \in DOMAIN slots.generations /\ h[2] < slots.generations[h[1]]

\* NoHandle is never given out.
LEMMA NoHandleIsNone == NoHandle \notin Handle
  BY DEF NoHandle, Handle

\* A handle is its slot and its generation.
LEMMA HandleIsPair ==
  ASSUME NEW h \in Handle
  PROVE  h = <<h[1], h[2]>> /\ h[1] \in Nat \ {0} /\ h[2] \in Nat \ {0}
  BY DEF Handle

\* One sequence after another.
LEMMA Concatenated ==
  ASSUME NEW S, NEW s \in Seq(S), NEW t \in Seq(S)
  PROVE  /\ s \o t \in Seq(S) /\ DOMAIN (s \o t) = 1..(Len(s) + Len(t))
         /\ \A i \in 1..Len(s) : (s \o t)[i] = s[i]
         /\ \A i \in 1..Len(t) : (s \o t)[Len(s) + i] = t[i]
  OBVIOUS

\* A sequence without its last element.
LEMMA Shortened ==
  ASSUME NEW S, NEW s \in Seq(S), NEW m \in 0..Len(s)
  PROVE  /\ SubSeq(s, 1, m) \in Seq(S) /\ DOMAIN SubSeq(s, 1, m) = 1..m /\ Len(SubSeq(s, 1, m)) = m
         /\ \A i \in 1..m : SubSeq(s, 1, m)[i] = s[i] /\ i \in DOMAIN s
  <1>1. m \in Nat /\ m <= Len(s) /\ Len(s) \in Nat /\ DOMAIN s = 1..Len(s)
        OBVIOUS
  <1>2. \A i \in 1..m : i \in 1..Len(s)
        BY <1>1
  <1>3. SubSeq(s, 1, m) = [i \in 1..m |-> s[i]]
        BY <1>1
  <1>4. \A i \in 1..m : s[i] \in S
        BY <1>1, <1>2
  <1>5. SubSeq(s, 1, m) \in [1..m -> S]
        BY <1>3, <1>4
  <1>6. SubSeq(s, 1, m) \in Seq(S) /\ Len(SubSeq(s, 1, m)) = m
        BY <1>1, <1>5
  <1> QED BY <1>1, <1>2, <1>3, <1>6

\* What create() gives out is new, and alive from then on.
LEMMA HandleTaken ==
  ASSUME NEW slots, IsSlots(slots)
  PROVE  /\ IsSlots(Taken(slots)) /\ Live(Taken(slots), NextHandle(slots))
         /\ ~Live(slots, NextHandle(slots)) /\ ~Past(slots, NextHandle(slots))
         /\ \A h : Live(slots, h) => Live(Taken(slots), h)
         /\ \A h : Past(slots, h) => Past(Taken(slots), h)
  <1> DEFINE gens == slots.generations
             free == slots.free
  <1>1. gens \in Seq(Nat \ {0}) /\ free \in Seq(DOMAIN gens) /\ IsInjective(free)
        BY DEF IsSlots
  <1>2. CASE free = <<>>
    <2> DEFINE more == Append(gens, 1)
               new == <<Len(gens) + 1, 1>>
    <2>1. Taken(slots) = [slots EXCEPT !.generations = more] /\ NextHandle(slots) = new
          BY <1>2 DEF Taken, NextHandle
    <2>2. /\ more \in Seq(Nat \ {0}) /\ DOMAIN more = 1..(Len(gens) + 1) /\ DOMAIN gens = 1..Len(gens)
          /\ \A i \in DOMAIN gens : more[i] = gens[i] /\ i \in DOMAIN more
          /\ more[Len(gens) + 1] = 1 /\ Len(gens) + 1 \in Nat \ {0} /\ Len(gens) + 1 \notin DOMAIN gens
          /\ Len(gens) + 1 \in DOMAIN more
          BY <1>1
    <2> HIDE DEF more
    <2>3. Taken(slots).generations = more /\ Taken(slots).free = free
          /\ DOMAIN Taken(slots) = {"generations", "free"}
          BY <2>1 DEF IsSlots
    <2>4. free \in Seq(DOMAIN more)
          BY <1>2
    <2>5. IsSlots(Taken(slots))
          BY <1>1, <2>2, <2>3, <2>4 DEF IsSlots
    <2>6. new \in Handle /\ new[1] = Len(gens) + 1 /\ new[2] = 1
          BY <2>2 DEF Handle
    <2>7. DOMAIN free = {}
          BY <1>2
    <2> HIDE DEF new
    <2>8. Live(Taken(slots), new) /\ ~Live(slots, new) /\ ~Past(slots, new)
          BY <2>2, <2>3, <2>6, <2>7 DEF Live, Past
    <2>9. \A h : (Live(slots, h) => Live(Taken(slots), h)) /\ (Past(slots, h) => Past(Taken(slots), h))
          BY <2>2, <2>3, <2>7 DEF Live, Past
    <2> QED BY <2>1, <2>5, <2>8, <2>9
  <1>3. CASE free # <<>>
    <2> DEFINE n == Len(free)
               slot == free[n]
               rest == SubSeq(free, 1, n - 1)
               new == <<slot, gens[slot]>>
    <2>1. Taken(slots) = [slots EXCEPT !.free = rest] /\ NextHandle(slots) = new
          BY <1>3 DEF Taken, NextHandle
    <2>2. n \in Nat \ {0} /\ DOMAIN free = 1..n /\ n \in DOMAIN free
          BY <1>1, <1>3
    <2>3. slot \in DOMAIN gens /\ gens[slot] \in Nat \ {0} /\ slot \in Nat \ {0}
      <3>1. slot \in DOMAIN gens
        <4> HIDE DEF n
        <4> QED BY <1>1, <2>2
      <3> HIDE DEF slot, gens
      <3> QED BY <1>1, <3>1
    <2>4. /\ rest \in Seq(DOMAIN gens) /\ DOMAIN rest = 1..(n - 1)
          /\ \A i \in 1..(n - 1) : rest[i] = free[i] /\ i \in DOMAIN free /\ i # n
      <3>1. n - 1 \in 0..Len(free) /\ \A i \in 1..(n - 1) : i # n
            BY <2>2
      <3>2. \A S : \A s \in Seq(S) : \A m \in 0..Len(s) :
               /\ SubSeq(s, 1, m) \in Seq(S) /\ DOMAIN SubSeq(s, 1, m) = 1..m
               /\ \A i \in 1..m : SubSeq(s, 1, m)[i] = s[i] /\ i \in DOMAIN s
        <4> SUFFICES ASSUME NEW S, NEW s \in Seq(S), NEW m \in 0..Len(s)
                     PROVE  /\ SubSeq(s, 1, m) \in Seq(S) /\ DOMAIN SubSeq(s, 1, m) = 1..m
                            /\ \A i \in 1..m : SubSeq(s, 1, m)[i] = s[i] /\ i \in DOMAIN s
              OBVIOUS
        <4> QED BY Shortened
      <3> HIDE DEF gens, free
      <3> QED BY <1>1, <3>1, <3>2
    <2>5. \A i \in DOMAIN free : i = n \/ i \in 1..(n - 1)
          BY <2>2
    <2>6. \A i \in DOMAIN rest : rest[i] # slot
          BY <1>1, <2>2, <2>4 DEF IsInjective
    <2>7. IsInjective(rest)
          BY <1>1, <2>4 DEF IsInjective
    <2>8. new \in Handle /\ new[1] = slot /\ new[2] = gens[slot]
          BY <2>3 DEF Handle
    <2> HIDE DEF rest, new, slot, n
    <2>9. /\ Taken(slots).generations = gens /\ Taken(slots).free = rest
          /\ DOMAIN Taken(slots) = {"generations", "free"}
          BY <2>1 DEF IsSlots
    <2>10. IsSlots(Taken(slots))
          BY <1>1, <2>4, <2>7, <2>9 DEF IsSlots
    <2>11. Live(Taken(slots), new)
          BY <2>3, <2>6, <2>8, <2>9 DEF Live
    <2>12. ~Live(slots, new) /\ ~Past(slots, new)
      <3>1. free[n] = slot
            BY DEF slot
      <3>2. ~(gens[slot] < gens[slot])
            BY <2>3
      <3> QED BY <2>2, <2>8, <3>1, <3>2 DEF Live, Past
    <2>13. \A h : (Live(slots, h) => Live(Taken(slots), h)) /\ (Past(slots, h) => Past(Taken(slots), h))
          BY <2>4, <2>9 DEF Live, Past
    <2> QED BY <2>1, <2>10, <2>11, <2>12, <2>13
  <1> QED BY <1>2, <1>3

\* An erased handle never finds anything again, and the others find what they did.
LEMMA HandlesFreed ==
  ASSUME NEW slots, IsSlots(slots), NEW hs, hs \in Seq(Handle), IsInjective(hs),
         \A i \in DOMAIN hs : Live(slots, hs[i])
  PROVE  /\ IsSlots(AllFreed(slots, hs))
         /\ \A h : Live(slots, h) /\ h \notin ToSet(hs) => Live(AllFreed(slots, hs), h)
         /\ \A h : Past(slots, h) \/ h \in ToSet(hs) => Past(AllFreed(slots, hs), h)
  <1> DEFINE gens  == slots.generations
             free  == slots.free
             freed == [i \in DOMAIN hs |-> hs[i][1]]
             more  == [i \in DOMAIN gens |-> IF \E j \in DOMAIN freed : freed[j] = i THEN gens[i] + 1
                                             ELSE gens[i]]
             after == AllFreed(slots, hs)
  <1>1. gens \in Seq(Nat \ {0}) /\ free \in Seq(DOMAIN gens) /\ IsInjective(free)
        BY DEF IsSlots
  <1>2. /\ DOMAIN after = {"generations", "free"}
        /\ after.generations = more /\ after.free = free \o freed
        BY DEF AllFreed
  <1> HIDE DEF after
  <1>3. Len(hs) \in Nat /\ DOMAIN hs = 1..Len(hs) /\ DOMAIN freed = DOMAIN hs /\ Len(free) \in Nat
        /\ DOMAIN free = 1..Len(free) /\ Len(gens) \in Nat /\ DOMAIN gens = 1..Len(gens)
        BY <1>1
  <1>4. \A i \in DOMAIN hs : hs[i] \in Handle /\ freed[i] = hs[i][1] /\ freed[i] \in DOMAIN gens
        BY DEF Live
  <1>5. DOMAIN more = DOMAIN gens /\ \A i \in DOMAIN gens : more[i] \in Nat \ {0}
    <2>1. \A i \in DOMAIN gens : gens[i] \in Nat \ {0}
          BY <1>1
    <2> QED BY <2>1
  <1>6. more \in Seq(Nat \ {0})
    <2>1. more \in [1..Len(gens) -> Nat \ {0}]
          BY <1>3, <1>5
    <2> HIDE DEF more
    <2> QED BY <1>3, <2>1
  <1>7. freed \in Seq(DOMAIN gens) /\ Len(freed) = Len(hs)
    <2>1. freed \in [1..Len(hs) -> DOMAIN gens]
          BY <1>3, <1>4
    <2> HIDE DEF freed
    <2> QED BY <1>3, <2>1
  <1>8. \A i, j \in DOMAIN freed : freed[i] = freed[j] => i = j
    <2> SUFFICES ASSUME NEW i \in DOMAIN hs, NEW j \in DOMAIN hs, hs[i][1] = hs[j][1]
                 PROVE  i = j
          BY <1>3
    <2>1. hs[i][2] = hs[j][2]
          BY DEF Live
    <2>2. hs[i] = hs[j]
          BY <1>4, <2>1, HandleIsPair
    <2> QED BY <2>2 DEF IsInjective
  <1> DEFINE all == free \o freed
             n   == Len(free)
  <1>9. /\ all \in Seq(DOMAIN gens) /\ DOMAIN all = 1..(n + Len(hs))
        /\ \A i \in 1..n : all[i] = free[i]
        /\ \A i \in 1..Len(hs) : all[n + i] = freed[i]
    <2> HIDE DEF freed, more
    <2> HIDE DEF gens, free
    <2>2. /\ free \o freed \in Seq(DOMAIN gens) /\ DOMAIN (free \o freed) = 1..(Len(free) + Len(freed))
          /\ \A i \in 1..Len(free) : (free \o freed)[i] = free[i]
          /\ \A i \in 1..Len(freed) : (free \o freed)[Len(free) + i] = freed[i]
      <3>1. free \in Seq(DOMAIN gens)
            BY <1>1
      <3>2. freed \in Seq(DOMAIN gens)
            BY <1>7
      <3> HIDE DEF n, all
      <3> QED BY <3>1, <3>2, Concatenated
    <2> QED BY <1>7, <2>2
  <1>10. \A i \in DOMAIN all : i \in 1..n \/ (i - n \in 1..Len(hs) /\ all[i] = freed[i - n])
    <2> HIDE DEF all
    <2> SUFFICES ASSUME NEW i \in 1..(n + Len(hs)), i \notin 1..n
                 PROVE  i - n \in 1..Len(hs) /\ all[i] = freed[i - n]
          BY <1>9
    <2>1. i - n \in 1..Len(hs) /\ n + (i - n) = i
          BY <1>3
    <2> QED BY <1>9, <2>1
  <1>11. \A i \in 1..n, j \in 1..Len(hs) : free[i] # freed[j]
        BY <1>3 DEF Live
  <1> HIDE DEF all, freed
  <1>12. IsInjective(all)
    <2> SUFFICES ASSUME NEW i \in DOMAIN all, NEW j \in DOMAIN all, all[i] = all[j]
                 PROVE  i = j
          BY DEF IsInjective
    <2>1. CASE i \in 1..n /\ j \in 1..n
          BY <1>1, <1>3, <1>9, <2>1 DEF IsInjective
    <2>2. CASE i \notin 1..n /\ j \notin 1..n
      <3>1. i - n = j - n
            BY <1>3, <1>8, <1>10, <2>2
      <3>2. i \in Int /\ j \in Int /\ n \in Int
            BY <1>3, <1>9
      <3> QED BY <3>1, <3>2
    <2>3. CASE (i \in 1..n) # (j \in 1..n)
          BY <1>9, <1>10, <1>11, <2>3
    <2> QED BY <2>1, <2>2, <2>3
  <1>13. IsSlots(after)
        BY <1>2, <1>5, <1>6, <1>9, <1>12 DEF IsSlots, all
  <1>14. ASSUME NEW h, Live(slots, h), h \notin ToSet(hs)
         PROVE  Live(after, h)
    <2>1. \A j \in DOMAIN hs : freed[j] # h[1]
      <3> SUFFICES ASSUME NEW j \in DOMAIN hs, hs[j][1] = h[1]
                   PROVE  FALSE
            BY <1>4
      <3>1. hs[j][2] = h[2]
            BY <1>14 DEF Live
      <3>2. hs[j] = h
            BY <1>4, <1>14, <3>1, HandleIsPair DEF Live
      <3> QED BY <1>14, <3>2 DEF ToSet
    <2>2. more[h[1]] = gens[h[1]]
          BY <1>3, <1>14, <2>1 DEF Live
    <2>3. \A i \in DOMAIN all : all[i] # h[1]
      <3>1. \A i \in 1..n : free[i] # h[1]
            BY <1>3, <1>14 DEF Live
      <3>2. \A i \in 1..Len(hs) : freed[i] # h[1]
            BY <1>3, <2>1
      <3> QED BY <1>9, <1>10, <3>1, <3>2
    <2> HIDE DEF more
    <2> QED BY <1>2, <1>5, <1>14, <2>2, <2>3 DEF Live, all
  <1>15. ASSUME NEW h, Past(slots, h)
         PROVE  Past(after, h)
    <2>1. more[h[1]] \in {gens[h[1]], gens[h[1]] + 1} /\ gens[h[1]] \in Nat /\ h[2] \in Nat
          BY <1>1, <1>15 DEF Past, Handle
    <2>2. h[2] < more[h[1]]
          BY <1>15, <2>1 DEF Past
    <2> HIDE DEF more
    <2> QED BY <1>2, <1>5, <1>15, <2>2 DEF Past
  <1>16. ASSUME NEW i \in DOMAIN hs
         PROVE  Past(after, hs[i])
    <2>1. hs[i] \in Handle /\ freed[i] = hs[i][1] /\ hs[i][1] \in DOMAIN gens /\ hs[i][2] = gens[hs[i][1]]
          BY <1>4 DEF Live
    <2>2. more[hs[i][1]] = gens[hs[i][1]] + 1 /\ hs[i][2] \in Nat
          BY <1>3, <2>1 DEF Handle
    <2>3. hs[i][2] < more[hs[i][1]]
          BY <2>1, <2>2
    <2> HIDE DEF more
    <2> QED BY <1>2, <1>5, <2>1, <2>3 DEF Past
  <1>17. \A h \in ToSet(hs) : Past(after, h)
        BY <1>16 DEF ToSet
  <1> QED BY <1>13, <1>14, <1>15, <1>17 DEF after

\* The same for one handle.
LEMMA HandleFreed ==
  ASSUME NEW slots, IsSlots(slots), NEW h, Live(slots, h)
  PROVE  /\ IsSlots(Freed(slots, h)) /\ Past(Freed(slots, h), h)
         /\ \A g : Live(slots, g) /\ g # h => Live(Freed(slots, h), g)
         /\ \A g : Past(slots, g) => Past(Freed(slots, h), g)
  <1>1. h \in Handle
        BY DEF Live
  <1>2. /\ <<h>> \in Seq(Handle) /\ IsInjective(<<h>>) /\ ToSet(<<h>>) = {h}
        /\ DOMAIN <<h>> = {1} /\ <<h>>[1] = h
        BY <1>1 DEF IsInjective, ToSet
  <1>3. Freed(slots, h) = AllFreed(slots, <<h>>)
    <2>1. slots.generations \in Seq(Nat \ {0}) /\ slots.free \in Seq(DOMAIN slots.generations)
          BY DEF IsSlots
    <2>2. [slots.generations EXCEPT ![h[1]] = @ + 1]
             = [i \in DOMAIN slots.generations |->
                   IF \E j \in {1} : h[1] = i THEN slots.generations[i] + 1 ELSE slots.generations[i]]
          BY <2>1
    <2>3. [i \in DOMAIN <<h>> |-> <<h>>[i][1]] = <<h[1]>>
          BY <1>2
    <2>4. Append(slots.free, h[1]) = slots.free \o <<h[1]>>
      <3>1. \A S : \A s \in Seq(S), x \in S : Append(s, x) = s \o <<x>>
            OBVIOUS
      <3>2. h[1] \in DOMAIN slots.generations
            BY DEF Live
      <3> QED BY <2>1, <3>1, <3>2
    <2> DEFINE one == [i \in DOMAIN <<h>> |-> <<h>>[i][1]]
    <2>6. \A i : (\E j \in {1} : h[1] = i) <=> (\E j \in DOMAIN one : one[j] = i)
          BY <1>2
    <2>7. [slots.generations EXCEPT ![h[1]] = @ + 1]
             = [i \in DOMAIN slots.generations |->
                   IF \E j \in DOMAIN one : one[j] = i THEN slots.generations[i] + 1
                   ELSE slots.generations[i]]
          BY <2>2, <2>6
    <2>8. one = <<h[1]>>
          BY <2>3
    <2>9. AllFreed(slots, <<h>>) = [generations |-> [i \in DOMAIN slots.generations |->
                   IF \E j \in DOMAIN one : one[j] = i THEN slots.generations[i] + 1
                   ELSE slots.generations[i]], free |-> slots.free \o one]
          BY DEF AllFreed
    <2> HIDE DEF one
    <2> QED BY <2>4, <2>7, <2>8, <2>9 DEF Freed
  <1> QED BY <1>2, <1>3, HandlesFreed

-----------------------------------------------------------------------------
(* Sequences without some of their elements.                               *)

\* A set that has 0 and with each number the next has them all.
LEMMA Induction ==
  ASSUME NEW T, T \subseteq Nat, 0 \in T, \A n \in Nat : n \in T => n + 1 \in T
  PROVE  T = Nat
  <1> DEFINE R == OpToRel(<, Nat)
             D == Nat \ T
  <1>1. IsWellFoundedOn(R, Nat)
        BY NatLessThanWellFounded, Zenon
  <1>2. \A x, y \in Nat : y < x => <<y, x>> \in R
        BY DEF OpToRel
  <1> HIDE DEF R
  <1>3. SUFFICES ASSUME D # {}
                 PROVE  FALSE
        OBVIOUS
  <1>4. D \subseteq Nat
        OBVIOUS
  <1> HIDE DEF D
  <1>5. \E x \in D : \A y \in D : ~(<<y, x>> \in R)
        BY <1>1, <1>3, <1>4, WFMin, Zenon
  <1>6. PICK x \in Nat \ T : \A y \in Nat \ T : ~(<<y, x>> \in R)
        BY <1>5 DEF D
  <1>7. x # 0 /\ x - 1 \in Nat /\ x - 1 < x /\ x - 1 + 1 = x
        OBVIOUS
  <1>8. x - 1 \notin Nat \ T
        BY <1>2, <1>6, <1>7
  <1> QED BY <1>6, <1>7, <1>8

\* What is kept of the first i elements, as a step on what is kept of those before.
KeptStep(s, gone, f, i) ==
    IF i = 0 THEN <<>> ELSE IF s[i] \in gone THEN f[i - 1] ELSE Append(f[i - 1], s[i])

Kept(s, gone) == CHOOSE f : f = [i \in 0..Len(s) |-> KeptStep(s, gone, f, i)]

\* Without, one element after the other.
LEMMA KeptUnfolds ==
  ASSUME NEW s, NEW gone, Len(s) \in Nat
  PROVE  /\ Without(s, gone) = Kept(s, gone)[Len(s)]
         /\ Kept(s, gone)[0] = <<>>
         /\ \A i \in 1..Len(s) : Kept(s, gone)[i] = IF s[i] \in gone THEN Kept(s, gone)[i - 1]
                                                    ELSE Append(Kept(s, gone)[i - 1], s[i])
  <1> DEFINE T == {m \in Nat : \E f : f = [i \in 0..m |-> KeptStep(s, gone, f, i)]}
  <1>1. 0 \in T
    <2>1. [i \in 0..0 |-> <<>>] = [i \in 0..0 |-> KeptStep(s, gone, [j \in 0..0 |-> <<>>], i)]
          BY DEF KeptStep
    <2> QED BY <2>1
  <1>2. ASSUME NEW m \in Nat, m \in T
        PROVE  m + 1 \in T
    <2>1. PICK f : f = [i \in 0..m |-> KeptStep(s, gone, f, i)]
          BY <1>2
    <2> DEFINE g == [i \in 0..(m + 1) |-> IF i = m + 1 THEN KeptStep(s, gone, f, m + 1) ELSE f[i]]
    <2>2. ASSUME NEW i \in 0..(m + 1)
          PROVE  g[i] = KeptStep(s, gone, g, i)
      <3>1. CASE i = 0
            BY <2>1, <3>1 DEF KeptStep
      <3>2. CASE i # 0
        <4>1. i - 1 \in 0..m /\ i - 1 \in 0..(m + 1) /\ i - 1 # m + 1
              BY <3>2
        <4>2. g[i - 1] = f[i - 1]
              BY <4>1
        <4>3. KeptStep(s, gone, g, i) = KeptStep(s, gone, f, i)
              BY <4>2 DEF KeptStep
        <4>4. CASE i = m + 1
              BY <4>3, <4>4
        <4>5. CASE i # m + 1
          <5>1. i \in 0..m
                BY <4>5
          <5>2. f[i] = KeptStep(s, gone, f, i)
                BY <2>1, <5>1
          <5> QED BY <4>3, <4>5, <5>2
        <4> QED BY <4>4, <4>5
      <3> QED BY <3>1, <3>2
    <2>3. g = [i \in 0..(m + 1) |-> KeptStep(s, gone, g, i)]
      <3> DEFINE h == [i \in 0..(m + 1) |-> KeptStep(s, gone, g, i)]
      <3>1. DOMAIN g = DOMAIN h /\ \A i \in 0..(m + 1) : g[i] = h[i]
            BY <2>2
      <3>2. g = [i \in 0..(m + 1) |-> g[i]] /\ h = [i \in 0..(m + 1) |-> h[i]]
            OBVIOUS
      <3> HIDE DEF g, h
      <3>3. g = h
            BY <3>1, <3>2
      <3> QED BY <3>3 DEF h
    <2> HIDE DEF g
    <2> QED BY <2>3
  <1>3. T = Nat
    <2> HIDE DEF T
    <2>1. T \subseteq Nat
          BY DEF T
    <2> QED BY <1>1, <1>2, <2>1, Induction
  <1>4. \E f : f = [i \in 0..Len(s) |-> KeptStep(s, gone, f, i)]
        BY <1>3
  <1> DEFINE k == Kept(s, gone)
  <1>5. k = [i \in 0..Len(s) |-> KeptStep(s, gone, k, i)]
        BY <1>4 DEF Kept
  <1>6. \A i \in 0..Len(s) : k[i] = KeptStep(s, gone, k, i)
        BY <1>5
  <1>7. Without(s, gone) = k[Len(s)]
        BY DEF Without, Kept, KeptStep
  <1> HIDE DEF k
  <1>8. k[0] = <<>>
    <2>1. 0 \in 0..Len(s)
          OBVIOUS
    <2> QED BY <1>6, <2>1 DEF KeptStep
  <1>9. ASSUME NEW i \in 1..Len(s)
        PROVE  k[i] = IF s[i] \in gone THEN k[i - 1] ELSE Append(k[i - 1], s[i])
    <2>1. i \in 0..Len(s) /\ i # 0
          OBVIOUS
    <2> QED BY <1>6, <2>1 DEF KeptStep
  <1> QED BY <1>7, <1>8, <1>9 DEF k

\* A sequence with one more element.
LEMMA Appended ==
  ASSUME NEW S, NEW s \in Seq(S), NEW x \in S
  PROVE  /\ Append(s, x) \in Seq(S) /\ DOMAIN Append(s, x) = 1..(Len(s) + 1)
         /\ Len(Append(s, x)) = Len(s) + 1
         /\ Append(s, x)[Len(s) + 1] = x /\ \A i \in DOMAIN s : Append(s, x)[i] = s[i]
         /\ ToSet(Append(s, x)) = ToSet(s) \cup {x}
         /\ IsInjective(s) /\ x \notin ToSet(s) => IsInjective(Append(s, x))
  <1> DEFINE t == Append(s, x)
  <1>1. /\ t \in Seq(S) /\ DOMAIN t = 1..(Len(s) + 1) /\ DOMAIN s = 1..Len(s) /\ Len(s) \in Nat
        /\ Len(t) = Len(s) + 1 /\ t[Len(s) + 1] = x /\ \A i \in DOMAIN s : t[i] = s[i]
        OBVIOUS
  <1> HIDE DEF t
  <1>2. \A i : i \in DOMAIN t <=> i \in DOMAIN s \/ i = Len(s) + 1
        BY <1>1
  <1>3. ToSet(t) = ToSet(s) \cup {x}
        BY <1>1, <1>2 DEF ToSet
  <1>4. IsInjective(s) /\ x \notin ToSet(s) => IsInjective(t)
        BY <1>1, <1>2 DEF ToSet, IsInjective
  <1> QED BY <1>1, <1>3, <1>4 DEF t

\* What has been kept of the first i elements.
KeptOf(s, gone, k, i, S) ==
    /\ k \in Seq(S \ gone)
    /\ \A x : x \in ToSet(k) <=> x \notin gone /\ \E j \in 1..i : s[j] = x
    /\ IsInjective(s) => IsInjective(k)

\* What is kept of the first i elements is those of them that are not erased.
LEMMA KeptIsKept ==
  ASSUME NEW S, NEW s \in Seq(S), NEW gone
  PROVE  \A i \in 0..Len(s) : KeptOf(s, gone, Kept(s, gone)[i], i, S)
  <1> DEFINE k == Kept(s, gone)
             n == Len(s)
             T == {i \in Nat : i <= n => KeptOf(s, gone, k[i], i, S)}
  <1>1. n \in Nat /\ DOMAIN s = 1..n /\ \A i \in 1..n : s[i] \in S
        OBVIOUS
  <1>2. /\ k[0] = <<>>
        /\ \A i \in 1..n : k[i] = IF s[i] \in gone THEN k[i - 1] ELSE Append(k[i - 1], s[i])
        BY <1>1, KeptUnfolds
  <1> HIDE DEF k
  <1>3. KeptOf(s, gone, k[0], 0, S)
    <2>1. <<>> \in Seq(S \ gone) /\ ToSet(<<>>) = {} /\ IsInjective(<<>>)
          BY DEF ToSet, IsInjective
    <2> QED BY <1>2, <2>1 DEF KeptOf
  <1>4. ASSUME NEW i \in 1..n, KeptOf(s, gone, k[i - 1], i - 1, S)
        PROVE  KeptOf(s, gone, k[i], i, S)
    <2> DEFINE before == k[i - 1]
    <2>1. /\ before \in Seq(S \ gone) /\ (IsInjective(s) => IsInjective(before))
          /\ \A x : x \in ToSet(before) <=> x \notin gone /\ \E j \in 1..(i - 1) : s[j] = x
          BY <1>4 DEF KeptOf
    <2>2. /\ k[i] = IF s[i] \in gone THEN before ELSE Append(before, s[i])
          /\ s[i] \in S /\ i \in Nat
          BY <1>1, <1>2
    <2> HIDE DEF before, n
    <2>3. \A j : j \in 1..i <=> j \in 1..(i - 1) \/ j = i
          BY <2>2
    <2>4. CASE s[i] \in gone
      <3>1. k[i] = before
            BY <2>2, <2>4
      <3>2. \A x : x \notin gone => ((\E j \in 1..(i - 1) : s[j] = x) <=> (\E j \in 1..i : s[j] = x))
            BY <2>3, <2>4
      <3>3. \A x : x \in ToSet(k[i]) <=> x \notin gone /\ \E j \in 1..i : s[j] = x
            BY <2>1, <3>1, <3>2
      <3> QED BY <2>1, <3>1, <3>3 DEF KeptOf
    <2>5. CASE s[i] \notin gone
      <3>0. s[i] \in S \ gone /\ k[i] = Append(before, s[i])
            BY <2>2, <2>5
      <3>1. /\ k[i] \in Seq(S \ gone) /\ ToSet(k[i]) = ToSet(before) \cup {s[i]}
            /\ IsInjective(before) /\ s[i] \notin ToSet(before) => IsInjective(k[i])
            BY <2>1, <3>0, Appended
      <3>2. \A x : x \in ToSet(k[i]) <=> x \notin gone /\ \E j \in 1..i : s[j] = x
            BY <2>1, <2>3, <2>5, <3>1
      <3>3. IsInjective(s) => s[i] \notin ToSet(before)
        <4> SUFFICES ASSUME IsInjective(s), NEW j \in 1..(i - 1), s[j] = s[i]
                     PROVE  FALSE
              BY <2>1
        <4>1. j \in DOMAIN s /\ j # i /\ i \in DOMAIN s
              BY <1>1
        <4> QED BY <4>1 DEF IsInjective
      <3> QED BY <2>1, <3>1, <3>2, <3>3 DEF KeptOf
    <2> QED BY <2>4, <2>5
  <1>5. 0 \in T
        BY <1>1, <1>3
  <1>6. ASSUME NEW i \in Nat, i \in T
        PROVE  i + 1 \in T
    <2> SUFFICES ASSUME i + 1 <= n
                 PROVE  KeptOf(s, gone, k[i + 1], i + 1, S)
          BY <1>6
    <2>1. i <= n /\ i + 1 \in 1..n /\ (i + 1) - 1 = i
          BY <1>1
    <2>2. KeptOf(s, gone, k[i], i, S)
          BY <1>6, <2>1
    <2> HIDE DEF n
    <2> QED BY <1>4, <2>1, <2>2
  <1>7. T = Nat
    <2>1. T \subseteq Nat
          OBVIOUS
    <2> HIDE DEF T
    <2> QED BY <1>5, <1>6, <2>1, Induction
  <1> QED BY <1>1, <1>7 DEF k

\* Without erases exactly what it is told to.
LEMMA WithoutErases ==
  ASSUME NEW S, NEW s \in Seq(S), NEW gone
  PROVE  /\ Without(s, gone) \in Seq(S \ gone) /\ ToSet(Without(s, gone)) = ToSet(s) \ gone
         /\ IsInjective(s) => IsInjective(Without(s, gone))
  <1>1. Len(s) \in Nat /\ DOMAIN s = 1..Len(s) /\ Len(s) \in 0..Len(s)
        OBVIOUS
  <1>2. KeptOf(s, gone, Without(s, gone), Len(s), S)
        BY <1>1, KeptUnfolds, KeptIsKept
  <1>3. ToSet(Without(s, gone)) = ToSet(s) \ gone
        BY <1>1, <1>2 DEF KeptOf, ToSet
  <1> QED BY <1>2, <1>3 DEF KeptOf

\* What is kept of more is not shorter.
LEMMA KeptGrows ==
  ASSUME NEW S, NEW s \in Seq(S), NEW gone, NEW c \in 0..Len(s)
  PROVE  /\ Without(SubSeq(s, 1, c), gone) = Kept(s, gone)[c]
         /\ Len(Kept(s, gone)[c]) <= Len(Without(s, gone))
  <1> DEFINE k == Kept(s, gone)
             n == Len(s)
             p == SubSeq(s, 1, c)
             h == Kept(p, gone)
  <1>1. n \in Nat /\ c \in Nat /\ c <= n /\ Len(p) = c /\ \A i \in 1..c : p[i] = s[i]
        BY Shortened
  <1>2. /\ k[0] = <<>> /\ Without(s, gone) = k[n]
        /\ \A i \in 1..n : k[i] = IF s[i] \in gone THEN k[i - 1] ELSE Append(k[i - 1], s[i])
        BY <1>1, KeptUnfolds
  <1>3. /\ h[0] = <<>> /\ Without(p, gone) = h[c]
        /\ \A i \in 1..c : h[i] = IF p[i] \in gone THEN h[i - 1] ELSE Append(h[i - 1], p[i])
    <2> HIDE DEF p
    <2>1. Len(p) \in Nat
          BY <1>1
    <2> QED BY <1>1, <2>1, KeptUnfolds
  <1>4. \A i \in 0..n : k[i] \in Seq(S)
    <2>1. \A i \in 0..n : k[i] \in Seq(S \ gone)
          BY KeptIsKept DEF KeptOf
    <2> HIDE DEF k, n
    <2> QED BY <2>1
  <1> HIDE DEF k, n, p, h
  <1> DEFINE A == {i \in Nat : i <= c => h[i] = k[i]}
             B == {i \in Nat : c + i <= n => Len(k[c]) <= Len(k[c + i])}
  <1>5. A = Nat
    <2>1. 0 \in A
          BY <1>2, <1>3
    <2>2. ASSUME NEW i \in Nat, i \in A
          PROVE  i + 1 \in A
      <3> SUFFICES ASSUME i + 1 <= c
                   PROVE  h[i + 1] = k[i + 1]
            BY <2>2
      <3>1. i <= c /\ i + 1 \in 1..c /\ i + 1 \in 1..n /\ (i + 1) - 1 = i
            BY <1>1
      <3>2. h[i] = k[i] /\ p[i + 1] = s[i + 1]
            BY <1>1, <2>2, <3>1
      <3>3. k[i + 1] = IF s[i + 1] \in gone THEN k[i] ELSE Append(k[i], s[i + 1])
            BY <1>2, <3>1
      <3>4. h[i + 1] = IF p[i + 1] \in gone THEN h[i] ELSE Append(h[i], p[i + 1])
            BY <1>3, <3>1
      <3> QED BY <3>2, <3>3, <3>4
    <2>3. A \subseteq Nat
          OBVIOUS
    <2> HIDE DEF A
    <2> QED BY <2>1, <2>2, <2>3, Induction
  <1>6. B = Nat
    <2>1. 0 \in B
      <3>1. c + 0 = c /\ Len(k[c]) \in Nat
            BY <1>1, <1>4
      <3> QED BY <3>1
    <2>2. ASSUME NEW i \in Nat, i \in B
          PROVE  i + 1 \in B
      <3> SUFFICES ASSUME c + (i + 1) <= n
                   PROVE  Len(k[c]) <= Len(k[c + (i + 1)])
            BY <2>2
      <3> DEFINE j == c + i
      <3>1. j <= n /\ j \in 0..n /\ j + 1 = c + (i + 1) /\ j + 1 \in 1..n /\ j + 1 \in 0..n /\ (j + 1) - 1 = j
            BY <1>1
      <3>2. Len(k[c]) <= Len(k[j])
            BY <2>2, <3>1
      <3> HIDE DEF j
      <3>3. k[j + 1] = IF s[j + 1] \in gone THEN k[j] ELSE Append(k[j], s[j + 1])
            BY <1>2, <3>1
      <3>4. k[j] \in Seq(S) /\ k[j + 1] \in Seq(S) /\ k[c] \in Seq(S)
            BY <1>1, <1>4, <3>1
      <3>5. Len(k[j + 1]) \in {Len(k[j]), Len(k[j]) + 1}
            BY <3>3, <3>4
      <3>6. Len(k[j]) \in Nat /\ Len(k[c]) \in Nat
            BY <3>4
      <3> QED BY <3>1, <3>2, <3>5, <3>6
    <2>3. B \subseteq Nat
          OBVIOUS
    <2> HIDE DEF B
    <2> QED BY <2>1, <2>2, <2>3, Induction
  <1>7. h[c] = k[c]
        BY <1>1, <1>5
  <1>8. Len(k[c]) <= Len(k[n])
    <2>1. n - c \in Nat /\ c + (n - c) = n
          BY <1>1
    <2> QED BY <1>6, <2>1
  <1> QED BY <1>2, <1>3, <1>7, <1>8 DEF k, p

\* A sequence over a set is one over every larger set.
LEMMA SubsetSeq ==
  ASSUME NEW S, NEW T, S \subseteq T, NEW s \in Seq(S)
  PROVE  s \in Seq(T)
  OBVIOUS

-----------------------------------------------------------------------------
(* Walks.                                                                  *)

\* A walk through some nodes, and those that were gone when it recorded them.
IsWalk(walk, nodes) ==
    /\ DOMAIN walk = {"entries", "cursor", "lost"} /\ walk.entries \in Seq(nodes \cup walk.lost)
    /\ walk.cursor \in (IF walk.entries = <<>> THEN {0} ELSE 1..Len(walk.entries))

\* A window starts on no entry.
LEMMA NoWalkIsWalk == ASSUME NEW nodes PROVE IsWalk(NoWalk, nodes)
  BY DEF NoWalk, IsWalk

\* A walk with other entries and another cursor.
LEMMA WalkChanged ==
  ASSUME NEW walk, DOMAIN walk = {"entries", "cursor", "lost"}, NEW s, NEW c
  PROVE  [walk EXCEPT !.entries = s, !.cursor = c]
            = [entries |-> s, cursor |-> c, lost |-> walk.lost]
  <1>1. [walk EXCEPT !.entries = s] = [entries |-> s, cursor |-> walk.cursor, lost |-> walk.lost]
        OBVIOUS
  <1>2. [walk EXCEPT !.entries = s, !.cursor = c] = [[walk EXCEPT !.entries = s] EXCEPT !.cursor = c]
        OBVIOUS
  <1>3. [[entries |-> s, cursor |-> walk.cursor, lost |-> walk.lost] EXCEPT !.cursor = c]
            = [entries |-> s, cursor |-> c, lost |-> walk.lost]
        OBVIOUS
  <1> QED BY <1>1, <1>2, <1>3

\* Erased nodes leave a walk on those that remain.
LEMMA WalkWithoutIsWalk ==
  ASSUME NEW nodes, NEW walk, IsWalk(walk, nodes), NEW removed
  PROVE  IsWalk(WalkWithout(walk, removed), nodes \ removed)
  <1> DEFINE before == Len(Without(SubSeq(walk.entries, 1, walk.cursor), removed))
             after  == Without(walk.entries, removed)
  <1>1. walk.entries \in Seq(nodes \cup walk.lost) /\ walk.cursor \in 0..Len(walk.entries)
    <2>1. walk.entries \in Seq(nodes \cup walk.lost) /\ Len(walk.entries) \in Nat
          BY DEF IsWalk
    <2>2. CASE walk.entries = <<>>
          BY <2>1, <2>2 DEF IsWalk
    <2>3. CASE walk.entries # <<>>
      <3>1. walk.cursor \in 1..Len(walk.entries)
            BY <2>3 DEF IsWalk
      <3> QED BY <2>1, <3>1
    <2> QED BY <2>2, <2>3
  <1>2. after \in Seq((nodes \cup walk.lost) \ removed)
        BY <1>1, WithoutErases
  <1>3. before \in Nat /\ before <= Len(after)
    <2>1. SubSeq(walk.entries, 1, walk.cursor) \in Seq(nodes \cup walk.lost)
          BY <1>1, Shortened
    <2>2. Without(SubSeq(walk.entries, 1, walk.cursor), removed)
             \in Seq((nodes \cup walk.lost) \ removed)
          BY <2>1, WithoutErases
    <2>3. before \in Nat
          BY <2>2
    <2>4. before <= Len(after)
          BY <1>1, KeptGrows
    <2> QED BY <2>3, <2>4
  <1>4. WalkWithout(walk, removed) =
          [entries |-> after, cursor |-> IF after = <<>> THEN 0 ELSE IF before = 0 THEN 1 ELSE before,
           lost |-> walk.lost]
    <2>1. WalkWithout(walk, removed) =
            [walk EXCEPT !.entries = after,
                         !.cursor = IF after = <<>> THEN 0 ELSE IF before = 0 THEN 1 ELSE before]
          BY DEF WalkWithout
    <2>2. DOMAIN walk = {"entries", "cursor", "lost"}
          BY DEF IsWalk
    <2> HIDE DEF before, after
    <2> QED BY <2>1, <2>2, WalkChanged
  <1> HIDE DEF before, after
  <1>5. after # <<>> => Len(after) \in Nat \ {0}
        BY <1>2
  <1>6. (IF after = <<>> THEN 0 ELSE IF before = 0 THEN 1 ELSE before)
           \in (IF after = <<>> THEN {0} ELSE 1..Len(after))
        BY <1>3, <1>5
  <1>7. after \in Seq((nodes \ removed) \cup walk.lost)
    <2>1. (nodes \cup walk.lost) \ removed \subseteq (nodes \ removed) \cup walk.lost
          OBVIOUS
    <2> QED BY <1>2, <2>1, SubsetSeq
  <1> QED BY <1>4, <1>6, <1>7 DEF IsWalk

\* A recorded entry is where the cursor is.
LEMMA WalkRecords ==
  ASSUME NEW nodes, NEW walk, IsWalk(walk, nodes), NEW n \in nodes
  PROVE  IsWalk(Record(walk, n), nodes)
  <1>1. walk.entries \in Seq(nodes \cup walk.lost)
        BY DEF IsWalk
  <1> DEFINE more == Append(walk.entries, n)
             longer == [entries |-> more, cursor |-> Len(walk.entries) + 1, lost |-> walk.lost]
  <1>2. more \in Seq(nodes \cup walk.lost) /\ Len(more) = Len(walk.entries) + 1 /\ Len(walk.entries) \in Nat
        BY <1>1
  <1>3. more # <<>> /\ Len(walk.entries) + 1 \in 1..Len(more)
        BY <1>2
  <1> HIDE DEF more
  <1>4. IsWalk(longer, nodes)
        BY <1>2, <1>3 DEF IsWalk
  <1>5. [walk EXCEPT !.entries = Append(@, n), !.cursor = Len(walk.entries) + 1] = longer
    <2>1. DOMAIN walk = {"entries", "cursor", "lost"}
          BY DEF IsWalk
    <2>2. [walk EXCEPT !.entries = more, !.cursor = Len(walk.entries) + 1] = longer
          BY <2>1, WalkChanged
    <2> QED BY <2>2 DEF more
  <1> QED BY <1>4, <1>5 DEF Record

\* A walk that records any node marks it as lost if it is none of the graph's.
LEMMA WalkVisits ==
  ASSUME NEW nodes, NEW walk, IsWalk(walk, nodes), NEW n
  PROVE  IsWalk([Record(walk, n) EXCEPT !.lost = @ \cup ({n} \ nodes)], nodes)
  <1> DEFINE lost == walk.lost \cup ({n} \ nodes)
             marked == [entries |-> walk.entries, cursor |-> walk.cursor, lost |-> lost]
  <1>1. nodes \cup walk.lost \subseteq nodes \cup lost /\ n \in nodes \cup lost
        OBVIOUS
  <1>2. walk.entries \in Seq(nodes \cup walk.lost)
        BY DEF IsWalk
  <1> HIDE DEF lost
  <1>3. walk.entries \in Seq(nodes \cup lost)
        BY <1>1, <1>2, SubsetSeq
  <1>4. IsWalk(marked, nodes \cup lost)
    <2>1. (nodes \cup lost) \cup lost = nodes \cup lost
          OBVIOUS
    <2> QED BY <1>3, <2>1 DEF IsWalk
  <1>5. IsWalk(Record(marked, n), nodes \cup lost)
        BY <1>1, <1>4, WalkRecords
  <1>6. [Record(walk, n) EXCEPT !.lost = lost] = Record(marked, n)
    <2> DEFINE more == Append(walk.entries, n)
               next == Len(walk.entries) + 1
    <2>1. DOMAIN walk = {"entries", "cursor", "lost"}
          BY DEF IsWalk
    <2>2. [walk EXCEPT !.lost = lost] = marked
          BY <2>1
    <2>3. [walk EXCEPT !.entries = more, !.cursor = next]
             = [entries |-> more, cursor |-> next, lost |-> walk.lost]
          BY <2>1, WalkChanged
    <2> HIDE DEF more, next
    <2>4. [marked EXCEPT !.entries = more, !.cursor = next]
             = [entries |-> more, cursor |-> next, lost |-> lost]
      <3>1. DOMAIN marked = {"entries", "cursor", "lost"} /\ marked.lost = lost
            OBVIOUS
      <3> HIDE DEF marked
      <3> QED BY <3>1, WalkChanged
    <2>5. [[entries |-> more, cursor |-> next, lost |-> walk.lost] EXCEPT !.lost = lost]
             = [entries |-> more, cursor |-> next, lost |-> lost]
          OBVIOUS
    <2>6. \/ /\ Record(walk, n) = walk
             /\ Record(marked, n) = marked
          \/ /\ Record(walk, n) = [walk EXCEPT !.entries = more, !.cursor = next]
             /\ Record(marked, n) = [marked EXCEPT !.entries = more, !.cursor = next]
          BY DEF Record, more, next
    <2> HIDE DEF marked
    <2> QED BY <2>2, <2>3, <2>4, <2>5, <2>6
  <1>7. Record(walk, n).lost = walk.lost
        BY DEF Record, IsWalk
  <1>8. Record(marked, n).lost = lost
        BY DEF Record
  <1>9. IsWalk(Record(marked, n), nodes)
    <2>1. (nodes \cup lost) \cup lost = nodes \cup lost
          OBVIOUS
    <2> QED BY <1>5, <1>8, <2>1 DEF IsWalk
  <1>10. [Record(walk, n) EXCEPT !.lost = @ \cup ({n} \ nodes)] = [Record(walk, n) EXCEPT !.lost = lost]
        BY <1>7 DEF lost
  <1> QED BY <1>6, <1>9, <1>10

-----------------------------------------------------------------------------
(* The state of the editor, part by part.                                  *)

EditorFields == {"buffers", "windows", "carets", "workbenches", "active", "placeholder", "saving",
                 "origins", "bufferSlots", "windowSlots", "workbenchSlots"}

IsWorkbench(wb) ==
    /\ DOMAIN wb = {"layout", "active", "recent", "walks", "graph", "locations"}
    /\ DOMAIN wb.graph = {"nodes", "order", "edges", "last"}

IsState(e) ==
    /\ DOMAIN e = EditorFields
    /\ \A b \in DOMAIN e.buffers : DOMAIN e.buffers[b] = {"resource", "lines", "saved", "anchors"}
    /\ \A k \in DOMAIN e.workbenches : IsWorkbench(e.workbenches[k])

\* Each window is in one layout, but for some that are in none yet or any more.
LayoutInv(e, extra) ==
    /\ e.active \in DOMAIN e.workbenches
    /\ \A k \in DOMAIN e.workbenches : LET wb == e.workbenches[k] IN
        /\ wb.layout \in Seq(DOMAIN e.windows) /\ IsInjective(wb.layout)
        /\ DOMAIN wb.walks = ToSet(wb.layout) /\ wb.active \in ToSet(wb.layout)
        /\ wb.recent \subseteq DOMAIN e.buffers
        /\ extra \cap ToSet(wb.layout) = {}
    /\ \A k, l \in DOMAIN e.workbenches :
        k # l => ToSet(e.workbenches[k].layout) \cap ToSet(e.workbenches[l].layout) = {}
    /\ extra \subseteq DOMAIN e.windows
    /\ \A w \in DOMAIN e.windows \ extra :
        \E k \in DOMAIN e.workbenches : w \in ToSet(e.workbenches[k].layout)

\* Each window shows an open buffer, through a view of its own.
ShownInv(e) ==
    /\ \A w \in DOMAIN e.windows : <<w, e.windows[w]>> \in DOMAIN e.carets
    /\ \A c \in DOMAIN e.carets : /\ c = <<c[1], c[2]>>
                                  /\ c[1] \in DOMAIN e.windows /\ c[2] \in DOMAIN e.buffers
    /\ e.placeholder # NoHandle => e.placeholder \in DOMAIN e.buffers

\* What is kept finds itself by its handle, and so does the minibuffer's surface.
SlotInv(e, surface) ==
    /\ IsSlots(e.bufferSlots) /\ IsSlots(e.windowSlots) /\ IsSlots(e.workbenchSlots)
    /\ \A b \in DOMAIN e.buffers : Live(e.bufferSlots, b)
    /\ \A w \in DOMAIN e.windows : Live(e.windowSlots, w)
    /\ \A k \in DOMAIN e.workbenches : Live(e.workbenchSlots, k)
    /\ \A s \in surface : /\ Live(e.bufferSlots, s.buffer) /\ s.buffer \notin DOMAIN e.buffers
                          /\ Live(e.windowSlots, s.window) /\ s.window \notin DOMAIN e.windows

WindowInv(e, extra, surface) == LayoutInv(e, extra) /\ ShownInv(e) /\ SlotInv(e, surface)


\* The parts of the state that the parts of the invariant are about.
SameWindows(e, f) ==
    /\ DOMAIN f.buffers = DOMAIN e.buffers /\ f.windows = e.windows
    /\ DOMAIN f.carets = DOMAIN e.carets /\ f.active = e.active /\ f.placeholder = e.placeholder
    /\ f.bufferSlots = e.bufferSlots /\ f.windowSlots = e.windowSlots
    /\ f.workbenchSlots = e.workbenchSlots
    /\ DOMAIN f.workbenches = DOMAIN e.workbenches
    /\ \A k \in DOMAIN e.workbenches :
        /\ f.workbenches[k].layout = e.workbenches[k].layout
        /\ f.workbenches[k].active = e.workbenches[k].active
        /\ f.workbenches[k].recent = e.workbenches[k].recent
        /\ DOMAIN f.workbenches[k].walks = DOMAIN e.workbenches[k].walks

SameJumps(e, f) ==
    /\ DOMAIN f.workbenches = DOMAIN e.workbenches
    /\ \A k \in DOMAIN e.workbenches :
        /\ f.workbenches[k].walks = e.workbenches[k].walks
        /\ f.workbenches[k].graph = e.workbenches[k].graph

SamePlaces(e, f) ==
    /\ DOMAIN f.buffers = DOMAIN e.buffers
    /\ \A b \in DOMAIN e.buffers : /\ f.buffers[b].anchors = e.buffers[b].anchors
                                   /\ f.buffers[b].lines = e.buffers[b].lines
                                   /\ f.buffers[b].resource = e.buffers[b].resource
    /\ DOMAIN f.workbenches = DOMAIN e.workbenches
    /\ \A k \in DOMAIN e.workbenches :
        /\ f.workbenches[k].graph.nodes = e.workbenches[k].graph.nodes
        /\ f.workbenches[k].locations = e.workbenches[k].locations

\* What commands on windows and jumps leave of buffers, and only add to.
Keeps(e, f) ==
    /\ DOMAIN f.buffers = DOMAIN e.buffers
    /\ \A b \in DOMAIN e.buffers : /\ f.buffers[b].resource = e.buffers[b].resource
                                   /\ f.buffers[b].lines = e.buffers[b].lines
                                   /\ f.buffers[b].saved = e.buffers[b].saved
    /\ f.saving = e.saving /\ f.bufferSlots = e.bufferSlots /\ f.active = e.active
    /\ f.placeholder = e.placeholder
    /\ DOMAIN e.windows \subseteq DOMAIN f.windows
    /\ DOMAIN f.workbenches = DOMAIN e.workbenches
    /\ \A k \in DOMAIN e.workbenches :
        ToSet(e.workbenches[k].layout) \subseteq ToSet(f.workbenches[k].layout)

\* No node is evicted.
Grows(e, f) == \A k \in DOMAIN e.workbenches :
    DOMAIN e.workbenches[k].graph.nodes \subseteq DOMAIN f.workbenches[k].graph.nodes

\* Two steps that keep what a command relies on are one that does.
LEMMA KeepsTwice ==
  ASSUME NEW e, NEW f, NEW g, Keeps(e, f), Keeps(f, g)
  PROVE  Keeps(e, g)
  BY DEF Keeps

\* Graphs that grow twice have grown.
LEMMA GrowsTwice ==
  ASSUME NEW e, NEW f, NEW g, Keeps(e, f), Grows(e, f), Grows(f, g)
  PROVE  Grows(e, g)
  BY DEF Keeps, Grows

\* Layouts are those they were, and what is remembered of them is in order.
LEMMA LayoutsStay ==
  ASSUME NEW e, NEW f, NEW extra, LayoutInv(e, extra), f.active \in DOMAIN e.workbenches,
         DOMAIN f.windows = DOMAIN e.windows, DOMAIN f.workbenches = DOMAIN e.workbenches,
         \A k \in DOMAIN e.workbenches :
            /\ f.workbenches[k].layout = e.workbenches[k].layout
            /\ DOMAIN f.workbenches[k].walks = DOMAIN e.workbenches[k].walks
            /\ f.workbenches[k].active \in ToSet(e.workbenches[k].layout)
            /\ f.workbenches[k].recent \subseteq DOMAIN f.buffers
  PROVE  LayoutInv(f, extra)
  <1>1. \A k \in DOMAIN f.workbenches : LET wb == f.workbenches[k] IN
            /\ wb.layout \in Seq(DOMAIN f.windows) /\ IsInjective(wb.layout)
            /\ DOMAIN wb.walks = ToSet(wb.layout) /\ wb.active \in ToSet(wb.layout)
            /\ wb.recent \subseteq DOMAIN f.buffers
            /\ extra \cap ToSet(wb.layout) = {}
        BY DEF LayoutInv
  <1>2. \A k, l \in DOMAIN f.workbenches :
            k # l => ToSet(f.workbenches[k].layout) \cap ToSet(f.workbenches[l].layout) = {}
        BY DEF LayoutInv
  <1>3. \A w \in DOMAIN f.windows \ extra :
            \E k \in DOMAIN f.workbenches : w \in ToSet(f.workbenches[k].layout)
        BY DEF LayoutInv
  <1>4. f.active \in DOMAIN f.workbenches /\ extra \subseteq DOMAIN f.windows
        BY DEF LayoutInv
  <1> QED BY <1>1, <1>2, <1>3, <1>4 DEF LayoutInv

\* What touches neither windows nor slots keeps what is said of them.
LEMMA WindowsStay ==
  ASSUME NEW e, NEW f, NEW extra, NEW surface, WindowInv(e, extra, surface), SameWindows(e, f)
  PROVE  WindowInv(f, extra, surface)
  <1>1. LayoutInv(f, extra)
    <2>1. \A k \in DOMAIN e.workbenches :
             /\ e.workbenches[k].active \in ToSet(e.workbenches[k].layout)
             /\ e.workbenches[k].recent \subseteq DOMAIN e.buffers
          BY DEF WindowInv, LayoutInv
    <2>2. e.active \in DOMAIN e.workbenches
          BY DEF WindowInv, LayoutInv
    <2> QED BY <2>1, <2>2, LayoutsStay DEF SameWindows, WindowInv
  <1>2. ShownInv(f)
        BY DEF SameWindows, WindowInv, ShownInv
  <1>3. SlotInv(f, surface)
        BY DEF SameWindows, WindowInv, SlotInv
  <1> QED BY <1>1, <1>2, <1>3 DEF WindowInv

-----------------------------------------------------------------------------
(* Windows.                                                                *)

\* The window shows an open buffer through a view of its own.
LEMMA ShowBufferWindows ==
  ASSUME NEW e, IsState(e), NEW surface, WindowInv(e, {}, surface),
         NEW w \in DOMAIN e.windows, NEW b \in DOMAIN e.buffers
  PROVE  IsState(ShowBuffer(e, w, b)) /\ WindowInv(ShowBuffer(e, w, b), {}, surface)
  <1> DEFINE f == ShowBuffer(e, w, b)
  <1>1. IsState(f)
        BY DEF IsState, IsWorkbench, EditorFields, ShowBuffer
  <1>2. LayoutInv(f, {})
    <2>1. /\ f.active = e.active /\ DOMAIN f.workbenches = DOMAIN e.workbenches
          /\ DOMAIN f.windows = DOMAIN e.windows /\ f.buffers = e.buffers
          /\ \A j \in DOMAIN e.workbenches :
                /\ f.workbenches[j].layout = e.workbenches[j].layout
                /\ f.workbenches[j].active = e.workbenches[j].active
                /\ f.workbenches[j].walks = e.workbenches[j].walks
                /\ f.workbenches[j].recent \subseteq e.workbenches[j].recent \cup {b}
          BY DEF IsState, IsWorkbench, EditorFields, ShowBuffer
    <2>2. /\ LayoutInv(e, {}) /\ e.active \in DOMAIN e.workbenches
          /\ \A j \in DOMAIN e.workbenches :
                /\ e.workbenches[j].active \in ToSet(e.workbenches[j].layout)
                /\ e.workbenches[j].recent \subseteq DOMAIN e.buffers
          BY DEF LayoutInv, WindowInv
    <2> HIDE DEF f
    <2>3. \A j \in DOMAIN e.workbenches : f.workbenches[j].recent \subseteq DOMAIN f.buffers
          BY <2>1, <2>2
    <2> QED BY <2>1, <2>2, <2>3, LayoutsStay
  <1>3. ShownInv(f)
        BY DEF IsState, IsWorkbench, EditorFields, ShowBuffer, ShownInv, WindowInv, Put
  <1>4. SlotInv(f, surface)
        BY DEF IsState, IsWorkbench, EditorFields, ShowBuffer, SlotInv, WindowInv
  <1> QED BY <1>1, <1>2, <1>3, <1>4 DEF WindowInv

\* The window in use is one of the layout.
LEMMA FocusWindowWindows ==
  ASSUME NEW e, IsState(e), NEW surface, WindowInv(e, {}, surface),
         NEW k \in DOMAIN e.workbenches, NEW w \in ToSet(e.workbenches[k].layout)
  PROVE  IsState(FocusWindow(e, k, w)) /\ WindowInv(FocusWindow(e, k, w), {}, surface)
  <1> DEFINE f == FocusWindow(e, k, w)
  <1>1. IsState(f)
        BY DEF IsState, IsWorkbench, EditorFields, FocusWindow
  <1>2. LayoutInv(f, {})
    <2>0. w \in DOMAIN e.windows
          BY DEF WindowInv, LayoutInv, ToSet
    <2>1. e.windows[w] \in DOMAIN e.buffers
          BY <2>0 DEF WindowInv, ShownInv
    <2>2. /\ f.active = e.active /\ DOMAIN f.workbenches = DOMAIN e.workbenches
          /\ f.windows = e.windows /\ f.buffers = e.buffers
          /\ \A j \in DOMAIN e.workbenches :
                /\ f.workbenches[j].layout = e.workbenches[j].layout
                /\ f.workbenches[j].active = IF j = k THEN w ELSE e.workbenches[j].active
                /\ f.workbenches[j].walks = e.workbenches[j].walks
                /\ f.workbenches[j].recent \subseteq e.workbenches[j].recent \cup {e.windows[w]}
          BY DEF IsState, IsWorkbench, EditorFields, FocusWindow
    <2>3. /\ LayoutInv(e, {}) /\ e.active \in DOMAIN e.workbenches
          /\ \A j \in DOMAIN e.workbenches :
                /\ e.workbenches[j].active \in ToSet(e.workbenches[j].layout)
                /\ e.workbenches[j].recent \subseteq DOMAIN e.buffers
          BY DEF LayoutInv, WindowInv
    <2> HIDE DEF f
    <2>4. \A j \in DOMAIN e.workbenches : /\ f.workbenches[j].recent \subseteq DOMAIN f.buffers
                                          /\ f.workbenches[j].active \in ToSet(e.workbenches[j].layout)
          BY <2>1, <2>2, <2>3
    <2> QED BY <2>2, <2>3, <2>4, LayoutsStay
  <1>3. ShownInv(f)
        BY DEF IsState, IsWorkbench, EditorFields, FocusWindow, ShownInv, WindowInv
  <1>4. SlotInv(f, surface)
        BY DEF IsState, IsWorkbench, EditorFields, FocusWindow, SlotInv, WindowInv
  <1> QED BY <1>1, <1>2, <1>3, <1>4 DEF WindowInv

\* No view comes or goes with a caret that moves.
LEMMA MoveCaretWindows ==
  ASSUME NEW e, IsState(e), NEW surface, WindowInv(e, {}, surface), NEW w \in DOMAIN e.windows, NEW line
  PROVE  IsState(MoveCaret(e, w, line)) /\ WindowInv(MoveCaret(e, w, line), {}, surface)
  <1>1. IsState(MoveCaret(e, w, line)) /\ SameWindows(e, MoveCaret(e, w, line))
        BY DEF IsState, IsWorkbench, EditorFields, MoveCaret, SameWindows
  <1> QED BY <1>1, WindowsStay

\* A sequence with one more element somewhere in it.
LEMMA Inserted ==
  ASSUME NEW S, NEW s \in Seq(S), NEW x \in S, NEW i \in 1..(Len(s) + 1)
  PROVE  /\ InsertAt(s, i, x) \in Seq(S) /\ ToSet(InsertAt(s, i, x)) = ToSet(s) \cup {x}
         /\ IsInjective(s) /\ x \notin ToSet(s) => IsInjective(InsertAt(s, i, x))
  <1> DEFINE n == Len(s)
             p == SubSeq(s, 1, i - 1)
             q == SubSeq(s, i, n)
             t == InsertAt(s, i, x)
  <1>1. n \in Nat /\ DOMAIN s = 1..n /\ i \in Nat /\ i >= 1 /\ i <= n + 1 /\ \A j \in 1..n : s[j] \in S
        OBVIOUS
  <1>2. p \in Seq(S) /\ Len(p) = i - 1 /\ \A j \in 1..(i - 1) : p[j] = s[j]
    <2>1. i - 1 \in 0..Len(s)
          BY <1>1
    <2> QED BY <2>1, Shortened
  <1>3. q \in Seq(S) /\ Len(q) = n + 1 - i /\ \A j \in 1..(n + 1 - i) : q[j] = s[i + j - 1]
    <2>1. q = [j \in 1..(n + 1 - i) |-> s[i + j - 1]]
          BY <1>1
    <2>2. \A j \in 1..(n + 1 - i) : i + j - 1 \in 1..n
          BY <1>1
    <2>3. q \in [1..(n + 1 - i) -> S] /\ n + 1 - i \in Nat
          BY <1>1, <2>1, <2>2
    <2>4. q \in Seq(S)
          BY <2>3
    <2>5. Len(q) = n + 1 - i
          BY <2>3, <2>4
    <2> QED BY <2>1, <2>4, <2>5
  <1>4. t = (p \o <<x>>) \o q
        BY DEF InsertAt
  <1> HIDE DEF p, q, t
  <1>5. /\ p \o <<x>> \in Seq(S) /\ Len(p \o <<x>>) = i
        /\ (p \o <<x>>)[i] = x /\ \A j \in 1..(i - 1) : (p \o <<x>>)[j] = s[j]
        BY <1>1, <1>2
  <1> DEFINE r == p \o <<x>>
  <1>5a. Len(r) = i /\ r[i] = x /\ \A j \in 1..(i - 1) : r[j] = s[j]
        BY <1>5
  <1> HIDE DEF r
  <1>6. /\ t \in Seq(S) /\ DOMAIN t = 1..(Len(r) + Len(q))
        /\ \A j \in 1..Len(r) : t[j] = r[j]
        /\ \A j \in 1..Len(q) : t[Len(r) + j] = q[j]
    <2>1. r \in Seq(S) /\ q \in Seq(S) /\ t = r \o q
          BY <1>3, <1>4, <1>5 DEF r
    <2> QED BY <2>1, Concatenated
  <1>7. DOMAIN t = 1..(n + 1)
    <2>1. Len(r) + Len(q) = n + 1
          BY <1>1, <1>3, <1>5a
    <2> QED BY <1>6, <2>1
  <1>8. \A j \in 1..(i - 1) : t[j] = s[j]
    <2>1. \A j \in 1..(i - 1) : j \in 1..Len(r)
          BY <1>1, <1>5a
    <2> QED BY <1>6, <1>5a, <2>1
  <1>9. t[i] = x
        BY <1>1, <1>6, <1>5a
  <1>10. \A j \in (i + 1)..(n + 1) : t[j] = s[j - 1]
    <2> SUFFICES ASSUME NEW j \in (i + 1)..(n + 1)
                 PROVE  t[j] = s[j - 1]
          OBVIOUS
    <2>1. j - i \in 1..(n + 1 - i) /\ i + (j - i) = j /\ i + (j - i) - 1 = j - 1
          BY <1>1
    <2>2. t[i + (j - i)] = q[j - i]
          BY <1>3, <1>6, <1>5a, <2>1
    <2> QED BY <1>3, <2>1, <2>2
  <1>11. \A j \in 1..(n + 1) : j \in 1..(i - 1) \/ j = i \/ j \in (i + 1)..(n + 1)
        BY <1>1
  <1>12. ToSet(t) = ToSet(s) \cup {x}
    <2>1. ASSUME NEW j \in 1..n
          PROVE  \E m \in 1..(n + 1) : t[m] = s[j]
      <3>1. CASE j < i
        <4>1. j \in 1..(i - 1) /\ j \in 1..(n + 1)
              BY <1>1, <3>1
        <4> QED BY <1>8, <4>1
      <3>2. CASE ~(j < i)
        <4>1. j + 1 \in (i + 1)..(n + 1) /\ j + 1 \in 1..(n + 1) /\ (j + 1) - 1 = j
              BY <1>1, <3>2
        <4> QED BY <1>10, <4>1
      <3> QED BY <3>1, <3>2
    <2>2. ASSUME NEW j \in 1..(n + 1)
          PROVE  t[j] = x \/ \E m \in 1..n : t[j] = s[m]
      <3>1. j \in 1..(i - 1) => j \in 1..n
            BY <1>1
      <3>2. j \in (i + 1)..(n + 1) => j - 1 \in 1..n
            BY <1>1
      <3> QED BY <1>8, <1>9, <1>10, <1>11, <3>1, <3>2
    <2>3. i \in 1..(n + 1)
          BY <1>1
    <2>4. ToSet(t) = {t[m] : m \in 1..(n + 1)} /\ ToSet(s) = {s[m] : m \in 1..n}
          BY <1>1, <1>7 DEF ToSet
    <2> HIDE DEF n
    <2>5. ASSUME NEW y \in ToSet(t)
          PROVE  y \in ToSet(s) \cup {x}
          BY <2>2, <2>4
    <2>6. ASSUME NEW y \in ToSet(s) \cup {x}
          PROVE  y \in ToSet(t)
          BY <1>9, <2>1, <2>3, <2>4
    <2> QED BY <2>5, <2>6
  <1>13. ASSUME IsInjective(s), x \notin ToSet(s)
         PROVE  IsInjective(t)
    <2> DEFINE at(j) == IF j < i THEN j ELSE j - 1
    <2>1. \A j \in 1..(n + 1) : j = i \/ (at(j) \in 1..n /\ t[j] = s[at(j)])
      <3> SUFFICES ASSUME NEW j \in 1..(n + 1), j # i
                   PROVE  at(j) \in 1..n /\ t[j] = s[at(j)]
            OBVIOUS
      <3>1. CASE j < i
        <4>1. j \in 1..(i - 1) /\ j \in 1..n
              BY <1>1, <3>1
        <4> QED BY <1>8, <3>1, <4>1
      <3>2. CASE ~(j < i)
        <4>1. j \in (i + 1)..(n + 1) /\ j - 1 \in 1..n
              BY <1>1, <3>2
        <4> QED BY <1>10, <3>2, <4>1
      <3> QED BY <3>1, <3>2
    <2>2. \A j, m \in 1..(n + 1) : j # i /\ m # i /\ at(j) = at(m) => j = m
          BY <1>1
    <2>3. \A j \in 1..n : s[j] # x
          BY <1>1, <1>13 DEF ToSet
    <2>4. \A j, m \in 1..n : s[j] = s[m] => j = m
          BY <1>1, <1>13 DEF IsInjective
    <2> HIDE DEF at, n
    <2> SUFFICES ASSUME NEW j \in 1..(n + 1), NEW m \in 1..(n + 1), t[j] = t[m]
                 PROVE  j = m
          BY <1>7 DEF IsInjective
    <2> QED BY <1>9, <2>1, <2>2, <2>3, <2>4
  <1> QED BY <1>6, <1>12, <1>13 DEF t

\* A new window has a handle that nothing else has.
LEMMA CreatedWindowIsNew ==
  ASSUME NEW e, NEW extra, NEW surface, WindowInv(e, extra, surface)
  PROVE  /\ CreatedWindow(e) \notin DOMAIN e.windows
         /\ \A s \in surface : s.window # CreatedWindow(e)
  BY HandleTaken DEF WindowInv, SlotInv, CreatedWindow

\* The new window is like no other, and in no layout yet.
LEMMA CreateWindowWindows ==
  ASSUME NEW e, IsState(e), NEW surface, WindowInv(e, {}, surface), NEW b \in DOMAIN e.buffers, NEW line
  PROVE  /\ IsState(CreateWindow(e, b, line))
         /\ WindowInv(CreateWindow(e, b, line), {CreatedWindow(e)}, surface)
  <1> DEFINE f == CreateWindow(e, b, line)
             w == CreatedWindow(e)
  <1>1. IsState(f)
        BY DEF IsState, IsWorkbench, EditorFields, CreateWindow
  <1>2. /\ f.active = e.active /\ f.workbenches = e.workbenches /\ f.windows = Put(e.windows, w, b)
        /\ f.buffers = e.buffers /\ f.carets = Put(e.carets, <<w, b>>, line)
        /\ f.placeholder = e.placeholder
        /\ f.bufferSlots = e.bufferSlots /\ f.windowSlots = Taken(e.windowSlots)
        /\ f.workbenchSlots = e.workbenchSlots
        BY DEF IsState, EditorFields, CreateWindow
  <1>3. w \notin DOMAIN e.windows /\ \A s \in surface : s.window # w
        BY CreatedWindowIsNew
  <1>4. /\ IsSlots(Taken(e.windowSlots)) /\ Live(Taken(e.windowSlots), w)
        /\ \A h : Live(e.windowSlots, h) => Live(Taken(e.windowSlots), h)
        BY HandleTaken DEF WindowInv, SlotInv, CreatedWindow
  <1>5. /\ DOMAIN f.windows = DOMAIN e.windows \cup {w} /\ f.windows[w] = b
        /\ \A v \in DOMAIN e.windows : f.windows[v] = e.windows[v]
        BY <1>2, <1>3 DEF Put
  <1>6. DOMAIN f.carets = DOMAIN e.carets \cup {<<w, b>>}
        BY <1>2 DEF Put
  <1> HIDE DEF f, w
  <1>7. LayoutInv(f, {w})
    <2>1. LayoutInv(e, {})
          BY DEF WindowInv
    <2>2. \A k \in DOMAIN e.workbenches : LET wb == e.workbenches[k] IN
            /\ wb.layout \in Seq(DOMAIN f.windows) /\ IsInjective(wb.layout)
            /\ DOMAIN wb.walks = ToSet(wb.layout) /\ wb.active \in ToSet(wb.layout)
            /\ wb.recent \subseteq DOMAIN f.buffers
            /\ {w} \cap ToSet(wb.layout) = {}
      <3> SUFFICES ASSUME NEW k \in DOMAIN e.workbenches
                   PROVE  /\ e.workbenches[k].layout \in Seq(DOMAIN f.windows)
                          /\ {w} \cap ToSet(e.workbenches[k].layout) = {}
            BY <1>2, <2>1 DEF LayoutInv
      <3>1. e.workbenches[k].layout \in Seq(DOMAIN e.windows)
            BY <2>1 DEF LayoutInv
      <3>2. \A S, T : \A s \in Seq(S) : S \subseteq T => s \in Seq(T)
            OBVIOUS
      <3>3. e.workbenches[k].layout \in Seq(DOMAIN f.windows)
            BY <1>5, <3>1, <3>2
      <3>4. w \notin ToSet(e.workbenches[k].layout)
            BY <1>3, <3>1 DEF ToSet
      <3> QED BY <3>3, <3>4
    <2>3. \A v \in DOMAIN f.windows \ {w} :
            \E k \in DOMAIN e.workbenches : v \in ToSet(e.workbenches[k].layout)
          BY <1>5, <2>1 DEF LayoutInv
    <2>4. \A k, l \in DOMAIN e.workbenches :
            k # l => ToSet(e.workbenches[k].layout) \cap ToSet(e.workbenches[l].layout) = {}
          BY <2>1 DEF LayoutInv
    <2>5. e.active \in DOMAIN e.workbenches /\ {w} \subseteq DOMAIN f.windows
          BY <1>5, <2>1 DEF LayoutInv
    <2> QED BY <1>2, <2>2, <2>3, <2>4, <2>5 DEF LayoutInv
  <1>8. ShownInv(f)
        BY <1>2, <1>5, <1>6 DEF ShownInv, WindowInv
  <1>9. SlotInv(f, surface)
        BY <1>2, <1>3, <1>4, <1>5 DEF SlotInv, WindowInv
  <1> QED BY <1>1, <1>7, <1>8, <1>9 DEF WindowInv, f, w

\* The new window enters a layout.
LEMMA SplitLayoutWindows ==
  ASSUME NEW e, IsState(e), NEW surface, NEW w, NEW outside, outside = {w}, WindowInv(e, outside, surface),
         NEW k \in DOMAIN e.workbenches, NEW target \in ToSet(e.workbenches[k].layout)
  PROVE  /\ IsState(SplitLayout(e, k, target, w)) /\ WindowInv(SplitLayout(e, k, target, w), {}, surface)
         /\ w \in ToSet(SplitLayout(e, k, target, w).workbenches[k].layout)
         /\ \A v \in ToSet(e.workbenches[k].layout) :
               v \in ToSet(SplitLayout(e, k, target, w).workbenches[k].layout)
  <1> DEFINE f == SplitLayout(e, k, target, w)
             layout == e.workbenches[k].layout
             i == IndexIn(layout, target)
             wider == InsertAt(layout, i + 1, w)
  <1>1. IsState(f)
        BY DEF IsState, IsWorkbench, EditorFields, SplitLayout
  <1>2. /\ f.active = e.active /\ f.windows = e.windows /\ f.buffers = e.buffers /\ f.carets = e.carets
        /\ f.placeholder = e.placeholder /\ DOMAIN f.workbenches = DOMAIN e.workbenches
        /\ f.bufferSlots = e.bufferSlots /\ f.windowSlots = e.windowSlots
        /\ f.workbenchSlots = e.workbenchSlots
        BY DEF IsState, EditorFields, SplitLayout
  <1>3. /\ f.workbenches[k].layout = wider
        /\ f.workbenches[k].walks = Put(e.workbenches[k].walks, w, NoWalk)
        /\ f.workbenches[k].active = e.workbenches[k].active
        /\ f.workbenches[k].recent = e.workbenches[k].recent
        /\ \A j \in DOMAIN e.workbenches \ {k} : f.workbenches[j] = e.workbenches[j]
        BY DEF IsState, IsWorkbench, EditorFields, SplitLayout
  <1>4. /\ LayoutInv(e, {w}) /\ w \in DOMAIN e.windows
        /\ layout \in Seq(DOMAIN e.windows) /\ IsInjective(layout) /\ w \notin ToSet(layout)
        /\ DOMAIN e.workbenches[k].walks = ToSet(layout)
        BY DEF WindowInv, LayoutInv
  <1>5. i \in DOMAIN layout
        BY DEF IndexIn, ToSet
  <1>6. /\ wider \in Seq(DOMAIN e.windows) /\ ToSet(wider) = ToSet(layout) \cup {w} /\ IsInjective(wider)
    <2>1. i + 1 \in 1..(Len(layout) + 1)
          BY <1>4, <1>5
    <2> HIDE DEF layout, i
    <2> QED BY <1>4, <2>1, Inserted
  <1>7. DOMAIN f.workbenches[k].walks = ToSet(layout) \cup {w}
        BY <1>3, <1>4 DEF Put
  <1> HIDE DEF f, wider, i
  <1>8. LayoutInv(f, {})
    <2>1. \A j \in DOMAIN e.workbenches : LET wb == f.workbenches[j] IN
            /\ wb.layout \in Seq(DOMAIN f.windows) /\ IsInjective(wb.layout)
            /\ DOMAIN wb.walks = ToSet(wb.layout) /\ wb.active \in ToSet(wb.layout)
            /\ wb.recent \subseteq DOMAIN f.buffers
            /\ {} \cap ToSet(wb.layout) = {}
      <3> SUFFICES ASSUME NEW j \in DOMAIN e.workbenches
                   PROVE  LET wb == f.workbenches[j] IN
            /\ wb.layout \in Seq(DOMAIN f.windows) /\ IsInjective(wb.layout)
            /\ DOMAIN wb.walks = ToSet(wb.layout) /\ wb.active \in ToSet(wb.layout)
            /\ wb.recent \subseteq DOMAIN f.buffers
            OBVIOUS
      <3>1. CASE j = k
            BY <1>2, <1>3, <1>4, <1>6, <1>7, <3>1 DEF LayoutInv
      <3>2. CASE j # k
            BY <1>2, <1>3, <1>4, <3>2 DEF LayoutInv
      <3> QED BY <3>1, <3>2
    <2>2. ASSUME NEW j \in DOMAIN e.workbenches, NEW l \in DOMAIN e.workbenches, j # l
          PROVE  ToSet(f.workbenches[j].layout) \cap ToSet(f.workbenches[l].layout) = {}
      <3>1. ToSet(e.workbenches[j].layout) \cap ToSet(e.workbenches[l].layout) = {}
            BY <1>4, <2>2 DEF LayoutInv
      <3>2. w \notin ToSet(e.workbenches[j].layout) /\ w \notin ToSet(e.workbenches[l].layout)
            BY <1>4 DEF LayoutInv
      <3> QED BY <1>3, <1>6, <2>2, <3>1, <3>2
    <2>3. \A v \in DOMAIN f.windows \ {} :
            \E j \in DOMAIN e.workbenches : v \in ToSet(f.workbenches[j].layout)
      <3> SUFFICES ASSUME NEW v \in DOMAIN e.windows
                   PROVE  \E j \in DOMAIN e.workbenches : v \in ToSet(f.workbenches[j].layout)
            BY <1>2
      <3>1. CASE v = w
            BY <1>3, <1>6, <3>1
      <3>2. CASE v # w
        <4>1. PICK j \in DOMAIN e.workbenches : v \in ToSet(e.workbenches[j].layout)
              BY <1>4, <3>2 DEF LayoutInv
        <4> QED BY <1>3, <1>6, <4>1
      <3> QED BY <3>1, <3>2
    <2>4. f.active \in DOMAIN f.workbenches /\ {} \subseteq DOMAIN f.windows
          BY <1>2, <1>4 DEF LayoutInv
    <2> QED BY <1>2, <2>1, <2>2, <2>3, <2>4 DEF LayoutInv
  <1>9. ShownInv(f)
        BY <1>2 DEF ShownInv, WindowInv
  <1>10. SlotInv(f, surface)
        BY <1>2 DEF SlotInv, WindowInv
  <1> QED BY <1>1, <1>3, <1>6, <1>8, <1>9, <1>10 DEF WindowInv, f

\* Windows that are in no layout, or leave theirs, are destroyed.
LEMMA DestroyWindowsWindows ==
  ASSUME NEW e, IsState(e), NEW surface, NEW extra, WindowInv(e, extra, surface),
         NEW hs \in Seq(DOMAIN e.windows), IsInjective(hs), extra \subseteq ToSet(hs),
         \A k \in DOMAIN e.workbenches : e.workbenches[k].active \notin ToSet(hs)
  PROVE  IsState(DestroyWindows(e, hs)) /\ WindowInv(DestroyWindows(e, hs), {}, surface)
  <1> DEFINE f == DestroyWindows(e, hs)
             gone == ToSet(hs)
  <1>1. IsState(f)
        BY DEF IsState, IsWorkbench, EditorFields, DestroyWindows, WithoutWindows
  <1>2. /\ f.active = e.active /\ f.buffers = e.buffers /\ f.placeholder = e.placeholder
        /\ f.windows = Restrict(e.windows, DOMAIN e.windows \ gone)
        /\ f.carets = Restrict(e.carets, {c \in DOMAIN e.carets : c[1] \notin gone})
        /\ DOMAIN f.workbenches = DOMAIN e.workbenches
        /\ f.bufferSlots = e.bufferSlots /\ f.windowSlots = AllFreed(e.windowSlots, hs)
        /\ f.workbenchSlots = e.workbenchSlots
        BY DEF IsState, EditorFields, DestroyWindows
  <1>3. \A k \in DOMAIN e.workbenches :
            /\ f.workbenches[k].layout = Without(e.workbenches[k].layout, gone)
            /\ f.workbenches[k].walks = Restrict(e.workbenches[k].walks,
                                                 DOMAIN e.workbenches[k].walks \ gone)
            /\ f.workbenches[k].active = e.workbenches[k].active
            /\ f.workbenches[k].recent = e.workbenches[k].recent
    <2>1. \A k \in DOMAIN e.workbenches : f.workbenches[k] = WithoutWindows(e.workbenches[k], gone)
          BY DEF IsState, EditorFields, DestroyWindows
    <2> HIDE DEF f, gone
    <2>2. ASSUME NEW wb, IsWorkbench(wb)
          PROVE  /\ WithoutWindows(wb, gone).layout = Without(wb.layout, gone)
                 /\ WithoutWindows(wb, gone).walks = Restrict(wb.walks, DOMAIN wb.walks \ gone)
                 /\ WithoutWindows(wb, gone).active = wb.active
                 /\ WithoutWindows(wb, gone).recent = wb.recent
          BY <2>2 DEF IsWorkbench, WithoutWindows
    <2> QED BY <2>1, <2>2 DEF IsState
  <1> HIDE DEF f
  <1>4. /\ DOMAIN f.windows = DOMAIN e.windows \ gone
        /\ \A w \in DOMAIN f.windows : f.windows[w] = e.windows[w]
        /\ DOMAIN f.carets = {c \in DOMAIN e.carets : c[1] \notin gone}
        BY <1>2 DEF Restrict
  <1>5. LayoutInv(e, extra)
        BY DEF WindowInv
  <1>6. \A k \in DOMAIN e.workbenches :
            /\ f.workbenches[k].layout \in Seq(DOMAIN f.windows) /\ IsInjective(f.workbenches[k].layout)
            /\ ToSet(f.workbenches[k].layout) = ToSet(e.workbenches[k].layout) \ gone
    <2> SUFFICES ASSUME NEW k \in DOMAIN e.workbenches
                 PROVE  LET layout == e.workbenches[k].layout IN
                        /\ Without(layout, gone) \in Seq(DOMAIN f.windows)
                        /\ IsInjective(Without(layout, gone))
                        /\ ToSet(Without(layout, gone)) = ToSet(layout) \ gone
          BY <1>3
    <2>1. e.workbenches[k].layout \in Seq(DOMAIN e.windows) /\ IsInjective(e.workbenches[k].layout)
          BY <1>5 DEF LayoutInv
    <2> HIDE DEF gone
    <2>2. /\ Without(e.workbenches[k].layout, gone) \in Seq(DOMAIN e.windows \ gone)
          /\ ToSet(Without(e.workbenches[k].layout, gone)) = ToSet(e.workbenches[k].layout) \ gone
          /\ IsInjective(Without(e.workbenches[k].layout, gone))
          BY <2>1, WithoutErases
    <2> QED BY <1>4, <2>2
  <1>7. \A k \in DOMAIN e.workbenches :
            DOMAIN f.workbenches[k].walks = ToSet(e.workbenches[k].layout) \ gone
    <2> SUFFICES ASSUME NEW k \in DOMAIN e.workbenches
                 PROVE  DOMAIN f.workbenches[k].walks = ToSet(e.workbenches[k].layout) \ gone
          OBVIOUS
    <2>1. DOMAIN e.workbenches[k].walks = ToSet(e.workbenches[k].layout)
          BY <1>5 DEF LayoutInv
    <2> HIDE DEF gone
    <2>2. DOMAIN f.workbenches[k].walks = DOMAIN e.workbenches[k].walks \ gone
          BY <1>3 DEF Restrict
    <2> QED BY <2>1, <2>2
  <1>8. LayoutInv(f, {})
    <2> HIDE DEF gone
    <2>1. \A k \in DOMAIN e.workbenches : LET wb == f.workbenches[k] IN
            /\ wb.layout \in Seq(DOMAIN f.windows) /\ IsInjective(wb.layout)
            /\ DOMAIN wb.walks = ToSet(wb.layout) /\ wb.active \in ToSet(wb.layout)
            /\ wb.recent \subseteq DOMAIN f.buffers
            /\ {} \cap ToSet(wb.layout) = {}
      <3>1. \A k \in DOMAIN e.workbenches : /\ e.workbenches[k].active \in ToSet(e.workbenches[k].layout)
                                            /\ e.workbenches[k].active \notin gone
                                            /\ e.workbenches[k].recent \subseteq DOMAIN e.buffers
            BY <1>5 DEF LayoutInv, gone
      <3> QED BY <1>2, <1>3, <1>6, <1>7, <3>1
    <2>2. ASSUME NEW k \in DOMAIN e.workbenches, NEW l \in DOMAIN e.workbenches, k # l
          PROVE  ToSet(f.workbenches[k].layout) \cap ToSet(f.workbenches[l].layout) = {}
      <3>1. ToSet(e.workbenches[k].layout) \cap ToSet(e.workbenches[l].layout) = {}
            BY <1>5, <2>2 DEF LayoutInv
      <3> QED BY <1>6, <3>1
    <2>3. ASSUME NEW w \in DOMAIN f.windows \ {}
          PROVE  \E k \in DOMAIN e.workbenches : w \in ToSet(f.workbenches[k].layout)
      <3>1. w \in DOMAIN e.windows \ extra /\ w \notin gone
            BY <1>4 DEF gone
      <3>2. PICK k \in DOMAIN e.workbenches : w \in ToSet(e.workbenches[k].layout)
            BY <1>5, <3>1 DEF LayoutInv
      <3> QED BY <1>6, <3>1, <3>2
    <2>4. f.active \in DOMAIN f.workbenches /\ {} \subseteq DOMAIN f.windows
          BY <1>2, <1>5 DEF LayoutInv
    <2> QED BY <1>2, <2>1, <2>2, <2>3, <2>4 DEF LayoutInv
  <1>9. ShownInv(f)
    <2>1. \A w \in DOMAIN f.windows : <<w, f.windows[w]>> \in DOMAIN f.carets
      <3> SUFFICES ASSUME NEW w \in DOMAIN f.windows
                   PROVE  <<w, f.windows[w]>> \in DOMAIN f.carets
            OBVIOUS
      <3>1. w \in DOMAIN e.windows /\ w \notin gone /\ f.windows[w] = e.windows[w]
            BY <1>4
      <3>2. <<w, e.windows[w]>> \in DOMAIN e.carets
            BY <3>1 DEF ShownInv, WindowInv
      <3> HIDE DEF gone
      <3> QED BY <1>4, <3>1, <3>2
    <2>2. \A c \in DOMAIN f.carets : /\ c = <<c[1], c[2]>>
                                     /\ c[1] \in DOMAIN f.windows /\ c[2] \in DOMAIN f.buffers
      <3> HIDE DEF gone
      <3> QED BY <1>2, <1>4 DEF ShownInv, WindowInv
    <2>3. f.placeholder # NoHandle => f.placeholder \in DOMAIN f.buffers
          BY <1>2 DEF ShownInv, WindowInv
    <2> QED BY <2>1, <2>2, <2>3 DEF ShownInv
  <1>10. SlotInv(f, surface)
    <2>1. /\ SlotInv(e, surface) /\ IsSlots(e.windowSlots)
          /\ \A w \in DOMAIN e.windows : Live(e.windowSlots, w) /\ w \in Handle
          BY DEF WindowInv, SlotInv, Live
    <2>2. /\ IsSlots(AllFreed(e.windowSlots, hs))
          /\ \A h : Live(e.windowSlots, h) /\ h \notin gone => Live(AllFreed(e.windowSlots, hs), h)
      <3>1. hs \in Seq(Handle) /\ \A i \in DOMAIN hs : Live(e.windowSlots, hs[i])
        <4>1. DOMAIN e.windows \subseteq Handle
              BY <2>1
        <4>2. \A i \in DOMAIN hs : hs[i] \in DOMAIN e.windows
              OBVIOUS
        <4> QED BY <2>1, <4>1, <4>2, SubsetSeq
      <3> QED BY <2>1, <3>1, HandlesFreed
    <2>3. gone \subseteq DOMAIN e.windows
          BY DEF ToSet
    <2> HIDE DEF gone
    <2> QED BY <1>2, <1>4, <2>1, <2>2, <2>3 DEF SlotInv
  <1> QED BY <1>1, <1>8, <1>9, <1>10 DEF WindowInv, f

\* A workbench goes, and leaves its windows.
LEMMA EraseWorkbenchWindows ==
  ASSUME NEW e, IsState(e), NEW surface, WindowInv(e, {}, surface),
         NEW k \in DOMAIN e.workbenches, NEW next \in DOMAIN e.workbenches \ {k}
  PROVE  /\ IsState(EraseWorkbench(e, k, next))
         /\ WindowInv(EraseWorkbench(e, k, next), ToSet(e.workbenches[k].layout), surface)
  <1> DEFINE f == EraseWorkbench(e, k, next)
             extra == ToSet(e.workbenches[k].layout)
  <1>1. IsState(f)
        BY DEF IsState, IsWorkbench, EditorFields, EraseWorkbench, Restrict
  <1>2. /\ f.active = next /\ f.buffers = e.buffers /\ f.placeholder = e.placeholder
        /\ f.windows = e.windows /\ f.carets = e.carets
        /\ DOMAIN f.workbenches = DOMAIN e.workbenches \ {k}
        /\ \A j \in DOMAIN f.workbenches : f.workbenches[j] = e.workbenches[j]
        /\ f.bufferSlots = e.bufferSlots /\ f.windowSlots = e.windowSlots
        /\ f.workbenchSlots = Freed(e.workbenchSlots, k)
        BY DEF IsState, EditorFields, EraseWorkbench, Restrict
  <1> HIDE DEF f
  <1>3. LayoutInv(e, {})
        BY DEF WindowInv
  <1>4. LayoutInv(f, extra)
    <2> HIDE DEF extra
    <2>1. \A j \in DOMAIN f.workbenches : LET wb == f.workbenches[j] IN
            /\ wb.layout \in Seq(DOMAIN f.windows) /\ IsInjective(wb.layout)
            /\ DOMAIN wb.walks = ToSet(wb.layout) /\ wb.active \in ToSet(wb.layout)
            /\ wb.recent \subseteq DOMAIN f.buffers
            /\ extra \cap ToSet(wb.layout) = {}
      <3> SUFFICES ASSUME NEW j \in DOMAIN e.workbenches \ {k}
                   PROVE  extra \cap ToSet(e.workbenches[j].layout) = {}
            BY <1>2, <1>3 DEF LayoutInv
      <3> QED BY <1>3 DEF LayoutInv, extra
    <2>2. \A j, l \in DOMAIN f.workbenches :
            j # l => ToSet(f.workbenches[j].layout) \cap ToSet(f.workbenches[l].layout) = {}
      <3>1. \A j, l \in DOMAIN e.workbenches :
              j # l => ToSet(e.workbenches[j].layout) \cap ToSet(e.workbenches[l].layout) = {}
            BY <1>3 DEF LayoutInv
      <3> QED BY <1>2, <3>1
    <2>3. \A w \in DOMAIN f.windows \ extra :
            \E j \in DOMAIN f.workbenches : w \in ToSet(f.workbenches[j].layout)
      <3> SUFFICES ASSUME NEW w \in DOMAIN e.windows \ extra
                   PROVE  \E j \in DOMAIN f.workbenches : w \in ToSet(f.workbenches[j].layout)
            BY <1>2
      <3>1. PICK j \in DOMAIN e.workbenches : w \in ToSet(e.workbenches[j].layout)
            BY <1>3 DEF LayoutInv
      <3>2. j # k
            BY <3>1 DEF extra
      <3> QED BY <1>2, <3>1, <3>2
    <2>4. extra \subseteq DOMAIN f.windows
          BY <1>2, <1>3 DEF LayoutInv, ToSet, extra
    <2> QED BY <1>2, <2>1, <2>2, <2>3, <2>4 DEF LayoutInv
  <1>5. ShownInv(f)
        BY <1>2 DEF ShownInv, WindowInv
  <1>6. SlotInv(f, surface)
    <2>1. SlotInv(e, surface) /\ Live(e.workbenchSlots, k)
          BY DEF WindowInv, SlotInv
    <2>2. /\ IsSlots(Freed(e.workbenchSlots, k))
          /\ \A g : Live(e.workbenchSlots, g) /\ g # k => Live(Freed(e.workbenchSlots, k), g)
          BY <2>1, HandleFreed DEF SlotInv
    <2> QED BY <1>2, <2>1, <2>2 DEF SlotInv
  <1> QED BY <1>1, <1>4, <1>5, <1>6 DEF WindowInv, f

\* A workbench is made for a window that is in no layout yet.
LEMMA AddWorkbenchWindows ==
  ASSUME NEW e, IsState(e), NEW surface, NEW w, NEW outside, outside = {w}, WindowInv(e, outside, surface),
         NEW b \in DOMAIN e.buffers
  PROVE  /\ IsState(AddWorkbench(e, w, b)) /\ WindowInv(AddWorkbench(e, w, b), {}, surface)
         /\ \A j : j \in DOMAIN AddWorkbench(e, w, b).workbenches
                     <=> j \in DOMAIN e.workbenches \/ j = NextHandle(e.workbenchSlots)
         /\ NextHandle(e.workbenchSlots) \notin DOMAIN e.workbenches
         /\ AddWorkbench(e, w, b).workbenches[NextHandle(e.workbenchSlots)] = NewWorkbench(w, b)
         /\ \A j \in DOMAIN e.workbenches : AddWorkbench(e, w, b).workbenches[j] = e.workbenches[j]
  <1> DEFINE f == AddWorkbench(e, w, b)
             k == NextHandle(e.workbenchSlots)
  <1>0. /\ IsSlots(Taken(e.workbenchSlots)) /\ Live(Taken(e.workbenchSlots), k)
        /\ ~Live(e.workbenchSlots, k)
        /\ \A h : Live(e.workbenchSlots, h) => Live(Taken(e.workbenchSlots), h)
        BY HandleTaken DEF WindowInv, SlotInv
  <1>1. SlotInv(e, surface) /\ k \notin DOMAIN e.workbenches
        BY <1>0 DEF WindowInv, SlotInv
  <1>2. /\ f.active = e.active /\ f.buffers = e.buffers /\ f.placeholder = e.placeholder
        /\ f.windows = e.windows /\ f.carets = e.carets
        /\ f.workbenches = Put(e.workbenches, k, NewWorkbench(w, b))
        /\ f.bufferSlots = e.bufferSlots /\ f.windowSlots = e.windowSlots
        /\ f.workbenchSlots = Taken(e.workbenchSlots) /\ DOMAIN f = EditorFields
        BY DEF IsState, EditorFields, AddWorkbench
  <1> HIDE DEF f
  <1>3. /\ DOMAIN f.workbenches = DOMAIN e.workbenches \cup {k}
        /\ f.workbenches[k] = NewWorkbench(w, b)
        /\ \A j \in DOMAIN e.workbenches : f.workbenches[j] = e.workbenches[j]
        BY <1>1, <1>2 DEF Put
  <1> DEFINE new == NewWorkbench(w, b)
  <1>4. /\ new.layout = <<w>> /\ new.active = w /\ new.recent = {b} /\ DOMAIN new.walks = {w}
        /\ IsWorkbench(new)
        BY DEF NewWorkbench, IsWorkbench, Put, EmptyGraph
  <1>5. ToSet(<<w>>) = {w} /\ IsInjective(<<w>>)
        BY DEF ToSet, IsInjective
  <1> HIDE DEF new, k
  <1>6. IsState(f)
        BY <1>2, <1>3, <1>4 DEF IsState, new
  <1>7. LayoutInv(e, {w})
        BY DEF WindowInv
  <1>8. LayoutInv(f, {})
    <2>1. \A j \in DOMAIN f.workbenches : LET wb == f.workbenches[j] IN
            /\ wb.layout \in Seq(DOMAIN f.windows) /\ IsInjective(wb.layout)
            /\ DOMAIN wb.walks = ToSet(wb.layout) /\ wb.active \in ToSet(wb.layout)
            /\ wb.recent \subseteq DOMAIN f.buffers
      <3> SUFFICES ASSUME NEW j \in DOMAIN f.workbenches
                   PROVE  LET wb == f.workbenches[j] IN
            /\ wb.layout \in Seq(DOMAIN f.windows) /\ IsInjective(wb.layout)
            /\ DOMAIN wb.walks = ToSet(wb.layout) /\ wb.active \in ToSet(wb.layout)
            /\ wb.recent \subseteq DOMAIN f.buffers
            OBVIOUS
      <3>1. CASE j = k
        <4>1. <<w>> \in Seq(DOMAIN f.windows)
          <5>1. w \in DOMAIN f.windows
                BY <1>2, <1>7 DEF LayoutInv
          <5>2. \A S : \A x \in S : <<x>> \in Seq(S)
                OBVIOUS
          <5> QED BY <5>1, <5>2
        <4>2. f.workbenches[j] = new
              BY <1>3, <3>1 DEF new
        <4> QED BY <1>2, <1>4, <1>5, <4>1, <4>2
      <3>2. CASE j # k
            BY <1>2, <1>3, <1>7, <3>2 DEF LayoutInv
      <3> QED BY <3>1, <3>2
    <2>2. ASSUME NEW j \in DOMAIN f.workbenches, NEW l \in DOMAIN f.workbenches, j # l
          PROVE  ToSet(f.workbenches[j].layout) \cap ToSet(f.workbenches[l].layout) = {}
      <3>1. ToSet(f.workbenches[k].layout) = {w}
            BY <1>3, <1>4, <1>5 DEF new
      <3>2. \A i \in DOMAIN e.workbenches : w \notin ToSet(f.workbenches[i].layout)
            BY <1>3, <1>7 DEF LayoutInv
      <3>3. CASE j # k /\ l # k
            BY <1>3, <1>7, <2>2, <3>3 DEF LayoutInv
      <3> QED BY <1>3, <2>2, <3>1, <3>2, <3>3
    <2>3. \A v \in DOMAIN f.windows \ {} :
            \E j \in DOMAIN f.workbenches : v \in ToSet(f.workbenches[j].layout)
      <3> SUFFICES ASSUME NEW v \in DOMAIN e.windows
                   PROVE  \E j \in DOMAIN f.workbenches : v \in ToSet(f.workbenches[j].layout)
            BY <1>2
      <3>1. CASE v = w
            BY <1>3, <1>4, <1>5, <3>1 DEF new
      <3>2. CASE v # w
        <4>1. PICK j \in DOMAIN e.workbenches : v \in ToSet(e.workbenches[j].layout)
              BY <1>7, <3>2 DEF LayoutInv
        <4> QED BY <1>3, <4>1
      <3> QED BY <3>1, <3>2
    <2>4. f.active \in DOMAIN f.workbenches /\ {} \subseteq DOMAIN f.windows
          BY <1>2, <1>3, <1>7 DEF LayoutInv
    <2> QED BY <2>1, <2>2, <2>3, <2>4 DEF LayoutInv
  <1>9. ShownInv(f)
        BY <1>2 DEF ShownInv, WindowInv
  <1>10. SlotInv(f, surface)
        BY <1>0, <1>1, <1>2, <1>3 DEF SlotInv
  <1> QED BY <1>1, <1>3, <1>6, <1>8, <1>9, <1>10 DEF WindowInv, f, k

\* A buffer is made, which no window shows yet.
LEMMA CreatedBufferIsNew ==
  ASSUME NEW e, NEW extra, NEW surface, WindowInv(e, extra, surface)
  PROVE  /\ CreatedBuffer(e) \notin DOMAIN e.buffers /\ CreatedBuffer(e) # NoHandle
         /\ \A s \in surface : s.buffer # CreatedBuffer(e)
         /\ ~Past(e.bufferSlots, CreatedBuffer(e))
  BY HandleTaken, NoHandleIsNone DEF WindowInv, SlotInv, CreatedBuffer, Live

\* The new buffer is like no other, and the rest stays as it was.
LEMMA AddBufferWindows ==
  ASSUME NEW e, IsState(e), NEW surface, WindowInv(e, {}, surface), NEW resource, NEW lines
  PROVE  /\ IsState(AddBuffer(e, resource, lines)) /\ WindowInv(AddBuffer(e, resource, lines), {}, surface)
         /\ DOMAIN AddBuffer(e, resource, lines).buffers = DOMAIN e.buffers \cup {CreatedBuffer(e)}
         /\ AddBuffer(e, resource, lines).buffers[CreatedBuffer(e)] = NewBuffer(resource, lines)
         /\ \A b \in DOMAIN e.buffers : AddBuffer(e, resource, lines).buffers[b] = e.buffers[b]
         /\ AddBuffer(e, resource, lines).workbenches = e.workbenches
         /\ AddBuffer(e, resource, lines).windows = e.windows
         /\ AddBuffer(e, resource, lines).carets = e.carets
         /\ AddBuffer(e, resource, lines).active = e.active
         /\ AddBuffer(e, resource, lines).saving = e.saving
         /\ AddBuffer(e, resource, lines).placeholder = e.placeholder
         /\ AddBuffer(e, resource, lines).bufferSlots = Taken(e.bufferSlots)
  <1> DEFINE f == AddBuffer(e, resource, lines)
             b == CreatedBuffer(e)
  <1>1. b \notin DOMAIN e.buffers /\ \A s \in surface : s.buffer # b
        BY CreatedBufferIsNew
  <1>2. /\ f.active = e.active /\ f.buffers = Put(e.buffers, b, NewBuffer(resource, lines))
        /\ f.placeholder = e.placeholder /\ f.saving = e.saving
        /\ f.windows = e.windows /\ f.carets = e.carets /\ f.workbenches = e.workbenches
        /\ f.bufferSlots = Taken(e.bufferSlots) /\ f.windowSlots = e.windowSlots
        /\ f.workbenchSlots = e.workbenchSlots /\ DOMAIN f = EditorFields
        BY DEF IsState, EditorFields, AddBuffer
  <1>3. /\ IsSlots(Taken(e.bufferSlots)) /\ Live(Taken(e.bufferSlots), b)
        /\ \A h : Live(e.bufferSlots, h) => Live(Taken(e.bufferSlots), h)
        BY HandleTaken DEF WindowInv, SlotInv, CreatedBuffer
  <1> HIDE DEF f, b
  <1>4. /\ DOMAIN f.buffers = DOMAIN e.buffers \cup {b} /\ f.buffers[b] = NewBuffer(resource, lines)
        /\ \A c \in DOMAIN e.buffers : f.buffers[c] = e.buffers[c]
        BY <1>1, <1>2 DEF Put
  <1>5. IsState(f)
    <2>1. DOMAIN NewBuffer(resource, lines) = {"resource", "lines", "saved", "anchors"}
          BY DEF NewBuffer
    <2> QED BY <1>2, <1>4, <2>1 DEF IsState
  <1>6. LayoutInv(f, {})
    <2>1. /\ LayoutInv(e, {}) /\ e.active \in DOMAIN e.workbenches
          /\ \A j \in DOMAIN e.workbenches :
                /\ e.workbenches[j].active \in ToSet(e.workbenches[j].layout)
                /\ e.workbenches[j].recent \subseteq DOMAIN e.buffers
          BY DEF LayoutInv, WindowInv
    <2>2. \A j \in DOMAIN e.workbenches : e.workbenches[j].recent \subseteq DOMAIN f.buffers
          BY <1>4, <2>1
    <2> QED BY <1>2, <2>1, <2>2, LayoutsStay
  <1>7. ShownInv(f)
        BY <1>2, <1>4 DEF ShownInv, WindowInv
  <1>8. SlotInv(f, surface)
        BY <1>1, <1>2, <1>3, <1>4 DEF SlotInv, WindowInv
  <1> QED BY <1>2, <1>4, <1>5, <1>6, <1>7, <1>8 DEF WindowInv, f, b

\* Windows turned to another buffer stay where they are.
LEMMA ShowInsteadWindows ==
  ASSUME NEW e, IsState(e), NEW surface, WindowInv(e, {}, surface),
         NEW showing, showing \subseteq DOMAIN e.windows, NEW b \in DOMAIN e.buffers
  PROVE  /\ IsState(ShowInstead(e, showing, b)) /\ WindowInv(ShowInstead(e, showing, b), {}, surface)
         /\ \A w \in DOMAIN e.windows :
               ShowInstead(e, showing, b).windows[w] = IF w \in showing THEN b ELSE e.windows[w]
         /\ DOMAIN ShowInstead(e, showing, b).windows = DOMAIN e.windows
         /\ DOMAIN ShowInstead(e, showing, b).workbenches = DOMAIN e.workbenches
         /\ \A k \in DOMAIN e.workbenches :
               ShowInstead(e, showing, b).workbenches[k].layout = e.workbenches[k].layout
  <1> DEFINE f == ShowInstead(e, showing, b)
  <1>1. IsState(f)
        BY DEF IsState, IsWorkbench, EditorFields, ShowInstead, Remember
  <1>2. /\ f.active = e.active /\ f.buffers = e.buffers /\ f.placeholder = e.placeholder
        /\ DOMAIN f.windows = DOMAIN e.windows
        /\ \A w \in DOMAIN e.windows : f.windows[w] = IF w \in showing THEN b ELSE e.windows[w]
        /\ DOMAIN f.workbenches = DOMAIN e.workbenches
        /\ f.bufferSlots = e.bufferSlots /\ f.windowSlots = e.windowSlots
        /\ f.workbenchSlots = e.workbenchSlots
        BY DEF IsState, EditorFields, ShowInstead
  <1>3. DOMAIN f.carets = DOMAIN e.carets \cup (showing \X {b})
        BY DEF IsState, EditorFields, ShowInstead
  <1>4. \A k \in DOMAIN e.workbenches :
            /\ f.workbenches[k].layout = e.workbenches[k].layout
            /\ f.workbenches[k].walks = e.workbenches[k].walks
            /\ f.workbenches[k].active = e.workbenches[k].active
            /\ f.workbenches[k].recent \subseteq e.workbenches[k].recent \cup {b}
    <2>1. \A k \in DOMAIN e.workbenches :
            f.workbenches[k] \in {e.workbenches[k], Remember(e.workbenches[k], b)}
          BY DEF IsState, EditorFields, ShowInstead
    <2> HIDE DEF f
    <2> QED BY <2>1 DEF IsState, IsWorkbench, Remember
  <1> HIDE DEF f
  <1>5. LayoutInv(f, {})
    <2>1. /\ LayoutInv(e, {}) /\ e.active \in DOMAIN e.workbenches
          /\ \A j \in DOMAIN e.workbenches :
                /\ e.workbenches[j].active \in ToSet(e.workbenches[j].layout)
                /\ e.workbenches[j].recent \subseteq DOMAIN e.buffers
          BY DEF LayoutInv, WindowInv
    <2>2. \A j \in DOMAIN e.workbenches : f.workbenches[j].recent \subseteq DOMAIN f.buffers
          BY <1>2, <1>4, <2>1
    <2> QED BY <1>2, <1>4, <2>1, <2>2, LayoutsStay
  <1>6. ShownInv(f)
    <2>1. \A w \in DOMAIN f.windows : <<w, f.windows[w]>> \in DOMAIN f.carets
          BY <1>2, <1>3 DEF ShownInv, WindowInv
    <2>2. \A c \in showing \X {b} : c = <<c[1], c[2]>> /\ c[1] \in showing /\ c[2] = b
          OBVIOUS
    <2>3. \A c \in DOMAIN f.carets : /\ c = <<c[1], c[2]>>
                                     /\ c[1] \in DOMAIN f.windows /\ c[2] \in DOMAIN f.buffers
          BY <1>2, <1>3, <2>2 DEF ShownInv, WindowInv
    <2> QED BY <1>2, <2>1, <2>3 DEF ShownInv, WindowInv
  <1>7. SlotInv(f, surface)
        BY <1>2 DEF SlotInv, WindowInv
  <1> QED BY <1>1, <1>2, <1>4, <1>5, <1>6, <1>7 DEF WindowInv, f

\* A buffer that no window shows goes.
LEMMA WithoutBufferWindows ==
  ASSUME NEW e, IsState(e), NEW surface, WindowInv(e, {}, surface), NEW b \in DOMAIN e.buffers,
         \A w \in DOMAIN e.windows : e.windows[w] # b
  PROVE  IsState(WithoutBuffer(e, b)) /\ WindowInv(WithoutBuffer(e, b), {}, surface)
  <1> DEFINE f == WithoutBuffer(e, b)
  <1>1. IsState(f)
    <2>1. DOMAIN f = EditorFields
          BY DEF IsState, EditorFields, WithoutBuffer
    <2>2. \A k \in DOMAIN f.workbenches : IsWorkbench(f.workbenches[k])
          BY DEF IsState, IsWorkbench, EditorFields, WithoutBuffer, Forget
    <2>3. \A c \in DOMAIN f.buffers : DOMAIN f.buffers[c] = {"resource", "lines", "saved", "anchors"}
          BY DEF IsState, EditorFields, WithoutBuffer, Restrict
    <2> QED BY <2>1, <2>2, <2>3 DEF IsState
  <1>2. /\ f.active = e.active /\ DOMAIN f.buffers = DOMAIN e.buffers \ {b}
        /\ f.placeholder = IF e.placeholder = b THEN NoHandle ELSE e.placeholder
        /\ f.windows = e.windows /\ DOMAIN f.carets = {c \in DOMAIN e.carets : c[2] # b}
        /\ DOMAIN f.workbenches = DOMAIN e.workbenches
        /\ f.bufferSlots = Freed(e.bufferSlots, b) /\ f.windowSlots = e.windowSlots
        /\ f.workbenchSlots = e.workbenchSlots
        BY DEF IsState, EditorFields, WithoutBuffer, Restrict
  <1>3. \A k \in DOMAIN e.workbenches :
            /\ f.workbenches[k].layout = e.workbenches[k].layout
            /\ f.workbenches[k].walks = e.workbenches[k].walks
            /\ f.workbenches[k].active = e.workbenches[k].active
            /\ f.workbenches[k].recent = e.workbenches[k].recent \ {b}
    <2>1. \A k \in DOMAIN e.workbenches : f.workbenches[k] = Forget(e.workbenches[k], b)
          BY DEF IsState, EditorFields, WithoutBuffer
    <2> HIDE DEF f
    <2> QED BY <2>1 DEF IsState, IsWorkbench, Forget
  <1> HIDE DEF f
  <1>4. LayoutInv(f, {})
    <2>1. /\ LayoutInv(e, {}) /\ e.active \in DOMAIN e.workbenches
          /\ \A j \in DOMAIN e.workbenches :
                /\ e.workbenches[j].active \in ToSet(e.workbenches[j].layout)
                /\ e.workbenches[j].recent \subseteq DOMAIN e.buffers
          BY DEF LayoutInv, WindowInv
    <2>2. \A j \in DOMAIN e.workbenches : f.workbenches[j].recent \subseteq DOMAIN f.buffers
          BY <1>2, <1>3, <2>1
    <2> QED BY <1>2, <1>3, <2>1, <2>2, LayoutsStay
  <1>5. ShownInv(f)
    <2>1. \A w \in DOMAIN f.windows : <<w, f.windows[w]>> \in DOMAIN f.carets
      <3> SUFFICES ASSUME NEW w \in DOMAIN e.windows
                   PROVE  <<w, e.windows[w]>> \in DOMAIN f.carets
            BY <1>2
      <3>1. <<w, e.windows[w]>> \in DOMAIN e.carets /\ <<w, e.windows[w]>>[2] # b
            BY DEF ShownInv, WindowInv
      <3> QED BY <1>2, <3>1
    <2>2. \A c \in DOMAIN f.carets : /\ c = <<c[1], c[2]>>
                                     /\ c[1] \in DOMAIN f.windows /\ c[2] \in DOMAIN f.buffers
          BY <1>2 DEF ShownInv, WindowInv
    <2> QED BY <1>2, <2>1, <2>2 DEF ShownInv, WindowInv
  <1>6. SlotInv(f, surface)
    <2>1. /\ SlotInv(e, surface) /\ Live(e.bufferSlots, b) /\ IsSlots(e.bufferSlots)
          /\ \A s \in surface : s.buffer # b
          BY DEF WindowInv, SlotInv
    <2>2. /\ IsSlots(Freed(e.bufferSlots, b))
          /\ \A g : Live(e.bufferSlots, g) /\ g # b => Live(Freed(e.bufferSlots, b), g)
          BY <2>1, HandleFreed
    <2> QED BY <1>2, <2>1, <2>2 DEF SlotInv
  <1> QED BY <1>1, <1>4, <1>5, <1>6 DEF WindowInv, f

-----------------------------------------------------------------------------
(* Jump graphs.                                                            *)

GraphFields == {"nodes", "order", "edges", "last"}

GraphInv(g) ==
    /\ g.last \in Nat /\ DOMAIN g.nodes \subseteq 1..g.last
    /\ g.order \in Seq(DOMAIN g.nodes) /\ ToSet(g.order) = DOMAIN g.nodes
    /\ \A edge \in g.edges : edge.from \in DOMAIN g.nodes /\ edge.to \in DOMAIN g.nodes

\* Nodes and edges of each workbench, and the walks through them.
JumpInv(e) == \A k \in DOMAIN e.workbenches : LET wb == e.workbenches[k] IN
    /\ GraphInv(wb.graph)
    /\ \A w \in DOMAIN wb.walks : IsWalk(wb.walks[w], DOMAIN wb.graph.nodes)

\* A walk stays in a graph that grows.
LEMMA WalkInMore ==
  ASSUME NEW S, NEW T, S \subseteq T, NEW walk, IsWalk(walk, S)
  PROVE  IsWalk(walk, T)
  <1>1. S \cup walk.lost \subseteq T \cup walk.lost
        OBVIOUS
  <1>2. walk.entries \in Seq(S \cup walk.lost)
        BY DEF IsWalk
  <1>3. walk.entries \in Seq(T \cup walk.lost)
        BY <1>1, <1>2, SubsetSeq
  <1> QED BY <1>3 DEF IsWalk

\* Numbers have a least one.
LEMMA LeastOf ==
  ASSUME NEW S, S \subseteq Nat, S # {}
  PROVE  \E n \in S : \A m \in S : n <= m
  <1> DEFINE R == OpToRel(<, Nat)
  <1>1. IsWellFoundedOn(R, Nat)
        BY NatLessThanWellFounded, Zenon
  <1>2. \A x, y \in Nat : y < x => <<y, x>> \in R
        BY DEF OpToRel
  <1> HIDE DEF R
  <1>3. \E x \in S : \A y \in S : ~(<<y, x>> \in R)
        BY <1>1, WFMin, Zenon
  <1>4. PICK x \in S : \A y \in S : ~(<<y, x>> \in R)
        BY <1>3
  <1>5. \A y \in S : ~(y < x) /\ x \in Nat /\ y \in Nat
        BY <1>2, <1>4
  <1>6. \A y \in S : x <= y
        BY <1>5
  <1> QED BY <1>6

\* A node moves to the end of the order.
LEMMA OrderTouched ==
  ASSUME NEW S, NEW s \in Seq(S), NEW n
  PROVE  /\ Append(Without(s, {n}), n) \in Seq(S \cup {n})
         /\ ToSet(Append(Without(s, {n}), n)) = ToSet(s) \cup {n}
  <1> DEFINE kept == Without(s, {n})
  <1>1. kept \in Seq(S \ {n}) /\ ToSet(kept) = ToSet(s) \ {n}
        BY WithoutErases
  <1> HIDE DEF kept
  <1>2. kept \in Seq(S \cup {n}) /\ n \in S \cup {n}
        BY <1>1, SubsetSeq
  <1>3. Append(kept, n) \in Seq(S \cup {n}) /\ ToSet(Append(kept, n)) = ToSet(kept) \cup {n}
        BY <1>2, Appended
  <1> QED BY <1>1, <1>3 DEF kept

\* A visit only moves a node in the order.
LEMMA TouchKeeps ==
  ASSUME NEW g, DOMAIN g = GraphFields, GraphInv(g), NEW n \in DOMAIN g.nodes
  PROVE  /\ DOMAIN Touch(g, n) = GraphFields /\ GraphInv(Touch(g, n))
         /\ Touch(g, n).nodes = g.nodes
  <1> DEFINE order == Append(Without(g.order, {n}), n)
  <1>1. order \in Seq(DOMAIN g.nodes \cup {n}) /\ ToSet(order) = ToSet(g.order) \cup {n}
        BY OrderTouched DEF GraphInv
  <1>2. Touch(g, n) = [g EXCEPT !.order = order]
        BY DEF Touch
  <1> HIDE DEF order
  <1>3. /\ DOMAIN Touch(g, n) = GraphFields /\ Touch(g, n).order = order
        /\ Touch(g, n).nodes = g.nodes /\ Touch(g, n).edges = g.edges /\ Touch(g, n).last = g.last
        BY <1>2 DEF GraphFields
  <1>4. DOMAIN g.nodes \cup {n} = DOMAIN g.nodes
        OBVIOUS
  <1> QED BY <1>1, <1>3, <1>4 DEF GraphInv

\* What intern() answers with is a node from then on, and the place if it has taken it.
LEMMA InternKeeps ==
  ASSUME NEW g, DOMAIN g = GraphFields, GraphInv(g), NEW place
  PROVE  LET n == InternedAs(g, place)  h == Intern(g, place) IN
         /\ DOMAIN h = GraphFields /\ GraphInv(h) /\ n \in Nat
         /\ DOMAIN h.nodes = DOMAIN g.nodes \cup {n}
         /\ \A m \in DOMAIN g.nodes : m # n => h.nodes[m] = g.nodes[m]
         /\ IF Retains(g, place) THEN h.nodes[n] = place /\ (n \in DOMAIN g.nodes => ~Attached(g.nodes[n]))
            ELSE n \in DOMAIN g.nodes /\ h.nodes[n] = g.nodes[n]
  <1> DEFINE n == InternedAs(g, place)
             h == Intern(g, place)
             nodes == IF Retains(g, place)
                      THEN [m \in DOMAIN g.nodes \cup {n} |-> IF m = n THEN place ELSE g.nodes[m]]
                      ELSE g.nodes
             last == IF n > g.last THEN n ELSE g.last
             order == Append(Without(g.order, {n}), n)
  <1>1. g.last \in Nat /\ DOMAIN g.nodes \subseteq 1..g.last
        BY DEF GraphInv
  <1>2. n \in DOMAIN g.nodes \/ n = g.last + 1
    <2>1. CASE Alike(g, place) = {}
          BY <2>1 DEF InternedAs
    <2>2. CASE Alike(g, place) # {}
      <3>1. Alike(g, place) \subseteq DOMAIN g.nodes /\ Alike(g, place) \subseteq Nat
            BY <1>1 DEF Alike
      <3>2. \E a \in Alike(g, place) : \A m \in Alike(g, place) : a <= m
            BY <2>2, <3>1, LeastOf
      <3>3. n \in Alike(g, place)
            BY <2>2, <3>2 DEF InternedAs
      <3> QED BY <3>1, <3>3
    <2> QED BY <2>1, <2>2
  <1>3. n \in Nat /\ n >= 1 /\ n <= g.last + 1
        BY <1>1, <1>2
  <1>4. h = [[g EXCEPT !.nodes = nodes, !.last = last] EXCEPT !.order = order]
        BY DEF Intern, Touch, GraphFields
  <1>5. Retains(g, place) <=> (n \in DOMAIN g.nodes => ~Attached(g.nodes[n]))
        BY DEF Retains
  <1> HIDE DEF h, n
  <1>6. DOMAIN nodes = DOMAIN g.nodes \cup {n}
        BY <1>5
  <1>7. /\ \A m \in DOMAIN g.nodes : m # n => nodes[m] = g.nodes[m]
        /\ IF Retains(g, place) THEN nodes[n] = place /\ (n \in DOMAIN g.nodes => ~Attached(g.nodes[n]))
           ELSE n \in DOMAIN g.nodes /\ nodes[n] = g.nodes[n]
        BY <1>5
  <1>8. last \in Nat /\ n \in 1..last /\ DOMAIN g.nodes \subseteq 1..last
        BY <1>1, <1>3
  <1>9. order \in Seq(DOMAIN g.nodes \cup {n}) /\ ToSet(order) = ToSet(g.order) \cup {n}
        BY OrderTouched DEF GraphInv
  <1> HIDE DEF nodes, last, order
  <1>10. /\ DOMAIN h = GraphFields /\ h.nodes = nodes /\ h.order = order /\ h.last = last
         /\ h.edges = g.edges
        BY <1>4 DEF GraphFields
  <1>11. GraphInv(h)
        BY <1>6, <1>8, <1>9, <1>10 DEF GraphInv
  <1> QED BY <1>3, <1>6, <1>7, <1>10, <1>11 DEF h, n

\* An edge is only made between nodes of the graph.
LEMMA LinkKeeps ==
  ASSUME NEW g, DOMAIN g = GraphFields, GraphInv(g), NEW from, NEW to, NEW persistent
  PROVE  /\ DOMAIN Link(g, from, to, persistent) = GraphFields /\ GraphInv(Link(g, from, to, persistent))
         /\ Link(g, from, to, persistent).nodes = g.nodes
  <1> DEFINE h == Link(g, from, to, persistent)
  <1>1. CASE ~({from, to} \subseteq DOMAIN g.nodes)
        BY <1>1 DEF Link
  <1>2. CASE from \in DOMAIN g.nodes /\ to \in DOMAIN g.nodes
    <2>1. PICK lasting : h = [g EXCEPT !.edges = {edge \in @ : edge.from # from \/ edge.to # to}
                                       \cup {[from |-> from, to |-> to, persistent |-> lasting]}]
          BY <1>2 DEF Link
    <2> HIDE DEF h
    <2>2. /\ DOMAIN h = GraphFields /\ h.nodes = g.nodes /\ h.order = g.order /\ h.last = g.last
          /\ h.edges = {edge \in g.edges : edge.from # from \/ edge.to # to}
                       \cup {[from |-> from, to |-> to, persistent |-> lasting]}
          BY <2>1 DEF GraphFields
    <2>3. \A edge \in h.edges : edge \in g.edges \/ (edge.from = from /\ edge.to = to)
          BY <2>2
    <2>4. GraphInv(h)
          BY <1>2, <2>2, <2>3 DEF GraphInv
    <2> QED BY <2>2, <2>4 DEF h
  <1> QED BY <1>1, <1>2

\* Those that must go are nodes.
LEMMA EvictedAreNodes ==
  ASSUME NEW g, GraphInv(g), NEW limit \in Nat
  PROVE  Evicted(g, limit) \subseteq DOMAIN g.nodes
  <1> DEFINE candidates == Without(g.order, Protected(g))
             excess == Cardinality(DOMAIN g.nodes) - limit
             count  == IF excess < Len(candidates) THEN excess ELSE Len(candidates)
  <1>1. candidates \in Seq(DOMAIN g.nodes \ Protected(g))
        BY WithoutErases DEF GraphInv
  <1>2. excess \in Int
    <2>1. DOMAIN g.nodes \subseteq 1..g.last /\ g.last \in Nat
          BY DEF GraphInv
    <2>2. IsFiniteSet(1..g.last)
          BY <2>1, FS_Interval
    <2>3. IsFiniteSet(DOMAIN g.nodes)
          BY <2>1, <2>2, FS_Subset
    <2>4. Cardinality(DOMAIN g.nodes) \in Nat
          BY <2>3, FS_CardinalityType
    <2> QED BY <2>4
  <1>3. Evicted(g, limit) = IF excess <= 0 THEN {} ELSE {candidates[i] : i \in 1..count}
        BY DEF Evicted
  <1> HIDE DEF candidates, excess
  <1>4. \A i \in 1..count : i \in 1..Len(candidates)
        BY <1>1, <1>2
  <1>5. \A i \in 1..count : candidates[i] \in DOMAIN g.nodes
        BY <1>1, <1>4
  <1> HIDE DEF count
  <1> QED BY <1>3, <1>5

\* Evicted nodes leave the nodes, the order and the edges at once.
LEMMA EvictKeeps ==
  ASSUME NEW g, DOMAIN g = GraphFields, GraphInv(g), NEW limit \in Nat
  PROVE  /\ DOMAIN Evict(g, limit) = GraphFields /\ GraphInv(Evict(g, limit))
         /\ DOMAIN Evict(g, limit).nodes = DOMAIN g.nodes \ Evicted(g, limit)
         /\ \A n \in DOMAIN g.nodes \ Evicted(g, limit) : Evict(g, limit).nodes[n] = g.nodes[n]
  <1> DEFINE h == Evict(g, limit)
             removed == Evicted(g, limit)
  <1>1. /\ DOMAIN h = GraphFields /\ h.nodes = Restrict(g.nodes, DOMAIN g.nodes \ removed)
        /\ h.order = Without(g.order, removed) /\ h.last = g.last
        /\ h.edges = {edge \in g.edges : {edge.from, edge.to} \cap removed = {}}
        BY DEF Evict, GraphFields
  <1> HIDE DEF h, removed
  <1>2. DOMAIN h.nodes = DOMAIN g.nodes \ removed /\ \A n \in DOMAIN h.nodes : h.nodes[n] = g.nodes[n]
        BY <1>1 DEF Restrict
  <1>3. /\ h.order \in Seq(DOMAIN g.nodes \ removed)
        /\ ToSet(h.order) = ToSet(g.order) \ removed
    <2>1. g.order \in Seq(DOMAIN g.nodes)
          BY DEF GraphInv
    <2>2. /\ Without(g.order, removed) \in Seq(DOMAIN g.nodes \ removed)
          /\ ToSet(Without(g.order, removed)) = ToSet(g.order) \ removed
          BY <2>1, WithoutErases
    <2> QED BY <1>1, <2>2
  <1>4. \A edge \in h.edges : edge.from \in DOMAIN h.nodes /\ edge.to \in DOMAIN h.nodes
        BY <1>1, <1>2 DEF GraphInv
  <1>5. GraphInv(h)
        BY <1>1, <1>2, <1>3, <1>4 DEF GraphInv
  <1> QED BY <1>1, <1>2, <1>5 DEF h, removed

\* Nothing is left of what a step does to graphs and walks but these.
LEMMA JumpsStay ==
  ASSUME NEW e, NEW f, JumpInv(e), SameJumps(e, f)
  PROVE  JumpInv(f)
  BY DEF JumpInv, SameJumps

\* A step on the graph of one workbench, whose nodes stay.
LEMMA GraphGrows ==
  ASSUME NEW e, NEW f, JumpInv(e), NEW k,
         DOMAIN f.workbenches = DOMAIN e.workbenches,
         \A j \in DOMAIN e.workbenches : f.workbenches[j].walks = e.workbenches[j].walks,
         \A j \in DOMAIN e.workbenches \ {k} : f.workbenches[j].graph = e.workbenches[j].graph,
         k \in DOMAIN e.workbenches =>
            /\ GraphInv(f.workbenches[k].graph)
            /\ DOMAIN e.workbenches[k].graph.nodes \subseteq DOMAIN f.workbenches[k].graph.nodes
  PROVE  JumpInv(f) /\ Grows(e, f)
  <1>1. \A j \in DOMAIN e.workbenches :
            /\ GraphInv(f.workbenches[j].graph)
            /\ DOMAIN e.workbenches[j].graph.nodes \subseteq DOMAIN f.workbenches[j].graph.nodes
        BY DEF JumpInv
  <1>2. ASSUME NEW j \in DOMAIN e.workbenches, NEW w \in DOMAIN f.workbenches[j].walks
        PROVE  IsWalk(f.workbenches[j].walks[w], DOMAIN f.workbenches[j].graph.nodes)
    <2>1. /\ f.workbenches[j].walks[w] = e.workbenches[j].walks[w]
          /\ IsWalk(e.workbenches[j].walks[w], DOMAIN e.workbenches[j].graph.nodes)
          BY <1>2 DEF JumpInv
    <2> QED BY <1>1, <2>1, WalkInMore
  <1> QED BY <1>1, <1>2 DEF JumpInv, Grows

-----------------------------------------------------------------------------
(* Places and anchors.                                                     *)

IsPlace(place) ==
    /\ DOMAIN place = {"buffer", "resource", "anchor", "line"}
    /\ place.resource \in Resources \cup {NoResource} /\ place.line \in Nat

Holds(e, p, b, a) == PlaceAt(e, p).buffer = b /\ PlaceAt(e, p).anchor = a

\* A place that is attached has an anchor, in a buffer that is open.
PlaceInv(e) == \A p \in Places(e) :
    /\ IsPlace(PlaceAt(e, p))
    /\ Attached(PlaceAt(e, p)) =>
        /\ PlaceAt(e, p).buffer \in DOMAIN e.buffers
        /\ PlaceAt(e, p).anchor \in DOMAIN e.buffers[PlaceAt(e, p).buffer].anchors

\* An anchor is held by one place.
OwnedInv(e) == \A b \in DOMAIN e.buffers : \A a \in DOMAIN e.buffers[b].anchors :
    /\ \E p \in Places(e) : Holds(e, p, b, a)
    /\ \A p, q \in Places(e) : Holds(e, p, b, a) /\ Holds(e, q, b, a) => p = q

\* An anchor is on a line.
RangeInv(e) == \A b \in DOMAIN e.buffers :
    /\ b # NoHandle /\ e.buffers[b].lines \in Nat \ {0}
    /\ e.buffers[b].resource \in Resources \cup {NoResource}
    /\ IsFiniteSet(DOMAIN e.buffers[b].anchors)
    /\ \A a \in DOMAIN e.buffers[b].anchors : e.buffers[b].anchors[a] \in 0..(e.buffers[b].lines - 1)

\* There are as many places as can be counted.
ListInv(e) ==
    /\ IsFiniteSet(DOMAIN e.workbenches)
    /\ \A k \in DOMAIN e.workbenches :
        e.workbenches[k].locations \in Seq(ToSet(e.workbenches[k].locations))

AnchorInv(e) == PlaceInv(e) /\ OwnedInv(e) /\ RangeInv(e) /\ ListInv(e)

\* A caret is on a line.
CaretInv(e) == \A c \in DOMAIN e.carets : e.carets[c] \in 0..(e.buffers[c[2]].lines - 1)

NodePlace(k, n) == <<k, "node", n>>
ItemPlace(k, i) == <<k, "item", i>>

\* A place is a node or an item of a workbench.
LEMMA PlacesAre ==
  ASSUME NEW e
  PROVE  /\ \A p : p \in Places(e) <=>
                \E k \in DOMAIN e.workbenches :
                    \/ \E n \in DOMAIN e.workbenches[k].graph.nodes : p = NodePlace(k, n)
                    \/ \E i \in DOMAIN e.workbenches[k].locations : p = ItemPlace(k, i)
         /\ \A k, n : PlaceAt(e, NodePlace(k, n)) = e.workbenches[k].graph.nodes[n]
         /\ \A k, i : PlaceAt(e, ItemPlace(k, i)) = e.workbenches[k].locations[i]
  <1>1. \A k, S, p : p \in ({k} \X {"node"} \X S) <=> \E n \in S : p = NodePlace(k, n)
        BY DEF NodePlace
  <1>2. \A k, S, p : p \in ({k} \X {"item"} \X S) <=> \E n \in S : p = ItemPlace(k, n)
        BY DEF ItemPlace
  <1>3. \A k, n : PlaceAt(e, NodePlace(k, n)) = e.workbenches[k].graph.nodes[n]
        BY DEF PlaceAt, NodePlace
  <1>4. \A k, i : PlaceAt(e, ItemPlace(k, i)) = e.workbenches[k].locations[i]
        BY DEF PlaceAt, ItemPlace
  <1>5. ASSUME NEW p
        PROVE  p \in Places(e) <=>
                \E k \in DOMAIN e.workbenches :
                    \/ p \in ({k} \X {"node"} \X DOMAIN e.workbenches[k].graph.nodes)
                    \/ p \in ({k} \X {"item"} \X DOMAIN e.workbenches[k].locations)
        BY DEF Places
  <1>6. ASSUME NEW p, NEW k
        PROVE  /\ p \in ({k} \X {"node"} \X DOMAIN e.workbenches[k].graph.nodes)
                    <=> \E n \in DOMAIN e.workbenches[k].graph.nodes : p = NodePlace(k, n)
               /\ p \in ({k} \X {"item"} \X DOMAIN e.workbenches[k].locations)
                    <=> \E i \in DOMAIN e.workbenches[k].locations : p = ItemPlace(k, i)
    <2> DEFINE N == DOMAIN e.workbenches[k].graph.nodes
               L == DOMAIN e.workbenches[k].locations
    <2>1. p \in ({k} \X {"node"} \X N) <=> \E n \in N : p = NodePlace(k, n)
      <3> HIDE DEF N
      <3> QED BY <1>1
    <2>2. p \in ({k} \X {"item"} \X L) <=> \E i \in L : p = ItemPlace(k, i)
      <3> HIDE DEF L
      <3> QED BY <1>2
    <2> QED BY <2>1, <2>2
  <1>7. ASSUME NEW p
        PROVE  p \in Places(e) <=>
                \E k \in DOMAIN e.workbenches :
                    \/ \E n \in DOMAIN e.workbenches[k].graph.nodes : p = NodePlace(k, n)
                    \/ \E i \in DOMAIN e.workbenches[k].locations : p = ItemPlace(k, i)
    <2>1. p \in Places(e) =>
                \E k \in DOMAIN e.workbenches :
                    \/ \E n \in DOMAIN e.workbenches[k].graph.nodes : p = NodePlace(k, n)
                    \/ \E i \in DOMAIN e.workbenches[k].locations : p = ItemPlace(k, i)
          BY <1>5, <1>6
    <2>2. ASSUME NEW k \in DOMAIN e.workbenches,
                    \/ \E n \in DOMAIN e.workbenches[k].graph.nodes : p = NodePlace(k, n)
                    \/ \E i \in DOMAIN e.workbenches[k].locations : p = ItemPlace(k, i)
          PROVE  p \in Places(e)
          BY <1>5, <1>6, <2>2
    <2> QED BY <2>1, <2>2
  <1> QED BY <1>3, <1>4, <1>7

\* No two names are of the same place.
LEMMA PlaceParts ==
  ASSUME NEW k, NEW n, NEW l, NEW m
  PROVE  /\ NodePlace(k, n) = NodePlace(l, m) => k = l /\ n = m
         /\ ItemPlace(k, n) = ItemPlace(l, m) => k = l /\ n = m
         /\ NodePlace(k, n) # ItemPlace(l, m)
         /\ NodePlace(k, n)[1] = k /\ ItemPlace(k, n)[1] = k
         /\ NodePlace(k, n)[2] = "node" /\ ItemPlace(k, n)[2] = "item"
  BY DEF NodePlace, ItemPlace

\* Places are those of the graphs and of the location lists alone.
LEMMA PlacesStay ==
  ASSUME NEW e, NEW f, SamePlaces(e, f)
  PROVE  Places(f) = Places(e) /\ \A p \in Places(e) : PlaceAt(f, p) = PlaceAt(e, p)
  <1>1. \A p : p \in Places(f) <=> p \in Places(e)
        BY PlacesAre DEF SamePlaces
  <1>2. ASSUME NEW p \in Places(e)
        PROVE  PlaceAt(f, p) = PlaceAt(e, p)
    <2>1. PICK k \in DOMAIN e.workbenches :
                    \/ \E n \in DOMAIN e.workbenches[k].graph.nodes : p = NodePlace(k, n)
                    \/ \E i \in DOMAIN e.workbenches[k].locations : p = ItemPlace(k, i)
          BY PlacesAre
    <2> QED BY <2>1, PlacesAre DEF SamePlaces
  <1> QED BY <1>1, <1>2

\* What touches no place, no anchor and no text keeps what is said of them.
LEMMA AnchorsStay ==
  ASSUME NEW e, NEW f, AnchorInv(e), SamePlaces(e, f)
  PROVE  AnchorInv(f)
  <1>1. Places(f) = Places(e) /\ \A p \in Places(e) : PlaceAt(f, p) = PlaceAt(e, p)
        BY PlacesStay
  <1>2. PlaceInv(f)
        BY <1>1 DEF AnchorInv, PlaceInv, SamePlaces
  <1>3. OwnedInv(f)
        BY <1>1 DEF AnchorInv, OwnedInv, SamePlaces, Holds
  <1>4. RangeInv(f)
        BY DEF AnchorInv, RangeInv, SamePlaces
  <1>5. ListInv(f)
        BY DEF AnchorInv, ListInv, SamePlaces
  <1> QED BY <1>2, <1>3, <1>4, <1>5 DEF AnchorInv

\* Some places, new or detached, are given anchors of their own.
LEMMA PlacesAttach ==
  ASSUME NEW e, NEW f, AnchorInv(e), NEW places,
         Places(f) = Places(e) \cup places,
         \A p \in Places(e) \ places : PlaceAt(f, p) = PlaceAt(e, p),
         \A p \in places :
            /\ IsPlace(PlaceAt(f, p)) /\ PlaceAt(f, p).buffer \in DOMAIN e.buffers
            /\ PlaceAt(f, p).anchor \notin DOMAIN e.buffers[PlaceAt(f, p).buffer].anchors,
         \A p \in places \cap Places(e) : ~Attached(PlaceAt(e, p)),
         \A p, q \in places : PlaceAt(f, p).anchor = PlaceAt(f, q).anchor => p = q,
         DOMAIN f.buffers = DOMAIN e.buffers,
         \A b \in DOMAIN e.buffers :
            \A a : a \in DOMAIN f.buffers[b].anchors <=>
                     a \in DOMAIN e.buffers[b].anchors \/ \E p \in places : Holds(f, p, b, a),
         RangeInv(f), ListInv(f)
  PROVE  AnchorInv(f)
  <1>1. PlaceInv(f)
    <2> SUFFICES ASSUME NEW p \in Places(f)
                 PROVE  /\ IsPlace(PlaceAt(f, p))
                        /\ Attached(PlaceAt(f, p)) =>
                             /\ PlaceAt(f, p).buffer \in DOMAIN f.buffers
                             /\ PlaceAt(f, p).anchor \in DOMAIN f.buffers[PlaceAt(f, p).buffer].anchors
          BY DEF PlaceInv
    <2>1. CASE p \in places
          BY <2>1 DEF Holds
    <2>2. CASE p \notin places
          BY <2>2 DEF AnchorInv, PlaceInv
    <2> QED BY <2>1, <2>2
  <1>2. OwnedInv(f)
    <2> SUFFICES ASSUME NEW b \in DOMAIN e.buffers, NEW a \in DOMAIN f.buffers[b].anchors
                 PROVE  /\ \E p \in Places(f) : Holds(f, p, b, a)
                        /\ \A p, q \in Places(f) : Holds(f, p, b, a) /\ Holds(f, q, b, a) => p = q
          BY DEF OwnedInv
    <2>0. b # NoHandle
          BY DEF AnchorInv, RangeInv
    <2>1. \A p \in Places(e) \ places : Holds(f, p, b, a) => /\ Holds(e, p, b, a)
                                                             /\ a \in DOMAIN e.buffers[b].anchors
          BY <2>0 DEF AnchorInv, PlaceInv, Holds, Attached
    <2>2. \A p \in places : Holds(f, p, b, a) => a \notin DOMAIN e.buffers[b].anchors
          BY DEF Holds
    <2>3. CASE a \in DOMAIN e.buffers[b].anchors
      <3>1. PICK p \in Places(e) : Holds(e, p, b, a)
            BY <2>3 DEF AnchorInv, OwnedInv
      <3>2. p \notin places
            BY <2>0, <3>1 DEF Holds, Attached
      <3>3. Holds(f, p, b, a)
            BY <3>1, <3>2 DEF Holds
      <3>4. \A q \in Places(f) : Holds(f, q, b, a) => q = p
            BY <2>1, <2>2, <2>3, <3>1 DEF AnchorInv, OwnedInv
      <3> QED BY <3>3, <3>4
    <2>4. CASE a \notin DOMAIN e.buffers[b].anchors
      <3>1. PICK p \in places : Holds(f, p, b, a)
            BY <2>4
      <3>2. \A q \in Places(f) : Holds(f, q, b, a) => q \in places
            BY <2>1, <2>4
      <3> QED BY <3>1, <3>2 DEF Holds
    <2> QED BY <2>3, <2>4
  <1> QED BY <1>1, <1>2 DEF AnchorInv

\* Some places go, with their anchors.
LEMMA PlacesGo ==
  ASSUME NEW e, NEW f, AnchorInv(e), NEW gone, gone \subseteq Places(e),
         Places(f) = Places(e) \ gone,
         \A p \in Places(f) : PlaceAt(f, p) = PlaceAt(e, p),
         DOMAIN f.buffers = DOMAIN e.buffers,
         \A b \in DOMAIN e.buffers :
            /\ f.buffers[b].lines = e.buffers[b].lines
            /\ f.buffers[b].resource = e.buffers[b].resource
            /\ \A a : a \in DOMAIN f.buffers[b].anchors <=>
                        /\ a \in DOMAIN e.buffers[b].anchors
                        /\ \A p \in gone : ~Holds(e, p, b, a)
            /\ \A a \in DOMAIN f.buffers[b].anchors :
                 f.buffers[b].anchors[a] = e.buffers[b].anchors[a],
         ListInv(f)
  PROVE  AnchorInv(f)
  <1>1. PlaceInv(f)
    <2> SUFFICES ASSUME NEW p \in Places(f), Attached(PlaceAt(e, p))
                 PROVE  /\ PlaceAt(e, p).buffer \in DOMAIN f.buffers
                        /\ PlaceAt(e, p).anchor \in DOMAIN f.buffers[PlaceAt(e, p).buffer].anchors
          BY DEF PlaceInv, AnchorInv
    <2> DEFINE b == PlaceAt(e, p).buffer
               a == PlaceAt(e, p).anchor
    <2>1. b \in DOMAIN e.buffers /\ a \in DOMAIN e.buffers[b].anchors /\ Holds(e, p, b, a)
          BY DEF AnchorInv, PlaceInv, Holds
    <2> HIDE DEF a, b
    <2>2. \A q \in gone : ~Holds(e, q, b, a)
          BY <2>1 DEF AnchorInv, OwnedInv
    <2>3. b \in DOMAIN f.buffers /\ a \in DOMAIN f.buffers[b].anchors
          BY <2>1, <2>2
    <2> QED BY <2>3 DEF a, b
  <1>2. OwnedInv(f)
    <2> SUFFICES ASSUME NEW b \in DOMAIN e.buffers, NEW a \in DOMAIN f.buffers[b].anchors
                 PROVE  /\ \E p \in Places(f) : Holds(f, p, b, a)
                        /\ \A p, q \in Places(f) : Holds(f, p, b, a) /\ Holds(f, q, b, a) => p = q
          BY DEF OwnedInv
    <2>1. a \in DOMAIN e.buffers[b].anchors /\ \A p \in gone : ~Holds(e, p, b, a)
          OBVIOUS
    <2>2. \A p \in Places(f) : Holds(f, p, b, a) <=> Holds(e, p, b, a)
          BY DEF Holds
    <2>3. PICK p \in Places(e) : Holds(e, p, b, a)
          BY <2>1 DEF AnchorInv, OwnedInv
    <2>4. p \in Places(f)
          BY <2>1, <2>3
    <2>5. \A q \in Places(e) : Holds(e, q, b, a) => q = p
          BY <2>1, <2>3 DEF AnchorInv, OwnedInv
    <2> QED BY <2>2, <2>3, <2>4, <2>5
  <1>3. RangeInv(f)
    <2> SUFFICES ASSUME NEW b \in DOMAIN e.buffers
                 PROVE  IsFiniteSet(DOMAIN f.buffers[b].anchors)
          BY DEF AnchorInv, RangeInv
    <2>1. IsFiniteSet(DOMAIN e.buffers[b].anchors)
          BY DEF AnchorInv, RangeInv
    <2>2. DOMAIN f.buffers[b].anchors \subseteq DOMAIN e.buffers[b].anchors
          OBVIOUS
    <2> QED BY <2>1, <2>2, FS_Subset
  <1> QED BY <1>1, <1>2, <1>3 DEF AnchorInv

\* A buffer closes: the places in it are detached, and the others stay.
LEMMA BufferGoes ==
  ASSUME NEW e, NEW f, AnchorInv(e), NEW b \in DOMAIN e.buffers,
         Places(f) = Places(e),
         \A p \in Places(e) :
            IF PlaceAt(e, p).buffer = b THEN IsPlace(PlaceAt(f, p)) /\ ~Attached(PlaceAt(f, p))
            ELSE PlaceAt(f, p) = PlaceAt(e, p),
         DOMAIN f.buffers = DOMAIN e.buffers \ {b},
         \A c \in DOMAIN f.buffers : /\ f.buffers[c].lines = e.buffers[c].lines
                                     /\ f.buffers[c].resource = e.buffers[c].resource
                                     /\ f.buffers[c].anchors = e.buffers[c].anchors,
         ListInv(f)
  PROVE  AnchorInv(f)
  <1>1. PlaceInv(f)
        BY DEF AnchorInv, PlaceInv
  <1>2. OwnedInv(f)
    <2> SUFFICES ASSUME NEW c \in DOMAIN f.buffers, NEW a \in DOMAIN e.buffers[c].anchors
                 PROVE  /\ \E p \in Places(f) : Holds(f, p, c, a)
                        /\ \A p, q \in Places(f) : Holds(f, p, c, a) /\ Holds(f, q, c, a) => p = q
          BY DEF OwnedInv
    <2>1. c \in DOMAIN e.buffers /\ c # b /\ c # NoHandle
          BY DEF AnchorInv, RangeInv
    <2>2. \A p \in Places(e) : Holds(f, p, c, a) <=> Holds(e, p, c, a)
          BY <2>1 DEF Holds, Attached
    <2> QED BY <2>1, <2>2 DEF AnchorInv, OwnedInv
  <1>3. RangeInv(f)
        BY DEF AnchorInv, RangeInv
  <1> QED BY <1>1, <1>2, <1>3 DEF AnchorInv

-----------------------------------------------------------------------------
(* The methods of the editor, one by one.                                  *)

EditorInv(e, surface) ==
    IsState(e) /\ WindowInv(e, {}, surface) /\ JumpInv(e) /\ AnchorInv(e) /\ CaretInv(e)

\* Carets that stay in texts of the same length are on a line.
LEMMA CaretsStay ==
  ASSUME NEW e, NEW f, CaretInv(e), ShownInv(e), f.carets = e.carets,
         \A b \in DOMAIN e.buffers : f.buffers[b].lines = e.buffers[b].lines
  PROVE  CaretInv(f)
  BY DEF CaretInv, ShownInv

\* Another graph with the same nodes.
LEMMA GraphChanges ==
  ASSUME NEW e, NEW surface, EditorInv(e, surface), NEW k \in DOMAIN e.workbenches,
         NEW g, DOMAIN g = GraphFields, GraphInv(g), g.nodes = e.workbenches[k].graph.nodes
  PROVE  LET f == [e EXCEPT !.workbenches[k].graph = g] IN
         EditorInv(f, surface) /\ SameWindows(e, f) /\ Keeps(e, f) /\ Grows(e, f)
  <1> DEFINE f == [e EXCEPT !.workbenches[k].graph = g]
  <1>1. IsState(e) /\ WindowInv(e, {}, surface) /\ JumpInv(e) /\ AnchorInv(e) /\ CaretInv(e) /\ ShownInv(e)
        BY DEF EditorInv, WindowInv
  <1>2. IsState(f)
        BY <1>1 DEF IsState, IsWorkbench, EditorFields, GraphFields
  <1>3. SameWindows(e, f)
        BY <1>1 DEF IsState, IsWorkbench, EditorFields, SameWindows
  <1>4. Keeps(e, f)
        BY <1>1 DEF IsState, IsWorkbench, EditorFields, Keeps
  <1>5. SamePlaces(e, f)
        BY <1>1 DEF IsState, IsWorkbench, EditorFields, SamePlaces
  <1>6. /\ DOMAIN f.workbenches = DOMAIN e.workbenches
        /\ \A j \in DOMAIN e.workbenches : f.workbenches[j].walks = e.workbenches[j].walks
        /\ \A j \in DOMAIN e.workbenches \ {k} : f.workbenches[j].graph = e.workbenches[j].graph
        /\ f.workbenches[k].graph = g
        BY <1>1 DEF IsState, IsWorkbench, EditorFields
  <1>7. f.carets = e.carets /\ f.buffers = e.buffers
        BY <1>1 DEF IsState, EditorFields
  <1> HIDE DEF f
  <1>8. JumpInv(f) /\ Grows(e, f)
        BY <1>1, <1>6, GraphGrows
  <1>9. AnchorInv(f) /\ WindowInv(f, {}, surface)
        BY <1>1, <1>3, <1>5, AnchorsStay, WindowsStay
  <1>10. CaretInv(f)
        BY <1>1, <1>7, CaretsStay
  <1> QED BY <1>2, <1>3, <1>4, <1>8, <1>9, <1>10 DEF EditorInv, f

\* RecordJump: of a node of the graph.
LEMMA RecordJumpKeeps ==
  ASSUME NEW e, NEW surface, EditorInv(e, surface), NEW k \in DOMAIN e.workbenches, NEW w,
         NEW n \in DOMAIN e.workbenches[k].graph.nodes
  PROVE  LET f == RecordJump(e, k, w, n) IN
         EditorInv(f, surface) /\ SameWindows(e, f) /\ Keeps(e, f) /\ Grows(e, f)
  <1> DEFINE f == RecordJump(e, k, w, n)
  <1>1. IsState(e) /\ WindowInv(e, {}, surface) /\ JumpInv(e) /\ AnchorInv(e) /\ CaretInv(e) /\ ShownInv(e)
        BY DEF EditorInv, WindowInv
  <1>2. IsState(f)
        BY <1>1 DEF IsState, IsWorkbench, EditorFields, RecordJump
  <1>3. SameWindows(e, f)
        BY <1>1 DEF IsState, IsWorkbench, EditorFields, SameWindows, RecordJump
  <1>4. Keeps(e, f)
        BY <1>1 DEF IsState, IsWorkbench, EditorFields, Keeps, RecordJump
  <1>5. SamePlaces(e, f)
        BY <1>1 DEF IsState, IsWorkbench, EditorFields, SamePlaces, RecordJump
  <1>6. /\ DOMAIN f.workbenches = DOMAIN e.workbenches
        /\ \A j \in DOMAIN e.workbenches : /\ f.workbenches[j].graph = e.workbenches[j].graph
                                           /\ DOMAIN f.workbenches[j].walks = DOMAIN e.workbenches[j].walks
        /\ \A j \in DOMAIN e.workbenches \ {k} : f.workbenches[j].walks = e.workbenches[j].walks
        /\ \A v \in DOMAIN e.workbenches[k].walks :
              f.workbenches[k].walks[v] = IF v = w THEN Record(e.workbenches[k].walks[w], n)
                                          ELSE e.workbenches[k].walks[v]
        BY <1>1 DEF IsState, IsWorkbench, EditorFields, RecordJump
  <1>7. f.carets = e.carets /\ f.buffers = e.buffers
        BY <1>1 DEF IsState, EditorFields, RecordJump
  <1> HIDE DEF f
  <1>8. JumpInv(f)
    <2>1. ASSUME NEW j \in DOMAIN e.workbenches, NEW v \in DOMAIN e.workbenches[j].walks
          PROVE  IsWalk(f.workbenches[j].walks[v], DOMAIN e.workbenches[j].graph.nodes)
      <3>1. IsWalk(e.workbenches[j].walks[v], DOMAIN e.workbenches[j].graph.nodes)
            BY <1>1 DEF JumpInv
      <3>2. CASE j = k /\ v = w
            BY <1>6, <3>1, <3>2, WalkRecords
      <3>3. CASE ~(j = k /\ v = w)
            BY <1>6, <3>1, <3>3
      <3> QED BY <3>2, <3>3
    <2> QED BY <1>1, <1>6, <2>1 DEF JumpInv
  <1>9. AnchorInv(f) /\ WindowInv(f, {}, surface)
        BY <1>1, <1>3, <1>5, AnchorsStay, WindowsStay
  <1>10. CaretInv(f)
        BY <1>1, <1>7, CaretsStay
  <1>11. Grows(e, f)
        BY <1>6 DEF Grows
  <1> QED BY <1>2, <1>3, <1>4, <1>8, <1>9, <1>10, <1>11 DEF EditorInv, f

\* There is always an anchor to be had.
LEMMA NewAnchorIsNew ==
  ASSUME NEW e, NEW b, IsFiniteSet(DOMAIN e.buffers[b].anchors)
  PROVE  NewAnchor(e, b) \notin DOMAIN e.buffers[b].anchors
  <1> DEFINE S == DOMAIN e.buffers[b].anchors
             T == 1..(Cardinality(S) + 1)
  <1>1. Cardinality(S) \in Nat
        BY FS_CardinalityType
  <1>2. Cardinality(T) = Cardinality(S) + 1
        BY <1>1, FS_Interval
  <1>3. \E a \in T : a \notin S
    <2> SUFFICES ASSUME T \subseteq S
                 PROVE  FALSE
          OBVIOUS
    <2>1. Cardinality(T) <= Cardinality(S)
          BY FS_Subset
    <2> HIDE DEF T, S
    <2> QED BY <1>1, <1>2, <2>1
  <1>4. NewAnchor(e, b) = CHOOSE a \in T : a \notin S
        BY DEF NewAnchor
  <1> HIDE DEF T, S
  <1>5. NewAnchor(e, b) \notin S
        BY <1>3, <1>4
  <1> QED BY <1>5 DEF S

\* Capture: the anchor is on the line of the caret, and held by the node if it is kept at all.
LEMMA CaptureKeeps ==
  ASSUME NEW e, NEW surface, EditorInv(e, surface), NEW k \in DOMAIN e.workbenches,
         NEW w \in DOMAIN e.windows
  PROVE  LET f == Capture(e, k, w) IN
         /\ EditorInv(f, surface) /\ SameWindows(e, f) /\ Keeps(e, f) /\ Grows(e, f)
         /\ Captured(e, k, w) \in DOMAIN f.workbenches[k].graph.nodes
  <1> DEFINE f == Capture(e, k, w)
             b == e.windows[w]
             place == CapturedPlace(e, w)
             g == e.workbenches[k].graph
             n == InternedAs(g, place)
             h == Intern(g, place)
  <1>1. IsState(e) /\ WindowInv(e, {}, surface) /\ JumpInv(e) /\ AnchorInv(e) /\ CaretInv(e) /\ ShownInv(e)
        BY DEF EditorInv, WindowInv
  <1>2. b \in DOMAIN e.buffers /\ <<w, b>> \in DOMAIN e.carets
        BY <1>1 DEF ShownInv
  <1>3. /\ IsPlace(place) /\ place.buffer = b /\ place.anchor \notin DOMAIN e.buffers[b].anchors
        /\ place.line \in 0..(e.buffers[b].lines - 1)
    <2>1. e.carets[<<w, b>>] \in 0..(e.buffers[b].lines - 1)
      <3>1. <<w, b>>[2] = b
            OBVIOUS
      <3> HIDE DEF b
      <3> QED BY <1>1, <1>2, <3>1 DEF CaretInv
    <2>2. /\ IsFiniteSet(DOMAIN e.buffers[b].anchors) /\ e.buffers[b].lines \in Nat
          /\ e.buffers[b].resource \in Resources \cup {NoResource}
          BY <1>1, <1>2 DEF AnchorInv, RangeInv
    <2>3. NewAnchor(e, b) \notin DOMAIN e.buffers[b].anchors
          BY <2>2, NewAnchorIsNew
    <2>4. place = Place(b, e.buffers[b].resource, NewAnchor(e, b), e.carets[<<w, b>>])
          BY DEF CapturedPlace
    <2> HIDE DEF place, b
    <2>5. /\ DOMAIN place = {"buffer", "resource", "anchor", "line"} /\ place.buffer = b
          /\ place.anchor = NewAnchor(e, b) /\ place.line = e.carets[<<w, b>>]
          /\ place.resource = e.buffers[b].resource
          BY <2>4 DEF Place
    <2> QED BY <2>1, <2>2, <2>3, <2>5 DEF IsPlace
  <1>4. DOMAIN g = GraphFields /\ GraphInv(g)
        BY <1>1 DEF IsState, IsWorkbench, JumpInv, GraphFields
  <1>5. /\ DOMAIN h = GraphFields /\ GraphInv(h)
        /\ DOMAIN h.nodes = DOMAIN g.nodes \cup {n}
        /\ \A m \in DOMAIN g.nodes : m # n => h.nodes[m] = g.nodes[m]
        /\ IF Retains(g, place) THEN h.nodes[n] = place /\ (n \in DOMAIN g.nodes => ~Attached(g.nodes[n]))
           ELSE n \in DOMAIN g.nodes /\ h.nodes[n] = g.nodes[n]
    <2> HIDE DEF g, place
    <2> QED BY <1>4, InternKeeps
  <1>6. f = [e EXCEPT !.workbenches[k].graph = h,
                      !.buffers[place.buffer].anchors =
                          IF Retains(g, place) THEN Put(@, place.anchor, place.line) ELSE @]
        BY DEF Capture
  <1>6a. Captured(e, k, w) = n
        BY DEF Captured
  <1> HIDE DEF f, place, h, n, g
  <1>7. IsState(f)
        BY <1>1, <1>5, <1>6 DEF IsState, IsWorkbench, EditorFields, GraphFields
  <1>8. SameWindows(e, f)
        BY <1>1, <1>6 DEF IsState, IsWorkbench, EditorFields, SameWindows
  <1>9. Keeps(e, f)
        BY <1>1, <1>6 DEF IsState, IsWorkbench, EditorFields, Keeps
  <1>10. /\ f.workbenches[k].graph = h
         /\ \A j \in DOMAIN e.workbenches : /\ f.workbenches[j].walks = e.workbenches[j].walks
                                            /\ f.workbenches[j].locations = e.workbenches[j].locations
         /\ \A j \in DOMAIN e.workbenches \ {k} : f.workbenches[j].graph = e.workbenches[j].graph
         /\ DOMAIN f.workbenches = DOMAIN e.workbenches
        BY <1>1, <1>6 DEF IsState, IsWorkbench, EditorFields
  <1>11. /\ DOMAIN f.buffers = DOMAIN e.buffers /\ f.carets = e.carets
         /\ \A c \in DOMAIN e.buffers : /\ f.buffers[c].lines = e.buffers[c].lines
                                         /\ f.buffers[c].resource = e.buffers[c].resource
         /\ \A c \in DOMAIN e.buffers \ {b} : f.buffers[c].anchors = e.buffers[c].anchors
         /\ f.buffers[b].anchors = IF Retains(g, place)
                                   THEN Put(e.buffers[b].anchors, place.anchor, place.line)
                                   ELSE e.buffers[b].anchors
        BY <1>1, <1>2, <1>3, <1>6 DEF IsState, EditorFields
  <1> HIDE DEF b
  <1>12. JumpInv(f) /\ Grows(e, f)
    <2>1. DOMAIN g.nodes \subseteq DOMAIN h.nodes
          BY <1>5
    <2> QED BY <1>1, <1>5, <1>10, <2>1, GraphGrows DEF g
  <1>13. WindowInv(f, {}, surface)
        BY <1>1, <1>8, WindowsStay
  <1>14. CaretInv(f)
        BY <1>1, <1>11, CaretsStay
  <1>15. AnchorInv(f)
    <2>1. CASE ~Retains(g, place)
      <3>1. h.nodes = g.nodes
        <4>1. GraphInv(h) /\ DOMAIN h.nodes = DOMAIN g.nodes
              BY <1>5, <2>1
        <4>2. h = Intern(g, place) /\ h.nodes = g.nodes
              BY <1>4, <2>1 DEF h, Intern, Touch, GraphFields
        <4> QED BY <4>2
      <3>2. SamePlaces(e, f)
            BY <1>10, <1>11, <2>1, <3>1 DEF SamePlaces, g
      <3> QED BY <1>1, <3>2, AnchorsStay
    <2>2. CASE Retains(g, place)
      <3> DEFINE p == NodePlace(k, n)
      <3>1. Places(f) = Places(e) \cup {p}
        <4>1. ASSUME NEW q \in Places(f)
              PROVE  q \in Places(e) \cup {p}
          <5>1. PICK j \in DOMAIN e.workbenches :
                    \/ \E m \in DOMAIN f.workbenches[j].graph.nodes : q = NodePlace(j, m)
                    \/ \E i \in DOMAIN f.workbenches[j].locations : q = ItemPlace(j, i)
                BY <1>10, PlacesAre
          <5>2. CASE \E i \in DOMAIN f.workbenches[j].locations : q = ItemPlace(j, i)
                BY <1>10, <5>2, PlacesAre
          <5>3. CASE \E m \in DOMAIN f.workbenches[j].graph.nodes : q = NodePlace(j, m)
            <6>1. PICK m \in DOMAIN f.workbenches[j].graph.nodes : q = NodePlace(j, m)
                  BY <5>3
            <6>2. m \in DOMAIN e.workbenches[j].graph.nodes \/ (j = k /\ m = n)
                  BY <1>5, <1>10, <6>1 DEF g
            <6> QED BY <6>1, <6>2, PlacesAre
          <5> QED BY <5>1, <5>2, <5>3
        <4>2. p \in Places(f)
              BY <1>5, <1>10, PlacesAre
        <4>3. ASSUME NEW q \in Places(e)
              PROVE  q \in Places(f)
          <5>1. PICK j \in DOMAIN e.workbenches :
                    \/ \E m \in DOMAIN e.workbenches[j].graph.nodes : q = NodePlace(j, m)
                    \/ \E i \in DOMAIN e.workbenches[j].locations : q = ItemPlace(j, i)
                BY PlacesAre
          <5>2. DOMAIN e.workbenches[j].graph.nodes \subseteq DOMAIN f.workbenches[j].graph.nodes
                BY <1>12 DEF Grows
          <5> QED BY <1>10, <5>1, <5>2, PlacesAre
        <4> QED BY <4>1, <4>2, <4>3
      <3>2. PlaceAt(f, p) = place
            BY <1>5, <1>10, <2>2, PlacesAre
      <3>3. ASSUME NEW q \in Places(e) \ {p}
            PROVE  PlaceAt(f, q) = PlaceAt(e, q)
        <4>1. PICK j \in DOMAIN e.workbenches :
                    \/ \E m \in DOMAIN e.workbenches[j].graph.nodes : q = NodePlace(j, m)
                    \/ \E i \in DOMAIN e.workbenches[j].locations : q = ItemPlace(j, i)
              BY PlacesAre
        <4>2. CASE \E i \in DOMAIN e.workbenches[j].locations : q = ItemPlace(j, i)
              BY <1>10, <4>2, PlacesAre
        <4>3. CASE \E m \in DOMAIN e.workbenches[j].graph.nodes : q = NodePlace(j, m)
          <5>1. PICK m \in DOMAIN e.workbenches[j].graph.nodes : q = NodePlace(j, m)
                BY <4>3
          <5>2. f.workbenches[j].graph.nodes[m] = e.workbenches[j].graph.nodes[m]
                BY <1>5, <1>10, <5>1 DEF g
          <5> QED BY <5>1, <5>2, PlacesAre
        <4> QED BY <4>1, <4>2, <4>3
      <3>4. p \in Places(e) => ~Attached(PlaceAt(e, p))
        <4>1. ASSUME p \in Places(e)
              PROVE  n \in DOMAIN g.nodes /\ PlaceAt(e, p) = g.nodes[n]
          <5>1. PICK j \in DOMAIN e.workbenches :
                    \/ \E m \in DOMAIN e.workbenches[j].graph.nodes : p = NodePlace(j, m)
                    \/ \E i \in DOMAIN e.workbenches[j].locations : p = ItemPlace(j, i)
                BY <4>1, PlacesAre
          <5>2. \A i : p # ItemPlace(j, i)
                BY PlaceParts
          <5>3. PICK m \in DOMAIN e.workbenches[j].graph.nodes : NodePlace(k, n) = NodePlace(j, m)
                BY <5>1, <5>2
          <5>4. k = j /\ n = m
                BY <5>3, PlaceParts
          <5> QED BY <5>3, <5>4, PlacesAre DEF g
        <4> QED BY <1>5, <2>2, <4>1
      <3> HIDE DEF p
      <3>5. ASSUME NEW c \in DOMAIN e.buffers, NEW a
            PROVE  a \in DOMAIN f.buffers[c].anchors <=>
                        a \in DOMAIN e.buffers[c].anchors \/ \E q \in {p} : Holds(f, q, c, a)
        <4>1. Holds(f, p, c, a) <=> c = b /\ a = place.anchor
              BY <1>3, <3>2 DEF Holds
        <4>2. CASE c = b
          <5>1. DOMAIN f.buffers[c].anchors = DOMAIN e.buffers[c].anchors \cup {place.anchor}
                BY <1>11, <2>2, <4>2 DEF Put
          <5> QED BY <4>1, <4>2, <5>1
        <4>3. CASE c # b
              BY <1>11, <4>1, <4>3
        <4> QED BY <4>2, <4>3
      <3>6. RangeInv(f)
        <4> SUFFICES ASSUME NEW c \in DOMAIN e.buffers
                     PROVE  /\ c # NoHandle /\ f.buffers[c].lines \in Nat \ {0}
                            /\ f.buffers[c].resource \in Resources \cup {NoResource}
                            /\ IsFiniteSet(DOMAIN f.buffers[c].anchors)
                            /\ \A a \in DOMAIN f.buffers[c].anchors :
                                  f.buffers[c].anchors[a] \in 0..(f.buffers[c].lines - 1)
              BY <1>11 DEF RangeInv
        <4>1. /\ c # NoHandle /\ e.buffers[c].lines \in Nat \ {0}
              /\ e.buffers[c].resource \in Resources \cup {NoResource}
              /\ IsFiniteSet(DOMAIN e.buffers[c].anchors)
              /\ \A a \in DOMAIN e.buffers[c].anchors :
                    e.buffers[c].anchors[a] \in 0..(e.buffers[c].lines - 1)
              BY <1>1 DEF AnchorInv, RangeInv
        <4>2. CASE c # b
              BY <1>11, <4>1, <4>2
        <4>3. CASE c = b
          <5>1. /\ DOMAIN f.buffers[c].anchors = DOMAIN e.buffers[c].anchors \cup {place.anchor}
                /\ \A a \in DOMAIN f.buffers[c].anchors : f.buffers[c].anchors[a] =
                       IF a = place.anchor THEN place.line ELSE e.buffers[c].anchors[a]
                BY <1>11, <2>2, <4>3 DEF Put
          <5>2. IsFiniteSet(DOMAIN f.buffers[c].anchors)
                BY <4>1, <5>1, FS_AddElement
          <5>3. f.buffers[c].lines = e.buffers[c].lines /\ f.buffers[c].resource = e.buffers[c].resource
                BY <1>11
          <5> QED BY <1>3, <4>1, <4>3, <5>1, <5>2, <5>3
        <4> QED BY <4>2, <4>3
      <3>7. ListInv(f)
            BY <1>1, <1>10 DEF AnchorInv, ListInv
      <3> DEFINE ps == {p}
      <3>8. \A q \in ps : /\ IsPlace(PlaceAt(f, q)) /\ PlaceAt(f, q).buffer \in DOMAIN e.buffers
                          /\ PlaceAt(f, q).anchor \notin DOMAIN e.buffers[PlaceAt(f, q).buffer].anchors
            BY <1>2, <1>3, <3>2
      <3>9. \A q \in ps \cap Places(e) : ~Attached(PlaceAt(e, q))
            BY <3>4
      <3>10. AnchorInv(e) /\ DOMAIN f.buffers = DOMAIN e.buffers
            BY <1>1, <1>11
      <3>11. \A q, r \in ps : PlaceAt(f, q).anchor = PlaceAt(f, r).anchor => q = r
            OBVIOUS
      <3>12. \A c \in DOMAIN e.buffers : \A a :
                 a \in DOMAIN f.buffers[c].anchors <=>
                    a \in DOMAIN e.buffers[c].anchors \/ \E q \in ps : Holds(f, q, c, a)
            BY <3>5
      <3>13. \A q \in Places(e) \ ps : PlaceAt(f, q) = PlaceAt(e, q)
            BY <3>3
      <3>14. Places(f) = Places(e) \cup ps
            BY <3>1
      <3> HIDE DEF ps
      <3> QED BY <3>14, <3>6, <3>7, <3>8, <3>9, <3>10, <3>11, <3>12, <3>13, PlacesAttach
    <2> QED BY <2>1, <2>2
  <1>16. Captured(e, k, w) \in DOMAIN f.workbenches[k].graph.nodes
        BY <1>5, <1>6a, <1>10
  <1> QED BY <1>7, <1>8, <1>9, <1>12, <1>13, <1>14, <1>15, <1>16 DEF EditorInv, f

\* What a step on windows has to leave alone.
LEMMA EditorStays ==
  ASSUME NEW e, NEW f, NEW surface, EditorInv(e, surface),
         IsState(f), WindowInv(f, {}, surface), SameJumps(e, f), SamePlaces(e, f), CaretInv(f)
  PROVE  EditorInv(f, surface) /\ Grows(e, f)
  <1>1. JumpInv(f)
        BY JumpsStay DEF EditorInv
  <1>2. AnchorInv(f)
        BY AnchorsStay DEF EditorInv
  <1>3. Grows(e, f)
        BY DEF Grows, SameJumps
  <1> QED BY <1>1, <1>2, <1>3 DEF EditorInv

\* ShowBuffer: a new view starts on the first line.
LEMMA ShowBufferKeeps ==
  ASSUME NEW e, NEW surface, EditorInv(e, surface),
         NEW w \in DOMAIN e.windows, NEW b \in DOMAIN e.buffers
  PROVE  LET f == ShowBuffer(e, w, b) IN
         /\ EditorInv(f, surface) /\ Keeps(e, f) /\ Grows(e, f) /\ SamePlaces(e, f) /\ f.windows[w] = b
         /\ \A k \in DOMAIN e.workbenches : f.workbenches[k].layout = e.workbenches[k].layout
  <1> DEFINE f == ShowBuffer(e, w, b)
  <1>1. IsState(e) /\ WindowInv(e, {}, surface) /\ CaretInv(e) /\ AnchorInv(e)
        BY DEF EditorInv
  <1>2. IsState(f) /\ WindowInv(f, {}, surface)
        BY <1>1, ShowBufferWindows
  <1>3. Keeps(e, f)
        BY <1>1 DEF IsState, IsWorkbench, EditorFields, ShowBuffer, Keeps
  <1>4. SameJumps(e, f)
        BY <1>1 DEF IsState, IsWorkbench, EditorFields, ShowBuffer, SameJumps
  <1>5. SamePlaces(e, f)
        BY <1>1 DEF IsState, IsWorkbench, EditorFields, ShowBuffer, SamePlaces
  <1>6. /\ f.buffers = e.buffers /\ f.windows[w] = b
        /\ f.carets = IF <<w, b>> \in DOMAIN e.carets THEN e.carets ELSE Put(e.carets, <<w, b>>, 0)
        BY <1>1 DEF IsState, EditorFields, ShowBuffer
  <1>7. \A k \in DOMAIN e.workbenches : f.workbenches[k].layout = e.workbenches[k].layout
        BY <1>1 DEF IsState, IsWorkbench, EditorFields, ShowBuffer
  <1> HIDE DEF f
  <1>8. CaretInv(f)
    <2>1. e.buffers[b].lines \in Nat \ {0}
          BY <1>1 DEF AnchorInv, RangeInv
    <2>2. <<w, b>>[2] = b
          OBVIOUS
    <2> QED BY <1>1, <1>6, <2>1, <2>2 DEF CaretInv, Put
  <1>9. EditorInv(f, surface) /\ Grows(e, f)
        BY <1>2, <1>4, <1>5, <1>8, EditorStays
  <1> QED BY <1>3, <1>5, <1>6, <1>7, <1>9 DEF f

\* FocusWindow: of a window of the layout.
LEMMA FocusWindowKeeps ==
  ASSUME NEW e, NEW surface, EditorInv(e, surface),
         NEW k \in DOMAIN e.workbenches, NEW w \in ToSet(e.workbenches[k].layout)
  PROVE  LET f == FocusWindow(e, k, w) IN
         /\ EditorInv(f, surface) /\ Keeps(e, f) /\ Grows(e, f) /\ SamePlaces(e, f)
         /\ f.windows = e.windows /\ f.workbenches[k].active = w
         /\ \A j \in DOMAIN e.workbenches : f.workbenches[j].layout = e.workbenches[j].layout
  <1> DEFINE f == FocusWindow(e, k, w)
  <1>1. IsState(e) /\ WindowInv(e, {}, surface) /\ CaretInv(e) /\ ShownInv(e)
        BY DEF EditorInv, WindowInv
  <1>2. IsState(f) /\ WindowInv(f, {}, surface)
        BY <1>1, FocusWindowWindows
  <1>3. Keeps(e, f)
        BY <1>1 DEF IsState, IsWorkbench, EditorFields, FocusWindow, Keeps
  <1>4. SameJumps(e, f)
        BY <1>1 DEF IsState, IsWorkbench, EditorFields, FocusWindow, SameJumps
  <1>5. SamePlaces(e, f)
        BY <1>1 DEF IsState, IsWorkbench, EditorFields, FocusWindow, SamePlaces
  <1>6. f.buffers = e.buffers /\ f.carets = e.carets /\ f.windows = e.windows
        BY <1>1 DEF IsState, EditorFields, FocusWindow
  <1>7. /\ \A j \in DOMAIN e.workbenches : f.workbenches[j].layout = e.workbenches[j].layout
        /\ f.workbenches[k].active = w
        BY <1>1 DEF IsState, IsWorkbench, EditorFields, FocusWindow
  <1> HIDE DEF f
  <1>8. CaretInv(f)
        BY <1>1, <1>6, CaretsStay
  <1>9. EditorInv(f, surface) /\ Grows(e, f)
        BY <1>2, <1>4, <1>5, <1>8, EditorStays
  <1> QED BY <1>3, <1>5, <1>6, <1>7, <1>9 DEF f

\* MoveCaret: to the last line at most.
LEMMA MoveCaretKeeps ==
  ASSUME NEW e, NEW surface, EditorInv(e, surface), NEW w \in DOMAIN e.windows, NEW line \in Nat
  PROVE  LET f == MoveCaret(e, w, line) IN
         EditorInv(f, surface) /\ Keeps(e, f) /\ Grows(e, f) /\ SamePlaces(e, f) /\ SameWindows(e, f)
  <1> DEFINE f == MoveCaret(e, w, line)
             b == e.windows[w]
  <1>1. IsState(e) /\ WindowInv(e, {}, surface) /\ CaretInv(e) /\ ShownInv(e) /\ AnchorInv(e)
        BY DEF EditorInv, WindowInv
  <1>2. IsState(f) /\ WindowInv(f, {}, surface)
        BY <1>1, MoveCaretWindows
  <1>3. Keeps(e, f)
        BY <1>1 DEF IsState, IsWorkbench, EditorFields, MoveCaret, Keeps
  <1>4. SameJumps(e, f)
        BY <1>1 DEF IsState, IsWorkbench, EditorFields, MoveCaret, SameJumps
  <1>5. SamePlaces(e, f)
        BY <1>1 DEF IsState, IsWorkbench, EditorFields, MoveCaret, SamePlaces
  <1>6. SameWindows(e, f)
        BY <1>1 DEF IsState, IsWorkbench, EditorFields, MoveCaret, SameWindows
  <1>7. /\ f.buffers = e.buffers
        /\ f.carets = [e.carets EXCEPT ![<<w, b>>] = Least(line, e.buffers[b].lines - 1)]
        BY <1>1 DEF IsState, EditorFields, MoveCaret
  <1>8. b \in DOMAIN e.buffers /\ e.buffers[b].lines \in Nat \ {0}
        BY <1>1 DEF ShownInv, AnchorInv, RangeInv
  <1>9. <<w, b>>[2] = b
        OBVIOUS
  <1> HIDE DEF f, b
  <1>10. Least(line, e.buffers[b].lines - 1) \in 0..(e.buffers[b].lines - 1)
        BY <1>8 DEF Least
  <1>11. CaretInv(f)
        BY <1>1, <1>7, <1>9, <1>10 DEF CaretInv
  <1>12. EditorInv(f, surface) /\ Grows(e, f)
        BY <1>2, <1>4, <1>5, <1>11, EditorStays
  <1> QED BY <1>3, <1>5, <1>6, <1>12 DEF f

\* A window split from another, and shown in the layout after it.
LEMMA SplitKeeps ==
  ASSUME NEW e, NEW surface, EditorInv(e, surface), NEW k \in DOMAIN e.workbenches,
         NEW target \in ToSet(e.workbenches[k].layout), NEW b \in DOMAIN e.buffers,
         NEW line \in 0..(e.buffers[b].lines - 1)
  PROVE  LET w == CreatedWindow(e)  f == SplitLayout(CreateWindow(e, b, line), k, target, w) IN
         /\ EditorInv(f, surface) /\ Keeps(e, f) /\ Grows(e, f) /\ w \in DOMAIN f.windows
         /\ w \in ToSet(f.workbenches[k].layout)
  <1> DEFINE w == CreatedWindow(e)
             c == CreateWindow(e, b, line)
             f == SplitLayout(c, k, target, w)
  <1>1. IsState(e) /\ WindowInv(e, {}, surface) /\ CaretInv(e) /\ JumpInv(e) /\ AnchorInv(e) /\ LayoutInv(e, {})
        BY DEF EditorInv, WindowInv
  <1>2. /\ DOMAIN c = EditorFields /\ c.buffers = e.buffers /\ c.workbenches = e.workbenches
        /\ c.carets = Put(e.carets, <<w, b>>, line) /\ c.saving = e.saving /\ c.active = e.active
        /\ c.bufferSlots = e.bufferSlots /\ c.placeholder = e.placeholder
        /\ DOMAIN c.windows = DOMAIN e.windows \cup {w}
        BY <1>1 DEF IsState, EditorFields, CreateWindow, Put
  <1>3. IsState(c) /\ WindowInv(c, {w}, surface)
        BY <1>1, CreateWindowWindows
  <1> DEFINE outside == {w}
  <1>3a. WindowInv(c, outside, surface) /\ outside = {w}
        BY <1>3
  <1>4. w \notin DOMAIN e.windows
        BY <1>1, CreatedWindowIsNew
  <1> HIDE DEF c, w, outside
  <1>5. /\ IsState(f) /\ WindowInv(f, {}, surface)
        /\ w \in ToSet(f.workbenches[k].layout)
        /\ \A v \in ToSet(c.workbenches[k].layout) : v \in ToSet(f.workbenches[k].layout)
    <2>1. k \in DOMAIN c.workbenches /\ target \in ToSet(c.workbenches[k].layout)
          BY <1>2
    <2> QED BY <1>3, <1>3a, <2>1, SplitLayoutWindows
  <1>6. /\ f.buffers = c.buffers /\ f.carets = c.carets /\ f.saving = c.saving /\ f.active = c.active
        /\ f.bufferSlots = c.bufferSlots /\ f.placeholder = c.placeholder /\ f.windows = c.windows
        /\ DOMAIN f.workbenches = DOMAIN c.workbenches
        /\ \A j \in DOMAIN c.workbenches :
            /\ f.workbenches[j].graph = c.workbenches[j].graph
            /\ f.workbenches[j].locations = c.workbenches[j].locations
            /\ j # k => /\ f.workbenches[j].walks = c.workbenches[j].walks
                        /\ f.workbenches[j].layout = c.workbenches[j].layout
        /\ f.workbenches[k].walks = Put(c.workbenches[k].walks, w, NoWalk)
        BY <1>2, <1>3 DEF IsState, IsWorkbench, EditorFields, SplitLayout
  <1> HIDE DEF f
  <1>7. Keeps(e, f)
        BY <1>2, <1>5, <1>6 DEF Keeps
  <1>8. SamePlaces(e, f)
        BY <1>2, <1>6 DEF SamePlaces
  <1>9. JumpInv(f)
    <2>1. ASSUME NEW j \in DOMAIN e.workbenches, NEW v \in DOMAIN f.workbenches[j].walks
          PROVE  IsWalk(f.workbenches[j].walks[v], DOMAIN e.workbenches[j].graph.nodes)
      <3>1. CASE j = k /\ v = w
            BY <1>2, <1>6, <3>1, NoWalkIsWalk DEF Put
      <3>2. CASE ~(j = k /\ v = w)
            BY <1>1, <1>2, <1>6, <3>2 DEF Put, JumpInv
      <3> QED BY <3>1, <3>2
    <2> QED BY <1>1, <1>2, <1>6, <2>1 DEF JumpInv
  <1>10. AnchorInv(f) /\ Grows(e, f)
        BY <1>1, <1>2, <1>6, <1>8, AnchorsStay DEF Grows
  <1>11. CaretInv(f)
    <2>1. <<w, b>>[2] = b
          OBVIOUS
    <2> QED BY <1>1, <1>2, <1>6, <2>1 DEF CaretInv, Put
  <1>12. w \in DOMAIN f.windows /\ w \in ToSet(f.workbenches[k].layout)
        BY <1>2, <1>3a, <1>5, <1>6
  <1> QED BY <1>5, <1>7, <1>9, <1>10, <1>11, <1>12 DEF EditorInv, f, c, w

\* Exactly the anchors of some places are removed, and nothing else.
LEMMA DropAnchorsDrops ==
  ASSUME NEW e, IsState(e), NEW places
  PROVE  LET d == DropAnchors(e, places) IN
         /\ IsState(d) /\ DOMAIN d = EditorFields
         /\ d.workbenches = e.workbenches /\ d.windows = e.windows /\ d.carets = e.carets
         /\ d.active = e.active /\ d.placeholder = e.placeholder /\ d.saving = e.saving
         /\ d.origins = e.origins
         /\ d.bufferSlots = e.bufferSlots /\ d.windowSlots = e.windowSlots
         /\ d.workbenchSlots = e.workbenchSlots /\ DOMAIN d.buffers = DOMAIN e.buffers
         /\ \A b \in DOMAIN e.buffers :
            /\ d.buffers[b].lines = e.buffers[b].lines
            /\ d.buffers[b].resource = e.buffers[b].resource
            /\ d.buffers[b].saved = e.buffers[b].saved
            /\ \A a : a \in DOMAIN d.buffers[b].anchors <=>
                        /\ a \in DOMAIN e.buffers[b].anchors
                        /\ \A i \in DOMAIN places : ~(places[i].buffer = b /\ places[i].anchor = a)
            /\ \A a \in DOMAIN d.buffers[b].anchors : d.buffers[b].anchors[a] = e.buffers[b].anchors[a]
  <1> DEFINE d == DropAnchors(e, places)
             held(b) == {places[i].anchor : i \in {j \in DOMAIN places : places[j].buffer = b}}
             left(b) == DOMAIN e.buffers[b].anchors \ held(b)
             kept(b) == Restrict(e.buffers[b].anchors, left(b))
  <1>1. /\ DOMAIN d = EditorFields
        /\ d.workbenches = e.workbenches /\ d.windows = e.windows /\ d.carets = e.carets
        /\ d.active = e.active /\ d.placeholder = e.placeholder /\ d.saving = e.saving
        /\ d.origins = e.origins
        /\ d.bufferSlots = e.bufferSlots /\ d.windowSlots = e.windowSlots
        /\ d.workbenchSlots = e.workbenchSlots
        /\ d.buffers = [b \in DOMAIN e.buffers |-> WithAnchors(e.buffers[b], kept(b))]
        BY DEF IsState, EditorFields, DropAnchors
  <1> HIDE DEF d
  <1>2. ASSUME NEW b \in DOMAIN e.buffers
        PROVE  /\ DOMAIN d.buffers[b] = {"resource", "lines", "saved", "anchors"}
               /\ d.buffers[b].lines = e.buffers[b].lines
               /\ d.buffers[b].resource = e.buffers[b].resource
               /\ d.buffers[b].saved = e.buffers[b].saved
               /\ \A a : a \in DOMAIN d.buffers[b].anchors <=>
                        /\ a \in DOMAIN e.buffers[b].anchors
                        /\ \A i \in DOMAIN places : ~(places[i].buffer = b /\ places[i].anchor = a)
               /\ \A a \in DOMAIN d.buffers[b].anchors : d.buffers[b].anchors[a] = e.buffers[b].anchors[a]
    <2>1. DOMAIN e.buffers[b] = {"resource", "lines", "saved", "anchors"}
          BY DEF IsState
    <2>2. d.buffers[b] = WithAnchors(e.buffers[b], kept(b))
          BY <1>1
    <2>3. \A a : a \in held(b) <=> \E i \in DOMAIN places : places[i].buffer = b /\ places[i].anchor = a
          OBVIOUS
    <2>4. DOMAIN kept(b) = left(b) /\ \A a \in left(b) : kept(b)[a] = e.buffers[b].anchors[a]
          BY DEF Restrict
    <2> HIDE DEF kept, held
    <2>5. /\ DOMAIN d.buffers[b] = {"resource", "lines", "saved", "anchors"}
          /\ d.buffers[b].lines = e.buffers[b].lines
          /\ d.buffers[b].resource = e.buffers[b].resource
          /\ d.buffers[b].saved = e.buffers[b].saved
          /\ d.buffers[b].anchors = kept(b)
          BY <2>1, <2>2 DEF WithAnchors
    <2> QED BY <2>3, <2>4, <2>5
  <1>3. DOMAIN d.buffers = DOMAIN e.buffers
        BY <1>1
  <1>4. IsState(d)
        BY <1>1, <1>2, <1>3 DEF IsState
  <1> QED BY <1>1, <1>2, <1>3, <1>4 DEF d

\* EvictJumps: nodes go with their anchors and with the entries of every walk.
LEMMA EvictJumpsKeeps ==
  ASSUME NEW e, NEW surface, EditorInv(e, surface), NEW k \in DOMAIN e.workbenches
  PROVE  LET f == EvictJumps(e, k) IN EditorInv(f, surface) /\ SameWindows(e, f) /\ Keeps(e, f)
  <1> DEFINE f == EvictJumps(e, k)
             g == e.workbenches[k].graph
             removed == Evicted(g, JumpLimit)
             places == Restrict(g.nodes, removed)
             d == DropAnchors(e, places)
             h == Evict(g, JumpLimit)
  <1>1. IsState(e) /\ WindowInv(e, {}, surface) /\ JumpInv(e) /\ AnchorInv(e) /\ CaretInv(e) /\ ShownInv(e)
        BY DEF EditorInv, WindowInv
  <1>2. DOMAIN g = GraphFields /\ GraphInv(g) /\ JumpLimit \in Nat
        BY <1>1, EditorAssumption DEF IsState, IsWorkbench, JumpInv, GraphFields
  <1>3. /\ removed \subseteq DOMAIN g.nodes
        /\ DOMAIN h = GraphFields /\ GraphInv(h) /\ DOMAIN h.nodes = DOMAIN g.nodes \ removed
        /\ \A n \in DOMAIN g.nodes \ removed : h.nodes[n] = g.nodes[n]
    <2> HIDE DEF g
    <2> QED BY <1>2, EvictedAreNodes, EvictKeeps
  <1>4. /\ DOMAIN places = removed \cap DOMAIN g.nodes \/ DOMAIN places = removed
        /\ \A n \in removed : places[n] = g.nodes[n]
        BY DEF Restrict
  <1>5. f = [d EXCEPT !.workbenches[k].graph = h,
                      !.workbenches[k].walks = [w \in DOMAIN @ |-> WalkWithout(@[w], removed)]]
        BY DEF EvictJumps
  <1> HIDE DEF places, removed, h, f, g
  <1>6. /\ IsState(d) /\ DOMAIN d = EditorFields
        /\ d.workbenches = e.workbenches /\ d.windows = e.windows /\ d.carets = e.carets
        /\ d.active = e.active /\ d.placeholder = e.placeholder /\ d.saving = e.saving
        /\ d.bufferSlots = e.bufferSlots /\ d.windowSlots = e.windowSlots
        /\ d.workbenchSlots = e.workbenchSlots /\ DOMAIN d.buffers = DOMAIN e.buffers
        /\ \A b \in DOMAIN e.buffers :
            /\ d.buffers[b].lines = e.buffers[b].lines
            /\ d.buffers[b].resource = e.buffers[b].resource
            /\ d.buffers[b].saved = e.buffers[b].saved
            /\ \A a : a \in DOMAIN d.buffers[b].anchors <=>
                        /\ a \in DOMAIN e.buffers[b].anchors
                        /\ \A i \in DOMAIN places : ~(places[i].buffer = b /\ places[i].anchor = a)
            /\ \A a \in DOMAIN d.buffers[b].anchors : d.buffers[b].anchors[a] = e.buffers[b].anchors[a]
        BY <1>1, DropAnchorsDrops
  <1> HIDE DEF d
  <1>7. /\ DOMAIN f = EditorFields /\ f.buffers = d.buffers /\ f.windows = e.windows /\ f.carets = e.carets
        /\ f.active = e.active /\ f.placeholder = e.placeholder /\ f.saving = e.saving
        /\ f.bufferSlots = e.bufferSlots /\ f.windowSlots = e.windowSlots
        /\ f.workbenchSlots = e.workbenchSlots /\ DOMAIN f.workbenches = DOMAIN e.workbenches
        BY <1>5, <1>6 DEF EditorFields
  <1>8. /\ f.workbenches[k].graph = h
        /\ \A j \in DOMAIN e.workbenches :
            /\ IsWorkbench(f.workbenches[j])
            /\ f.workbenches[j].locations = e.workbenches[j].locations
            /\ f.workbenches[j].layout = e.workbenches[j].layout
            /\ f.workbenches[j].active = e.workbenches[j].active
            /\ f.workbenches[j].recent = e.workbenches[j].recent
            /\ j # k => f.workbenches[j] = e.workbenches[j]
        BY <1>3, <1>5, <1>6 DEF EditorFields, IsState, IsWorkbench, GraphFields
  <1>9. f.workbenches[k].walks = [w \in DOMAIN e.workbenches[k].walks |->
                                     WalkWithout(e.workbenches[k].walks[w], removed)]
        BY <1>5, <1>6 DEF EditorFields, IsState, IsWorkbench
  <1>10. IsState(f)
        BY <1>6, <1>7, <1>8 DEF IsState
  <1>11. SameWindows(e, f)
        BY <1>6, <1>7, <1>8, <1>9 DEF SameWindows
  <1>12. Keeps(e, f)
        BY <1>6, <1>7, <1>8 DEF Keeps
  <1>13. WindowInv(f, {}, surface)
        BY <1>1, <1>11, WindowsStay
  <1>14. CaretInv(f)
        BY <1>1, <1>6, <1>7, CaretsStay
  <1>15. JumpInv(f)
    <2>1. ASSUME NEW w \in DOMAIN e.workbenches[k].walks
          PROVE  IsWalk(f.workbenches[k].walks[w], DOMAIN h.nodes)
      <3>1. IsWalk(e.workbenches[k].walks[w], DOMAIN g.nodes)
            BY <1>1 DEF JumpInv, g
      <3> QED BY <1>3, <1>9, <3>1, WalkWithoutIsWalk
    <2>2. ASSUME NEW j \in DOMAIN e.workbenches, j # k
          PROVE  /\ GraphInv(f.workbenches[j].graph)
                 /\ \A w \in DOMAIN f.workbenches[j].walks :
                       IsWalk(f.workbenches[j].walks[w], DOMAIN f.workbenches[j].graph.nodes)
          BY <1>1, <1>8, <2>2 DEF JumpInv
    <2>3. /\ GraphInv(f.workbenches[k].graph)
          /\ \A w \in DOMAIN f.workbenches[k].walks :
                IsWalk(f.workbenches[k].walks[w], DOMAIN f.workbenches[k].graph.nodes)
      <3>1. DOMAIN f.workbenches[k].walks = DOMAIN e.workbenches[k].walks
            BY <1>9
      <3> QED BY <1>3, <1>8, <2>1, <3>1
    <2> QED BY <1>7, <2>2, <2>3 DEF JumpInv
  <1>16. AnchorInv(f)
    <2> DEFINE gone == {NodePlace(k, n) : n \in removed}
    <2>1. \A p : p \in gone <=> \E n \in removed : p = NodePlace(k, n)
          OBVIOUS
    <2> HIDE DEF gone
    <2>2. gone \subseteq Places(e)
          BY <1>3, <2>1, PlacesAre DEF g
    <2>3. ASSUME NEW p \in Places(f)
          PROVE  p \in Places(e) /\ p \notin gone /\ PlaceAt(f, p) = PlaceAt(e, p)
      <3>1. PICK j \in DOMAIN e.workbenches :
                    \/ \E m \in DOMAIN f.workbenches[j].graph.nodes : p = NodePlace(j, m)
                    \/ \E i \in DOMAIN f.workbenches[j].locations : p = ItemPlace(j, i)
            BY <1>7, PlacesAre
      <3>2. CASE \E i \in DOMAIN f.workbenches[j].locations : p = ItemPlace(j, i)
        <4>1. PICK i \in DOMAIN e.workbenches[j].locations : p = ItemPlace(j, i)
              BY <1>8, <3>2
        <4>2. p \notin gone
              BY <2>1, <4>1, PlaceParts
        <4> QED BY <1>8, <4>1, <4>2, PlacesAre
      <3>3. CASE \E m \in DOMAIN f.workbenches[j].graph.nodes : p = NodePlace(j, m)
        <4>1. PICK m \in DOMAIN f.workbenches[j].graph.nodes : p = NodePlace(j, m)
              BY <3>3
        <4>2. /\ m \in DOMAIN e.workbenches[j].graph.nodes /\ (j = k => m \notin removed)
              /\ f.workbenches[j].graph.nodes[m] = e.workbenches[j].graph.nodes[m]
              BY <1>3, <1>8, <4>1 DEF g
        <4>3. p \notin gone
              BY <2>1, <4>1, <4>2, PlaceParts
        <4> QED BY <4>1, <4>2, <4>3, PlacesAre
      <3> QED BY <3>1, <3>2, <3>3
    <2>4. ASSUME NEW p \in Places(e), p \notin gone
          PROVE  p \in Places(f)
      <3>1. PICK j \in DOMAIN e.workbenches :
                    \/ \E m \in DOMAIN e.workbenches[j].graph.nodes : p = NodePlace(j, m)
                    \/ \E i \in DOMAIN e.workbenches[j].locations : p = ItemPlace(j, i)
            BY PlacesAre
      <3>2. CASE \E i \in DOMAIN e.workbenches[j].locations : p = ItemPlace(j, i)
            BY <1>7, <1>8, <3>2, PlacesAre
      <3>3. CASE \E m \in DOMAIN e.workbenches[j].graph.nodes : p = NodePlace(j, m)
        <4>1. PICK m \in DOMAIN e.workbenches[j].graph.nodes : p = NodePlace(j, m)
              BY <3>3
        <4>2. j = k => m \notin removed
              BY <2>1, <2>4, <4>1
        <4>3. m \in DOMAIN f.workbenches[j].graph.nodes
              BY <1>3, <1>8, <4>1, <4>2 DEF g
        <4> QED BY <1>7, <4>1, <4>3, PlacesAre
      <3> QED BY <3>1, <3>2, <3>3
    <2>5. Places(f) = Places(e) \ gone
          BY <2>3, <2>4
    <2>6. ASSUME NEW b \in DOMAIN e.buffers, NEW a
          PROVE  a \in DOMAIN f.buffers[b].anchors <=>
                        /\ a \in DOMAIN e.buffers[b].anchors
                        /\ \A p \in gone : ~Holds(e, p, b, a)
      <3>1. DOMAIN places = removed
            BY <1>3, <1>4
      <3>2. (\A i \in DOMAIN places : ~(places[i].buffer = b /\ places[i].anchor = a))
            <=> (\A n \in removed : ~(g.nodes[n].buffer = b /\ g.nodes[n].anchor = a))
            BY <1>4, <3>1
      <3>3. (\A p \in gone : ~Holds(e, p, b, a))
            <=> (\A n \in removed : ~Holds(e, NodePlace(k, n), b, a))
            BY <2>1
      <3>4. \A n : Holds(e, NodePlace(k, n), b, a)
                    <=> g.nodes[n].buffer = b /\ g.nodes[n].anchor = a
            BY PlacesAre DEF Holds, g
      <3>5. a \in DOMAIN f.buffers[b].anchors <=>
                        /\ a \in DOMAIN e.buffers[b].anchors
                        /\ \A i \in DOMAIN places : ~(places[i].buffer = b /\ places[i].anchor = a)
            BY <1>6, <1>7
      <3> QED BY <3>2, <3>3, <3>4, <3>5
    <2>7. \A b \in DOMAIN e.buffers :
            /\ f.buffers[b].lines = e.buffers[b].lines
            /\ f.buffers[b].resource = e.buffers[b].resource
            /\ \A a : a \in DOMAIN f.buffers[b].anchors <=>
                        /\ a \in DOMAIN e.buffers[b].anchors
                        /\ \A p \in gone : ~Holds(e, p, b, a)
            /\ \A a \in DOMAIN f.buffers[b].anchors :
                 f.buffers[b].anchors[a] = e.buffers[b].anchors[a]
          BY <1>6, <1>7, <2>6
    <2>8. ListInv(f)
          BY <1>1, <1>7, <1>8 DEF AnchorInv, ListInv
    <2>9. \A p \in Places(f) : PlaceAt(f, p) = PlaceAt(e, p)
          BY <2>3
    <2>10. AnchorInv(e) /\ DOMAIN f.buffers = DOMAIN e.buffers
          BY <1>1, <1>6, <1>7
    <2> QED BY <2>2, <2>5, <2>7, <2>8, <2>9, <2>10, PlacesGo
  <1> QED BY <1>10, <1>11, <1>12, <1>13, <1>14, <1>15, <1>16 DEF EditorInv, f

\* Each window has an owner, which has it in its layout.
LEMMA OwnerOwns ==
  ASSUME NEW e, NEW surface, EditorInv(e, surface), NEW w \in DOMAIN e.windows
  PROVE  /\ Owner(e, w) \in DOMAIN e.workbenches /\ w \in ToSet(e.workbenches[Owner(e, w)].layout)
         /\ Owners(e, w) # {}
  <1>1. LayoutInv(e, {})
        BY DEF EditorInv, WindowInv
  <1>2. PICK k \in DOMAIN e.workbenches : w \in ToSet(e.workbenches[k].layout)
        BY <1>1 DEF LayoutInv
  <1>3. k \in Owners(e, w)
        BY <1>2 DEF Owners
  <1>4. Owner(e, w) \in Owners(e, w)
        BY <1>3 DEF Owner
  <1> QED BY <1>3, <1>4 DEF Owners

\* Between commands, a layout has open windows only.
LEMMA LayoutsAreOpen ==
  ASSUME NEW e, NEW surface, EditorInv(e, surface), NEW k \in DOMAIN e.workbenches
  PROVE  /\ \A w \in ToSet(e.workbenches[k].layout) : w \in DOMAIN e.windows
         /\ e.workbenches[k].active \in ToSet(e.workbenches[k].layout)
         /\ e.active \in DOMAIN e.workbenches
  BY DEF EditorInv, WindowInv, LayoutInv, ToSet

\* Where something is displayed, there is a window to display it from.
LEMMA OriginIsOwned ==
  ASSUME NEW e, NEW surface, EditorInv(e, surface), NEW w
  PROVE  LET origin == DisplayOrigin(e, w)  k == Owner(e, origin) IN
         origin \in DOMAIN e.windows /\ k \in DOMAIN e.workbenches
  <1> DEFINE origin == DisplayOrigin(e, w)
  <1>1. ActiveWindow(e) \in DOMAIN e.windows
    <2>1. e.active \in DOMAIN e.workbenches
          BY DEF EditorInv, WindowInv, LayoutInv
    <2> QED BY <2>1, LayoutsAreOpen DEF ActiveWindow
  <1>2. Owners(e, w) # {} => w \in DOMAIN e.windows
        BY LayoutsAreOpen DEF Owners
  <1>3. origin \in DOMAIN e.windows
        BY <1>1, <1>2 DEF DisplayOrigin
  <1> HIDE DEF origin
  <1>4. Owner(e, origin) \in DOMAIN e.workbenches
        BY <1>3, OwnerOwns
  <1> QED BY <1>3, <1>4 DEF origin

\* ShowPlanned: whether it splits or not.
LEMMA ShowPlannedKeeps ==
  ASSUME NEW e, NEW surface, EditorInv(e, surface), NEW k \in DOMAIN e.workbenches,
         NEW b \in DOMAIN e.buffers, NEW plan, plan.target \in ToSet(e.workbenches[k].layout)
  PROVE  LET f == ShowPlanned(e, k, b, plan) IN EditorInv(f, surface) /\ Keeps(e, f) /\ Grows(e, f)
  <1> DEFINE f == ShowPlanned(e, k, b, plan)
             w == CreatedWindow(e)
             split == SplitLayout(CreateWindow(e, b, 0), k, plan.target, w)
             show == ShowBuffer(e, plan.target, b)
  <1>1. CASE plan.split
    <2>1. f = FocusWindow(split, k, w)
          BY <1>1 DEF ShowPlanned
    <2>2. 0 \in 0..(e.buffers[b].lines - 1)
          BY DEF EditorInv, AnchorInv, RangeInv
    <2>3. EditorInv(split, surface) /\ Keeps(e, split) /\ Grows(e, split) /\ w \in ToSet(split.workbenches[k].layout)
          BY <2>2, SplitKeeps
    <2>4. k \in DOMAIN split.workbenches
          BY <2>3 DEF Keeps
    <2> HIDE DEF split, w, f
    <2>5. EditorInv(f, surface) /\ Keeps(split, f) /\ Grows(split, f)
          BY <2>1, <2>3, <2>4, FocusWindowKeeps
    <2>6. Keeps(e, f) /\ Grows(e, f)
          BY <2>3, <2>5, KeepsTwice, GrowsTwice
    <2> QED BY <2>5, <2>6 DEF f
  <1>2. CASE ~plan.split
    <2>1. f = FocusWindow(show, k, plan.target)
          BY <1>2 DEF ShowPlanned
    <2>2. plan.target \in DOMAIN e.windows
          BY LayoutsAreOpen
    <2>3. /\ EditorInv(show, surface) /\ Keeps(e, show) /\ Grows(e, show)
          /\ show.workbenches[k].layout = e.workbenches[k].layout
          BY <2>2, ShowBufferKeeps
    <2>4. k \in DOMAIN show.workbenches
          BY <2>3 DEF Keeps
    <2> HIDE DEF show, f
    <2>5. EditorInv(f, surface) /\ Keeps(show, f) /\ Grows(show, f)
          BY <2>1, <2>3, <2>4, FocusWindowKeeps
    <2>6. Keeps(e, f) /\ Grows(e, f)
          BY <2>3, <2>5, KeepsTwice, GrowsTwice
    <2> QED BY <2>5, <2>6 DEF f
  <1> QED BY <1>1, <1>2

\* PlaceCaret: where a line is asked for.
LEMMA PlaceCaretKeeps ==
  ASSUME NEW e, NEW surface, EditorInv(e, surface), NEW k \in DOMAIN e.workbenches,
         NEW line \in Nat \cup {NoLine}
  PROVE  LET f == PlaceCaret(e, k, line) IN EditorInv(f, surface) /\ Keeps(e, f) /\ Grows(e, f)
  <1>1. CASE line = NoLine
        BY <1>1 DEF PlaceCaret, Keeps, Grows
  <1>2. CASE line # NoLine
    <2>1. line \in Nat /\ e.workbenches[k].active \in DOMAIN e.windows
          BY <1>2, LayoutsAreOpen
    <2>2. PlaceCaret(e, k, line) = MoveCaret(e, e.workbenches[k].active, line)
          BY <1>2 DEF PlaceCaret
    <2> QED BY <2>1, <2>2, MoveCaretKeeps
  <1> QED BY <1>1, <1>2

\* Arrive: the place of arrival is a node afterwards.
LEMMA ArriveKeeps ==
  ASSUME NEW e, NEW surface, EditorInv(e, surface), NEW k \in DOMAIN e.workbenches
  PROVE  LET f == Arrive(e, k) IN
         /\ EditorInv(f, surface) /\ Keeps(e, f) /\ Grows(e, f)
         /\ Captured(e, k, e.workbenches[k].active) \in DOMAIN f.workbenches[k].graph.nodes
  <1>1. e.workbenches[k].active \in DOMAIN e.windows
        BY LayoutsAreOpen
  <1> QED BY <1>1, CaptureKeeps DEF Arrive

\* ArriveFrom: the step and the edge are between nodes of the graph.
LEMMA ArriveFromKeeps ==
  ASSUME NEW e, NEW surface, EditorInv(e, surface), NEW k \in DOMAIN e.workbenches,
         NEW from \in DOMAIN e.workbenches[k].graph.nodes
  PROVE  LET f == ArriveFrom(e, k, from) IN EditorInv(f, surface) /\ Keeps(e, f) /\ Grows(e, f)
  <1> DEFINE f == ArriveFrom(e, k, from)
             w == e.workbenches[k].active
             to == Captured(e, k, w)
             there == Arrive(e, k)
             left == RecordJump(there, k, w, from)
             came == RecordJump(left, k, w, to)
             g == came.workbenches[k].graph
             linked == IF from = to THEN g ELSE Link(g, from, to, FALSE)
  <1>1. /\ EditorInv(there, surface) /\ Keeps(e, there) /\ Grows(e, there)
        /\ to \in DOMAIN there.workbenches[k].graph.nodes
        BY ArriveKeeps
  <1>2. k \in DOMAIN there.workbenches /\ from \in DOMAIN there.workbenches[k].graph.nodes
        BY <1>1 DEF Keeps, Grows
  <1>3. f = [came EXCEPT !.workbenches[k].graph = linked]
        BY DEF ArriveFrom
  <1> HIDE DEF there, to, w, f
  <1>4. EditorInv(left, surface) /\ Keeps(there, left) /\ Grows(there, left)
        BY <1>1, <1>2, RecordJumpKeeps
  <1>5. k \in DOMAIN left.workbenches /\ to \in DOMAIN left.workbenches[k].graph.nodes
        BY <1>1, <1>2, <1>4 DEF Keeps, Grows
  <1> HIDE DEF left
  <1>6. EditorInv(came, surface) /\ Keeps(left, came) /\ Grows(left, came)
        BY <1>4, <1>5, RecordJumpKeeps
  <1>7. k \in DOMAIN came.workbenches
        BY <1>5, <1>6 DEF Keeps
  <1> HIDE DEF came
  <1>8. DOMAIN g = GraphFields /\ GraphInv(g)
        BY <1>6, <1>7 DEF EditorInv, IsState, IsWorkbench, JumpInv, GraphFields
  <1>9. DOMAIN linked = GraphFields /\ GraphInv(linked) /\ linked.nodes = g.nodes
    <2> HIDE DEF g
    <2>1. CASE from = to
          BY <1>8, <2>1
    <2>2. CASE from # to
          BY <1>8, <2>2, LinkKeeps
    <2> QED BY <2>1, <2>2
  <1> HIDE DEF linked
  <1>10. EditorInv(f, surface) /\ Keeps(came, f) /\ Grows(came, f)
        BY <1>3, <1>6, <1>7, <1>9, GraphChanges
  <1>11. Keeps(e, left) /\ Grows(e, left)
        BY <1>1, <1>4, KeepsTwice, GrowsTwice
  <1>12. Keeps(e, came) /\ Grows(e, came)
        BY <1>6, <1>11, KeepsTwice, GrowsTwice
  <1>13. Keeps(e, f) /\ Grows(e, f)
        BY <1>10, <1>12, KeepsTwice, GrowsTwice
  <1> QED BY <1>10, <1>13 DEF f

\* Display: whatever the policy has planned.
LEMMA DisplayKeeps ==
  ASSUME NEW e, NEW surface, EditorInv(e, surface), NEW w, NEW b \in DOMAIN e.buffers, NEW tracked,
         NEW line \in Nat \cup {NoLine}, NEW plan \in Plans(e, w)
  PROVE  LET f == Display(e, w, b, tracked, line, plan) IN EditorInv(f, surface) /\ Keeps(e, f)
  <1> DEFINE f == Display(e, w, b, tracked, line, plan)
             origin == DisplayOrigin(e, w)
             k == Owner(e, origin)
             from == Captured(e, k, origin)
             left == IF tracked THEN Capture(e, k, origin) ELSE e
             shown == ShowPlanned(left, k, b, plan)
             placed == PlaceCaret(shown, k, line)
             arrived == IF tracked THEN ArriveFrom(placed, k, from) ELSE Arrive(placed, k)
  <1>1. origin \in DOMAIN e.windows /\ k \in DOMAIN e.workbenches
        BY OriginIsOwned
  <1>2. plan.target \in ToSet(e.workbenches[k].layout)
        BY DEF Plans
  <1>3. f = EvictJumps(arrived, k)
        BY DEF Display
  <1> HIDE DEF origin, k, f
  <1>4. /\ EditorInv(left, surface) /\ Keeps(e, left) /\ Grows(e, left)
        /\ tracked => from \in DOMAIN left.workbenches[k].graph.nodes
    <2>1. CASE tracked
      <3>1. left = Capture(e, k, origin)
            BY <2>1
      <3>2. /\ EditorInv(Capture(e, k, origin), surface)
            /\ Keeps(e, Capture(e, k, origin)) /\ Grows(e, Capture(e, k, origin))
            /\ from \in DOMAIN Capture(e, k, origin).workbenches[k].graph.nodes
            BY <1>1, CaptureKeeps
      <3> QED BY <3>1, <3>2
    <2>2. CASE ~tracked
          BY <2>2 DEF Keeps, Grows
    <2> QED BY <2>1, <2>2
  <1> HIDE DEF left, from
  <1>5. k \in DOMAIN left.workbenches /\ b \in DOMAIN left.buffers /\ plan.target \in ToSet(left.workbenches[k].layout)
        BY <1>1, <1>2, <1>4 DEF Keeps
  <1>6. EditorInv(shown, surface) /\ Keeps(left, shown) /\ Grows(left, shown)
        BY <1>4, <1>5, ShowPlannedKeeps
  <1>7. k \in DOMAIN shown.workbenches
        BY <1>5, <1>6 DEF Keeps
  <1> HIDE DEF shown
  <1>8. EditorInv(placed, surface) /\ Keeps(shown, placed) /\ Grows(shown, placed)
        BY <1>6, <1>7, PlaceCaretKeeps
  <1>9. k \in DOMAIN placed.workbenches
        BY <1>7, <1>8 DEF Keeps
  <1>10. tracked => from \in DOMAIN placed.workbenches[k].graph.nodes
        BY <1>4, <1>5, <1>6, <1>7, <1>8 DEF Grows
  <1> HIDE DEF placed
  <1>11. EditorInv(arrived, surface) /\ Keeps(placed, arrived)
    <2>1. CASE tracked
          BY <1>8, <1>9, <1>10, <2>1, ArriveFromKeeps
    <2>2. CASE ~tracked
          BY <1>8, <1>9, <2>2, ArriveKeeps
    <2> QED BY <2>1, <2>2
  <1>12. k \in DOMAIN arrived.workbenches
        BY <1>9, <1>11 DEF Keeps
  <1> HIDE DEF arrived
  <1>13. EditorInv(f, surface) /\ Keeps(arrived, f)
        BY <1>3, <1>11, <1>12, EvictJumpsKeeps
  <1>14. Keeps(e, shown)
        BY <1>4, <1>6, KeepsTwice
  <1>15. Keeps(e, placed)
        BY <1>8, <1>14, KeepsTwice
  <1>16. Keeps(e, arrived)
        BY <1>11, <1>15, KeepsTwice
  <1>17. Keeps(e, f)
        BY <1>13, <1>16, KeepsTwice
  <1> QED BY <1>13, <1>17 DEF f

-----------------------------------------------------------------------------
(* Files that open, and the places in them.                                *)

\* A function of finitely many arguments has finitely many values.
LEMMA RangeIsFinite ==
  ASSUME NEW f, IsFiniteSet(DOMAIN f)
  PROVE  IsFiniteSet(Range(f))
  <1> DEFINE S == DOMAIN f
             T == Range(f)
             h == [x \in S |-> f[x]]
  <1>1. h \in Surjection(S, T)
        BY DEF Surjection, Range
  <1> HIDE DEF S, T, h
  <1>2. IsFiniteSet(S)
        BY DEF S
  <1>3. IsFiniteSet(T)
        BY <1>1, <1>2, FS_Surjection
  <1> QED BY <1>3 DEF T

\* Things can be told apart by as many names.
LEMMA InjectionIntoMore ==
  ASSUME NEW S, NEW T, IsFiniteSet(S), IsFiniteSet(T), Cardinality(S) <= Cardinality(T)
  PROVE  \E f \in [S -> T] : IsInjective(f)
  <1> DEFINE n == Cardinality(S)
             m == Cardinality(T)
  <1>1. n \in Nat /\ ExistsBijection(1..n, S) /\ m \in Nat /\ ExistsBijection(1..m, T) /\ n <= m
        BY FS_CardinalityType
  <1> HIDE DEF n, m
  <1>2. PICK g \in [1..n -> S] : \A x \in S : \E i \in 1..n : g[i] = x
        BY <1>1 DEF ExistsBijection, Bijection, Surjection
  <1>3. PICK h \in [1..m -> T] : IsInjective(h)
        BY <1>1 DEF ExistsBijection, Bijection, Injection
  <1> DEFINE at == [x \in S |-> CHOOSE i \in 1..n : g[i] = x]
             f == [x \in S |-> h[at[x]]]
  <1>4. \A x \in S : at[x] \in 1..m /\ g[at[x]] = x
    <2>1. ASSUME NEW x \in S
          PROVE  at[x] \in 1..n /\ g[at[x]] = x
          BY <1>2, <2>1
    <2> QED BY <1>1, <2>1
  <1> HIDE DEF at
  <1>5. f \in [S -> T]
        BY <1>3, <1>4
  <1>6. ASSUME NEW x \in S, NEW y \in S, f[x] = f[y]
        PROVE  x = y
    <2>1. at[x] \in DOMAIN h /\ at[y] \in DOMAIN h /\ h[at[x]] = h[at[y]]
          BY <1>3, <1>4, <1>6
    <2>2. at[x] = at[y]
          BY <1>3, <2>1 DEF IsInjective
    <2> QED BY <1>4, <2>2
  <1>7. IsInjective(f)
        BY <1>6 DEF IsInjective
  <1> QED BY <1>5, <1>7

\* There are enough numbers that are not used yet.
LEMMA UnusedAreEnough ==
  ASSUME NEW S, NEW used, IsFiniteSet(S), IsFiniteSet(used)
  PROVE  \E f \in [S -> 1..(Cardinality(used) + Cardinality(S)) \ used] : IsInjective(f)
  <1> DEFINE n == Cardinality(S)
             m == Cardinality(used)
             all == 1..(m + n)
             T == all \ used
  <1>1. n \in Nat /\ m \in Nat
        BY FS_CardinalityType
  <1> HIDE DEF n, m
  <1>2. IsFiniteSet(all) /\ Cardinality(all) = m + n
    <2> DEFINE k == m + n
    <2>1. k \in Nat
          BY <1>1
    <2> HIDE DEF k
    <2>2. IsFiniteSet(1..k) /\ Cardinality(1..k) = IF 1 > k THEN 0 ELSE k - 1 + 1
          BY <2>1, FS_Interval
    <2>3. Cardinality(1..k) = k
          BY <2>1, <2>2
    <2> QED BY <2>2, <2>3 DEF k
  <1> HIDE DEF all
  <1>3. IsFiniteSet(T) /\ Cardinality(T) = Cardinality(all) - Cardinality(all \cap used)
        BY <1>2, FS_Difference
  <1>4. Cardinality(all \cap used) <= m /\ Cardinality(all \cap used) \in Nat
    <2>1. IsFiniteSet(used \cap all) /\ Cardinality(used \cap all) <= Cardinality(used)
          BY FS_Intersection
    <2>2. used \cap all = all \cap used
          OBVIOUS
    <2>3. Cardinality(all \cap used) \in Nat
          BY <2>1, <2>2, FS_CardinalityType
    <2> QED BY <2>1, <2>2, <2>3 DEF m
  <1>5. n <= Cardinality(T)
        BY <1>1, <1>2, <1>3, <1>4
  <1> HIDE DEF T
  <1>6. \E f \in [S -> T] : IsInjective(f)
        BY <1>3, <1>5, InjectionIntoMore DEF n
  <1> QED BY <1>6 DEF T, all, m, n

\* There are finitely many places.
LEMMA PlacesAreFinite ==
  ASSUME NEW e, JumpInv(e), ListInv(e)
  PROVE  IsFiniteSet(Places(e))
  <1> DEFINE nodes(k) == [n \in DOMAIN e.workbenches[k].graph.nodes |-> NodePlace(k, n)]
             items(k) == [i \in DOMAIN e.workbenches[k].locations |-> ItemPlace(k, i)]
             all == [k \in DOMAIN e.workbenches |-> Range(nodes(k)) \cup Range(items(k))]
  <1>1. ASSUME NEW k \in DOMAIN e.workbenches
        PROVE  IsFiniteSet(all[k])
    <2> DEFINE g == e.workbenches[k].graph
               locations == e.workbenches[k].locations
    <2>1. g.last \in Nat /\ DOMAIN g.nodes \subseteq 1..g.last
          BY DEF JumpInv, GraphInv
    <2>2. IsFiniteSet(DOMAIN g.nodes)
      <3> HIDE DEF g
      <3>1. IsFiniteSet(1..g.last)
            BY <2>1, FS_Interval
      <3> QED BY <2>1, <3>1, FS_Subset
    <2>3. Len(locations) \in Nat /\ DOMAIN locations = 1..Len(locations)
          BY DEF ListInv
    <2>4. IsFiniteSet(DOMAIN locations)
      <3> HIDE DEF locations
      <3> QED BY <2>3, FS_Interval
    <2>5. DOMAIN nodes(k) = DOMAIN g.nodes /\ DOMAIN items(k) = DOMAIN locations
          OBVIOUS
    <2>6. all[k] = Range(nodes(k)) \cup Range(items(k))
          OBVIOUS
    <2> HIDE DEF nodes, items, g, locations, all
    <2>7. IsFiniteSet(Range(nodes(k))) /\ IsFiniteSet(Range(items(k)))
          BY <2>2, <2>4, <2>5, RangeIsFinite
    <2> QED BY <2>6, <2>7, FS_Union
  <1>2. IsFiniteSet(DOMAIN all)
        BY DEF ListInv
  <1>3. Places(e) \subseteq UNION Range(all)
    <2> SUFFICES ASSUME NEW p \in Places(e)
                 PROVE  \E k \in DOMAIN e.workbenches : p \in all[k]
          BY DEF Range
    <2>1. PICK k \in DOMAIN e.workbenches :
                    \/ \E n \in DOMAIN e.workbenches[k].graph.nodes : p = NodePlace(k, n)
                    \/ \E i \in DOMAIN e.workbenches[k].locations : p = ItemPlace(k, i)
          BY PlacesAre
    <2> QED BY <2>1 DEF Range
  <1>4. \A T \in Range(all) : IsFiniteSet(T)
        BY <1>1 DEF Range
  <1> HIDE DEF all
  <1>5. IsFiniteSet(UNION Range(all))
        BY <1>2, <1>4, RangeIsFinite, FS_UNION
  <1> QED BY <1>3, <1>5, FS_Subset

\* Places that waited for a file get anchors of their own in it.
LEMMA AttachPlacesKeeps ==
  ASSUME NEW e, NEW surface, EditorInv(e, surface), NEW places, places \subseteq Places(e),
         \A p \in places : \E b \in DOMAIN e.buffers : WaitsFor(e, p, b)
  PROVE  LET f == AttachPlaces(e, places) IN
         EditorInv(f, surface) /\ SameWindows(e, f) /\ Keeps(e, f) /\ Grows(e, f)
  <1> DEFINE target(p) == CHOOSE b \in DOMAIN e.buffers : WaitsFor(e, p, b)
             line(p)   == Least(PlaceAt(e, p).line, e.buffers[target(p)].lines - 1)
             used      == UNION {DOMAIN e.buffers[target(p)].anchors : p \in places}
             unused    == 1..(Cardinality(used) + Cardinality(places)) \ used
             anchor    == CHOOSE f \in [places -> unused] : IsInjective(f)
             holder(a) == CHOOSE p \in places : anchor[p] = a
             placed(p) ==
                IF p \notin places THEN PlaceAt(e, p)
                ELSE Attach(PlaceAt(e, p), target(p), anchor[p],
                            IF p[2] = "node" THEN line(p) ELSE PlaceAt(e, p).line)
             nodes(k)  == [n \in DOMAIN e.workbenches[k].graph.nodes |-> placed(<<k, "node", n>>)]
             items(k)  == [i \in DOMAIN e.workbenches[k].locations |-> placed(<<k, "item", i>>)]
             anchors(b) == [a \in DOMAIN e.buffers[b].anchors
                                     \cup {anchor[p] : p \in {q \in places : target(q) = b}} |->
                              IF a \in DOMAIN e.buffers[b].anchors THEN e.buffers[b].anchors[a]
                              ELSE line(holder(a))]
             f == AttachPlaces(e, places)
  <1>1. /\ IsState(e) /\ WindowInv(e, {}, surface) /\ JumpInv(e) /\ AnchorInv(e) /\ CaretInv(e)
        /\ ShownInv(e) /\ PlaceInv(e) /\ RangeInv(e) /\ ListInv(e)
        BY DEF EditorInv, WindowInv, AnchorInv
  <1>2. f = [e EXCEPT
                !.workbenches = [k \in DOMAIN @ |-> WithPlaces(@[k], nodes(k), items(k))],
                !.buffers = [b \in DOMAIN @ |-> WithAnchors(@[b], anchors(b))]]
        BY DEF AttachPlaces
  <1>3. /\ DOMAIN f = EditorFields /\ f.windows = e.windows /\ f.carets = e.carets
        /\ f.active = e.active /\ f.placeholder = e.placeholder /\ f.saving = e.saving
        /\ f.bufferSlots = e.bufferSlots /\ f.windowSlots = e.windowSlots
        /\ f.workbenchSlots = e.workbenchSlots
        /\ f.workbenches = [k \in DOMAIN e.workbenches |-> WithPlaces(e.workbenches[k], nodes(k), items(k))]
        /\ f.buffers = [b \in DOMAIN e.buffers |-> WithAnchors(e.buffers[b], anchors(b))]
    <2> HIDE DEF nodes, items, anchors, f
    <2> QED BY <1>1, <1>2 DEF IsState, EditorFields
  <1>4. IsFiniteSet(places)
        BY <1>1, PlacesAreFinite, FS_Subset
  <1>5. ASSUME NEW p \in places
        PROVE  target(p) \in DOMAIN e.buffers /\ WaitsFor(e, p, target(p))
        OBVIOUS
  <1> HIDE DEF target
  <1>6. IsFiniteSet(used)
    <2> DEFINE t == [p \in places |-> DOMAIN e.buffers[target(p)].anchors]
    <2>1. used = UNION Range(t) /\ DOMAIN t = places
          BY DEF Range
    <2>2. \A T \in Range(t) : IsFiniteSet(T)
          BY <1>1, <1>5 DEF Range, RangeInv
    <2> HIDE DEF t, used
    <2>3. IsFiniteSet(Range(t))
          BY <1>4, <2>1, RangeIsFinite
    <2> QED BY <2>1, <2>2, <2>3, FS_UNION
  <1>7. \A p \in places : \A a \in DOMAIN e.buffers[target(p)].anchors : a \in used
        OBVIOUS
  <1>8. anchor \in [places -> unused] /\ IsInjective(anchor)
    <2> HIDE DEF used
    <2>1. \E g \in [places -> unused] : IsInjective(g)
          BY <1>4, <1>6, UnusedAreEnough
    <2> HIDE DEF unused
    <2> QED BY <2>1
  <1>9. /\ \A p \in places : \A q \in places : anchor[p] \notin DOMAIN e.buffers[target(q)].anchors
        /\ \A p, q \in places : anchor[p] = anchor[q] => p = q
    <2> HIDE DEF used, anchor
    <2> QED BY <1>7, <1>8 DEF IsInjective
  <1>10. DOMAIN anchor = places
        BY <1>8
  <1> HIDE DEF used, unused, anchor
  <1>11. ASSUME NEW p \in places
         PROVE  line(p) \in 0..(e.buffers[target(p)].lines - 1)
    <2>1. PlaceAt(e, p).line \in Nat
          BY <1>1 DEF PlaceInv, IsPlace
    <2>2. e.buffers[target(p)].lines \in Nat \ {0}
          BY <1>1, <1>5 DEF RangeInv
    <2> QED BY <2>1, <2>2 DEF Least
  <1> HIDE DEF line
  <1>12. ASSUME NEW p \in places
         PROVE  /\ IsPlace(placed(p)) /\ placed(p).buffer = target(p) /\ placed(p).anchor = anchor[p]
                /\ ~Attached(PlaceAt(e, p))
    <2> DEFINE place == PlaceAt(e, p)
               to == IF p[2] = "node" THEN line(p) ELSE place.line
    <2>1. IsPlace(place) /\ ~Attached(place)
          BY <1>1, <1>5 DEF PlaceInv, WaitsFor
    <2>2. placed(p) = Attach(place, target(p), anchor[p], to)
          OBVIOUS
    <2>3. e.buffers[target(p)].lines \in Nat
          BY <1>1, <1>5 DEF RangeInv
    <2>4. to \in Nat
          BY <1>11, <2>1, <2>3 DEF IsPlace
    <2> HIDE DEF place, to, placed
    <2>5. /\ IsPlace(placed(p)) /\ placed(p).buffer = target(p) /\ placed(p).anchor = anchor[p]
          BY <2>1, <2>2, <2>4 DEF IsPlace, Attach
    <2> QED BY <2>1, <2>5 DEF place
  <1>13. \A p : p \notin places => placed(p) = PlaceAt(e, p)
         OBVIOUS
  <1> HIDE DEF placed
  <1>14. ASSUME NEW k \in DOMAIN e.workbenches
         PROVE  /\ IsWorkbench(f.workbenches[k])
                /\ f.workbenches[k].layout = e.workbenches[k].layout
                /\ f.workbenches[k].active = e.workbenches[k].active
                /\ f.workbenches[k].recent = e.workbenches[k].recent
                /\ f.workbenches[k].walks = e.workbenches[k].walks
                /\ f.workbenches[k].graph.order = e.workbenches[k].graph.order
                /\ f.workbenches[k].graph.edges = e.workbenches[k].graph.edges
                /\ f.workbenches[k].graph.last = e.workbenches[k].graph.last
                /\ f.workbenches[k].graph.nodes = nodes(k)
                /\ f.workbenches[k].locations = items(k)
    <2> HIDE DEF nodes, items, f, anchors
    <2>1. f.workbenches[k] = WithPlaces(e.workbenches[k], nodes(k), items(k))
          BY <1>3
    <2>2. IsWorkbench(e.workbenches[k])
          BY <1>1 DEF IsState
    <2> QED BY <2>1, <2>2 DEF WithPlaces, IsWorkbench
  <1>15. DOMAIN f.workbenches = DOMAIN e.workbenches /\ DOMAIN f.buffers = DOMAIN e.buffers
         BY <1>3
  <1>16. ASSUME NEW b \in DOMAIN e.buffers
         PROVE  /\ DOMAIN f.buffers[b] = {"resource", "lines", "saved", "anchors"}
                /\ f.buffers[b].resource = e.buffers[b].resource
                /\ f.buffers[b].lines = e.buffers[b].lines
                /\ f.buffers[b].saved = e.buffers[b].saved
                /\ f.buffers[b].anchors = anchors(b)
    <2> HIDE DEF nodes, items, f, anchors
    <2>1. f.buffers[b] = WithAnchors(e.buffers[b], anchors(b))
          BY <1>3
    <2> QED BY <1>1, <2>1 DEF WithAnchors, IsState
  <1>17. /\ \A k : DOMAIN nodes(k) = DOMAIN e.workbenches[k].graph.nodes
         /\ \A k : \A n \in DOMAIN e.workbenches[k].graph.nodes : nodes(k)[n] = placed(NodePlace(k, n))
         /\ \A k : DOMAIN items(k) = DOMAIN e.workbenches[k].locations
         /\ \A k : \A i \in DOMAIN e.workbenches[k].locations : items(k)[i] = placed(ItemPlace(k, i))
         BY DEF NodePlace, ItemPlace
  <1>18. ASSUME NEW b \in DOMAIN e.buffers
         PROVE  /\ \A a : a \in DOMAIN anchors(b) <=>
                             \/ a \in DOMAIN e.buffers[b].anchors
                             \/ \E p \in places : target(p) = b /\ anchor[p] = a
                /\ \A a \in DOMAIN e.buffers[b].anchors : anchors(b)[a] = e.buffers[b].anchors[a]
                /\ \A p \in places : target(p) = b => anchors(b)[anchor[p]] = line(p)
    <2>1. \A a : a \in DOMAIN anchors(b) <=>
                             \/ a \in DOMAIN e.buffers[b].anchors
                             \/ \E p \in places : target(p) = b /\ anchor[p] = a
          OBVIOUS
    <2>2. \A a \in DOMAIN e.buffers[b].anchors : anchors(b)[a] = e.buffers[b].anchors[a]
          OBVIOUS
    <2>3. ASSUME NEW p \in places, target(p) = b
          PROVE  anchors(b)[anchor[p]] = line(p)
      <3>1. holder(anchor[p]) = p
            BY <1>9
      <3>2. anchor[p] \notin DOMAIN e.buffers[b].anchors
            BY <1>9, <2>3
      <3> HIDE DEF holder
      <3>3. anchors(b)[anchor[p]] = line(holder(anchor[p]))
            BY <2>3, <3>2
      <3> QED BY <3>1, <3>3
    <2> QED BY <2>1, <2>2, <2>3
  <1> HIDE DEF nodes, items, anchors, f, holder
  <1>19. IsState(f)
         BY <1>3, <1>14, <1>15, <1>16 DEF IsState
  <1>20. SameWindows(e, f)
         BY <1>3, <1>14, <1>15 DEF SameWindows
  <1>21. Keeps(e, f)
         BY <1>3, <1>14, <1>15, <1>16 DEF Keeps
  <1>22. Grows(e, f)
         BY <1>14, <1>17 DEF Grows
  <1>23. WindowInv(f, {}, surface)
         BY <1>1, <1>20, WindowsStay
  <1>24. CaretInv(f)
         BY <1>1, <1>3, <1>16, CaretsStay
  <1>25. JumpInv(f)
    <2> SUFFICES ASSUME NEW k \in DOMAIN e.workbenches
                 PROVE  /\ GraphInv(f.workbenches[k].graph)
                        /\ \A w \in DOMAIN f.workbenches[k].walks :
                             IsWalk(f.workbenches[k].walks[w], DOMAIN f.workbenches[k].graph.nodes)
          BY <1>15 DEF JumpInv
    <2>1. DOMAIN f.workbenches[k].graph.nodes = DOMAIN e.workbenches[k].graph.nodes
          BY <1>14, <1>17
    <2>2. /\ GraphInv(e.workbenches[k].graph)
          /\ \A w \in DOMAIN e.workbenches[k].walks :
                IsWalk(e.workbenches[k].walks[w], DOMAIN e.workbenches[k].graph.nodes)
          BY <1>1 DEF JumpInv
    <2>3. GraphInv(f.workbenches[k].graph)
          BY <1>14, <2>1, <2>2 DEF GraphInv
    <2> QED BY <1>14, <2>1, <2>2, <2>3
  <1>26. \A p : p \in Places(f) <=> p \in Places(e)
    <2>1. \A k \in DOMAIN e.workbenches :
             /\ DOMAIN f.workbenches[k].graph.nodes = DOMAIN e.workbenches[k].graph.nodes
             /\ DOMAIN f.workbenches[k].locations = DOMAIN e.workbenches[k].locations
          BY <1>14, <1>17
    <2> QED BY <1>15, <2>1, PlacesAre
  <1>27. ASSUME NEW p \in Places(e)
         PROVE  PlaceAt(f, p) = placed(p)
    <2>1. PICK k \in DOMAIN e.workbenches :
                    \/ \E n \in DOMAIN e.workbenches[k].graph.nodes : p = NodePlace(k, n)
                    \/ \E i \in DOMAIN e.workbenches[k].locations : p = ItemPlace(k, i)
          BY PlacesAre
    <2>2. CASE \E n \in DOMAIN e.workbenches[k].graph.nodes : p = NodePlace(k, n)
      <3>1. PICK n \in DOMAIN e.workbenches[k].graph.nodes : p = NodePlace(k, n)
            BY <2>2
      <3>2. f.workbenches[k].graph.nodes[n] = placed(NodePlace(k, n))
            BY <1>14, <1>17
      <3>3. PlaceAt(f, p) = f.workbenches[k].graph.nodes[n]
            BY <3>1, PlacesAre
      <3> QED BY <3>1, <3>2, <3>3
    <2>3. CASE \E i \in DOMAIN e.workbenches[k].locations : p = ItemPlace(k, i)
      <3>1. PICK i \in DOMAIN e.workbenches[k].locations : p = ItemPlace(k, i)
            BY <2>3
      <3>2. f.workbenches[k].locations[i] = placed(ItemPlace(k, i))
            BY <1>14, <1>17
      <3>3. PlaceAt(f, p) = f.workbenches[k].locations[i]
            BY <3>1, PlacesAre
      <3> QED BY <3>1, <3>2, <3>3
    <2> QED BY <2>1, <2>2, <2>3
  <1>28. AnchorInv(f)
    <2>1. Places(f) = Places(e) \cup places
          BY <1>26
    <2>2. \A p \in Places(e) \ places : PlaceAt(f, p) = PlaceAt(e, p)
          BY <1>13, <1>27
    <2>3. \A p \in places : PlaceAt(f, p) = placed(p)
          BY <1>27
    <2>4. \A p \in places :
            /\ IsPlace(PlaceAt(f, p)) /\ PlaceAt(f, p).buffer \in DOMAIN e.buffers
            /\ PlaceAt(f, p).anchor \notin DOMAIN e.buffers[PlaceAt(f, p).buffer].anchors
          BY <1>5, <1>9, <1>12, <2>3
    <2>5. \A p \in places \cap Places(e) : ~Attached(PlaceAt(e, p))
          BY <1>12
    <2>6. \A p, q \in places : PlaceAt(f, p).anchor = PlaceAt(f, q).anchor => p = q
          BY <1>9, <1>12, <2>3
    <2>7. ASSUME NEW b \in DOMAIN e.buffers, NEW a
          PROVE  a \in DOMAIN f.buffers[b].anchors <=>
                     a \in DOMAIN e.buffers[b].anchors \/ \E p \in places : Holds(f, p, b, a)
      <3>1. \A p \in places : Holds(f, p, b, a) <=> target(p) = b /\ anchor[p] = a
            BY <1>12, <2>3 DEF Holds
      <3> QED BY <1>16, <1>18, <3>1
    <2>8. RangeInv(f)
      <3> SUFFICES ASSUME NEW b \in DOMAIN e.buffers
                   PROVE  /\ b # NoHandle /\ f.buffers[b].lines \in Nat \ {0}
                          /\ f.buffers[b].resource \in Resources \cup {NoResource}
                          /\ IsFiniteSet(DOMAIN f.buffers[b].anchors)
                          /\ \A a \in DOMAIN f.buffers[b].anchors :
                                f.buffers[b].anchors[a] \in 0..(f.buffers[b].lines - 1)
            BY <1>15 DEF RangeInv
      <3>1. /\ b # NoHandle /\ e.buffers[b].lines \in Nat \ {0}
            /\ e.buffers[b].resource \in Resources \cup {NoResource}
            /\ IsFiniteSet(DOMAIN e.buffers[b].anchors)
            /\ \A a \in DOMAIN e.buffers[b].anchors :
                  e.buffers[b].anchors[a] \in 0..(e.buffers[b].lines - 1)
            BY <1>1 DEF RangeInv
      <3>2. IsFiniteSet(Range(anchor))
            BY <1>4, <1>10, RangeIsFinite
      <3>3. DOMAIN f.buffers[b].anchors \subseteq DOMAIN e.buffers[b].anchors \cup Range(anchor)
            BY <1>10, <1>16, <1>18 DEF Range
      <3>4. IsFiniteSet(DOMAIN f.buffers[b].anchors)
            BY <3>1, <3>2, <3>3, FS_Union, FS_Subset
      <3>5. ASSUME NEW a \in DOMAIN f.buffers[b].anchors
            PROVE  f.buffers[b].anchors[a] \in 0..(f.buffers[b].lines - 1)
        <4>1. CASE a \in DOMAIN e.buffers[b].anchors
              BY <1>16, <1>18, <3>1, <4>1
        <4>2. CASE a \notin DOMAIN e.buffers[b].anchors
          <5>1. PICK p \in places : target(p) = b /\ anchor[p] = a
                BY <1>16, <1>18, <4>2
          <5>2. f.buffers[b].anchors[a] = line(p)
                BY <1>16, <1>18, <5>1
          <5> QED BY <1>11, <1>16, <5>1, <5>2
        <4> QED BY <4>1, <4>2
      <3> QED BY <1>16, <3>1, <3>4, <3>5
    <2>9. ListInv(f)
      <3> SUFFICES ASSUME NEW k \in DOMAIN e.workbenches
                   PROVE  f.workbenches[k].locations \in Seq(ToSet(f.workbenches[k].locations))
            BY <1>1, <1>15 DEF ListInv
      <3> DEFINE s == e.workbenches[k].locations
                 t == f.workbenches[k].locations
      <3>1. Len(s) \in Nat /\ DOMAIN s = 1..Len(s)
            BY <1>1 DEF ListInv
      <3>2. t = [i \in DOMAIN s |-> placed(<<k, "item", i>>)]
            BY <1>14 DEF items
      <3> HIDE DEF s, t
      <3>3. t \in [1..Len(s) -> ToSet(t)]
            BY <3>1, <3>2 DEF ToSet
      <3>4. t \in Seq(ToSet(t))
            BY <3>1, <3>3
      <3> QED BY <3>4 DEF t
    <2>10. \A b \in DOMAIN e.buffers : \A a :
                a \in DOMAIN f.buffers[b].anchors <=>
                     a \in DOMAIN e.buffers[b].anchors \/ \E p \in places : Holds(f, p, b, a)
           BY <2>7
    <2>11. AnchorInv(e) /\ DOMAIN f.buffers = DOMAIN e.buffers
           BY <1>1, <1>15
    <2> QED BY <2>1, <2>2, <2>4, <2>5, <2>6, <2>8, <2>9, <2>10, <2>11, PlacesAttach
  <1> QED BY <1>19, <1>20, <1>21, <1>22, <1>23, <1>24, <1>25, <1>28 DEF EditorInv, f

\* AddBuffer: no place is in the new buffer yet.
LEMMA AddBufferKeeps ==
  ASSUME NEW e, NEW surface, EditorInv(e, surface),
         NEW resource \in Resources \cup {NoResource}, NEW lines \in Nat \ {0}
  PROVE  EditorInv(AddBuffer(e, resource, lines), surface)
  <1> DEFINE f == AddBuffer(e, resource, lines)
             b == CreatedBuffer(e)
             new == NewBuffer(resource, lines)
  <1>1. /\ IsState(e) /\ WindowInv(e, {}, surface) /\ JumpInv(e) /\ AnchorInv(e) /\ CaretInv(e)
        /\ ShownInv(e) /\ PlaceInv(e) /\ OwnedInv(e) /\ RangeInv(e) /\ ListInv(e)
        BY DEF EditorInv, WindowInv, AnchorInv
  <1>2. /\ IsState(f) /\ WindowInv(f, {}, surface)
        /\ DOMAIN f.buffers = DOMAIN e.buffers \cup {b} /\ f.buffers[b] = new
        /\ \A c \in DOMAIN e.buffers : f.buffers[c] = e.buffers[c]
        /\ f.workbenches = e.workbenches /\ f.carets = e.carets
        BY <1>1, AddBufferWindows
  <1>3. b \notin DOMAIN e.buffers /\ b # NoHandle
        BY <1>1, CreatedBufferIsNew
  <1>4. /\ new.resource = resource /\ new.lines = lines /\ DOMAIN new.anchors = {}
        BY DEF NewBuffer
  <1> HIDE DEF f, b, new
  <1>5. JumpInv(f)
        BY <1>1, <1>2 DEF JumpInv
  <1>6. Places(f) = Places(e) /\ \A p : PlaceAt(f, p) = PlaceAt(e, p)
        BY <1>2 DEF Places, PlaceAt
  <1>7. PlaceInv(f)
        BY <1>1, <1>2, <1>6 DEF PlaceInv
  <1>8. OwnedInv(f)
        BY <1>1, <1>2, <1>4, <1>6 DEF OwnedInv, Holds
  <1>9. RangeInv(f)
    <2>1. IsFiniteSet(DOMAIN new.anchors)
          BY <1>4, FS_EmptySet
    <2>2. \A a \in DOMAIN new.anchors : new.anchors[a] \in 0..(new.lines - 1)
          BY <1>4
    <2>3. new.lines \in Nat \ {0} /\ new.resource \in Resources \cup {NoResource}
          BY <1>4
    <2> QED BY <1>1, <1>2, <1>3, <2>1, <2>2, <2>3 DEF RangeInv
  <1>10. ListInv(f)
        BY <1>1, <1>2 DEF ListInv
  <1>11. CaretInv(f)
        BY <1>1, <1>2 DEF CaretInv, ShownInv
  <1> QED BY <1>2, <1>5, <1>7, <1>8, <1>9, <1>10, <1>11 DEF EditorInv, AnchorInv, f

\* What is new when a buffer has been created.
Opens(e, f, b, resource, lines) ==
    /\ DOMAIN f.buffers = DOMAIN e.buffers \cup {b} /\ b \notin DOMAIN e.buffers /\ b # NoHandle
    /\ f.buffers[b].resource = resource /\ f.buffers[b].lines = lines /\ f.buffers[b].saved = lines
    /\ \A c \in DOMAIN e.buffers : /\ f.buffers[c].resource = e.buffers[c].resource
                                   /\ f.buffers[c].lines = e.buffers[c].lines
                                   /\ f.buffers[c].saved = e.buffers[c].saved
    /\ f.saving = e.saving /\ f.placeholder = e.placeholder /\ f.active = e.active
    /\ f.bufferSlots = Taken(e.bufferSlots)
    /\ f.windows = e.windows
    /\ DOMAIN f.workbenches = DOMAIN e.workbenches
    /\ \A k \in DOMAIN e.workbenches : f.workbenches[k].layout = e.workbenches[k].layout

\* CreateBuffer: each place that waited for the file has an anchor of its own.
LEMMA CreateBufferKeeps ==
  ASSUME NEW e, NEW surface, EditorInv(e, surface),
         NEW resource \in Resources \cup {NoResource}, NEW lines \in Nat \ {0}
  PROVE  LET f == CreateBuffer(e, resource, lines) IN
         EditorInv(f, surface) /\ Opens(e, f, CreatedBuffer(e), resource, lines)
  <1> DEFINE f == CreateBuffer(e, resource, lines)
             b == CreatedBuffer(e)
             c == AddBuffer(e, resource, lines)
             places == {p \in Places(c) : WaitsFor(c, p, b)}
             new == NewBuffer(resource, lines)
  <1>1. IsState(e) /\ WindowInv(e, {}, surface)
        BY DEF EditorInv
  <1>2. /\ DOMAIN c.buffers = DOMAIN e.buffers \cup {b} /\ c.buffers[b] = new
        /\ \A d \in DOMAIN e.buffers : c.buffers[d] = e.buffers[d]
        /\ c.workbenches = e.workbenches /\ c.windows = e.windows
        /\ c.active = e.active /\ c.saving = e.saving /\ c.placeholder = e.placeholder
        /\ c.bufferSlots = Taken(e.bufferSlots)
        BY <1>1, AddBufferWindows
  <1>3. b \notin DOMAIN e.buffers /\ b # NoHandle
        BY <1>1, CreatedBufferIsNew
  <1>4. new.resource = resource /\ new.lines = lines /\ new.saved = lines
        BY DEF NewBuffer
  <1>5. EditorInv(c, surface)
        BY AddBufferKeeps
  <1>6. f = AttachPlaces(c, places)
        BY DEF CreateBuffer
  <1> HIDE DEF c, f, new, b
  <1>7. /\ places \subseteq Places(c)
        /\ \A p \in places : \E d \in DOMAIN c.buffers : WaitsFor(c, p, d)
        BY <1>2
  <1> HIDE DEF places
  <1>8. EditorInv(f, surface) /\ SameWindows(c, f) /\ Keeps(c, f)
        BY <1>5, <1>6, <1>7, AttachPlacesKeeps
  <1>9. Opens(e, f, b, resource, lines)
        BY <1>2, <1>3, <1>4, <1>8 DEF Opens, SameWindows, Keeps
  <1> QED BY <1>8, <1>9 DEF f, b

\* Without the handle of a buffer that closes, its places, its views and its save.
Closes(e, f, b) ==
    /\ DOMAIN f.buffers = DOMAIN e.buffers \ {b}
    /\ \A c \in DOMAIN f.buffers : /\ f.buffers[c].resource = e.buffers[c].resource
                                   /\ f.buffers[c].lines = e.buffers[c].lines
                                   /\ f.buffers[c].saved = e.buffers[c].saved
    /\ DOMAIN f.saving = DOMAIN e.saving \ {b}
    /\ \A c \in DOMAIN f.saving : f.saving[c] = e.saving[c]
    /\ f.bufferSlots = Freed(e.bufferSlots, b)

\* DetachPlaces: no place is in the buffer any more, and the others stay.
LEMMA DetachPlacesDetaches ==
  ASSUME NEW e, NEW surface, EditorInv(e, surface), NEW b \in DOMAIN e.buffers
  PROVE  LET d == DetachPlaces(e, b) IN
         /\ IsState(d) /\ SameWindows(e, d) /\ WindowInv(d, {}, surface) /\ JumpInv(d) /\ ListInv(d)
         /\ d.buffers = e.buffers /\ d.carets = e.carets /\ d.saving = e.saving
         /\ Places(d) = Places(e)
         /\ \A p \in Places(e) :
              IF PlaceAt(e, p).buffer = b THEN IsPlace(PlaceAt(d, p)) /\ ~Attached(PlaceAt(d, p))
              ELSE PlaceAt(d, p) = PlaceAt(e, p)
  <1> DEFINE d == DetachPlaces(e, b)
             detached(place) == IF place.buffer = b
                                THEN Detached([place EXCEPT !.line = e.buffers[b].anchors[place.anchor]])
                                ELSE place
             detach(places) == [i \in DOMAIN places |->
                                   IF places[i].buffer = b
                                   THEN Detached([places[i] EXCEPT
                                            !.line = e.buffers[b].anchors[places[i].anchor]])
                                   ELSE places[i]]
             nodes(k) == detach(e.workbenches[k].graph.nodes)
             items(k) == detach(e.workbenches[k].locations)
  <1>1. /\ IsState(e) /\ WindowInv(e, {}, surface) /\ JumpInv(e) /\ AnchorInv(e)
        /\ PlaceInv(e) /\ RangeInv(e) /\ ListInv(e)
        BY DEF EditorInv, AnchorInv
  <1>2. d = [e EXCEPT !.workbenches = [k \in DOMAIN @ |-> WithPlaces(@[k], nodes(k), items(k))]]
        BY DEF DetachPlaces
  <1>3. /\ DOMAIN d = EditorFields /\ d.windows = e.windows /\ d.carets = e.carets
        /\ d.active = e.active /\ d.placeholder = e.placeholder /\ d.saving = e.saving
        /\ d.buffers = e.buffers
        /\ d.bufferSlots = e.bufferSlots /\ d.windowSlots = e.windowSlots
        /\ d.workbenchSlots = e.workbenchSlots
        /\ d.workbenches = [k \in DOMAIN e.workbenches |-> WithPlaces(e.workbenches[k], nodes(k), items(k))]
    <2> HIDE DEF nodes, items, d
    <2> QED BY <1>1, <1>2 DEF IsState, EditorFields
  <1>4. /\ \A k : DOMAIN nodes(k) = DOMAIN e.workbenches[k].graph.nodes
        /\ \A k : \A n \in DOMAIN e.workbenches[k].graph.nodes :
              nodes(k)[n] = detached(e.workbenches[k].graph.nodes[n])
        /\ \A k : DOMAIN items(k) = DOMAIN e.workbenches[k].locations
        /\ \A k : \A i \in DOMAIN e.workbenches[k].locations :
              items(k)[i] = detached(e.workbenches[k].locations[i])
        OBVIOUS
  <1>5. ASSUME NEW p \in Places(e)
        PROVE  IF PlaceAt(e, p).buffer = b
               THEN IsPlace(detached(PlaceAt(e, p))) /\ ~Attached(detached(PlaceAt(e, p)))
               ELSE detached(PlaceAt(e, p)) = PlaceAt(e, p)
    <2> DEFINE place == PlaceAt(e, p)
               line == e.buffers[b].anchors[place.anchor]
    <2>1. CASE place.buffer = b
      <3>1. b # NoHandle /\ e.buffers[b].lines \in Nat
            BY <1>1 DEF RangeInv
      <3>2. IsPlace(place) /\ place.anchor \in DOMAIN e.buffers[b].anchors
            BY <1>1, <2>1, <3>1 DEF PlaceInv, Attached
      <3>3. line \in Nat
            BY <1>1, <3>1, <3>2 DEF RangeInv
      <3>4. detached(place) = Detached([place EXCEPT !.line = line])
            BY <2>1
      <3> HIDE DEF place, line
      <3> DEFINE moved == [place EXCEPT !.line = line]
      <3>5. IsPlace(moved) /\ detached(place) = Detached(moved)
            BY <3>2, <3>3, <3>4 DEF IsPlace
      <3> HIDE DEF moved, detached
      <3>6. IsPlace(detached(place)) /\ ~Attached(detached(place))
            BY <3>5 DEF IsPlace, Detached, Attached
      <3> QED BY <2>1, <3>6 DEF place
    <2>2. CASE place.buffer # b
          BY <2>2
    <2> QED BY <2>1, <2>2
  <1> HIDE DEF detached, detach, nodes, items, d
  <1>6. ASSUME NEW k \in DOMAIN e.workbenches
        PROVE  /\ IsWorkbench(d.workbenches[k])
               /\ d.workbenches[k].layout = e.workbenches[k].layout
               /\ d.workbenches[k].active = e.workbenches[k].active
               /\ d.workbenches[k].recent = e.workbenches[k].recent
               /\ d.workbenches[k].walks = e.workbenches[k].walks
               /\ d.workbenches[k].graph.order = e.workbenches[k].graph.order
               /\ d.workbenches[k].graph.edges = e.workbenches[k].graph.edges
               /\ d.workbenches[k].graph.last = e.workbenches[k].graph.last
               /\ d.workbenches[k].graph.nodes = nodes(k)
               /\ d.workbenches[k].locations = items(k)
    <2>1. d.workbenches[k] = WithPlaces(e.workbenches[k], nodes(k), items(k))
          BY <1>3
    <2>2. IsWorkbench(e.workbenches[k])
          BY <1>1 DEF IsState
    <2> QED BY <2>1, <2>2 DEF WithPlaces, IsWorkbench
  <1>7. DOMAIN d.workbenches = DOMAIN e.workbenches
        BY <1>3
  <1>8. IsState(d)
        BY <1>1, <1>3, <1>6, <1>7 DEF IsState
  <1>9. SameWindows(e, d)
        BY <1>3, <1>6, <1>7 DEF SameWindows
  <1>10. WindowInv(d, {}, surface)
        BY <1>1, <1>9, WindowsStay
  <1>11. JumpInv(d)
    <2> SUFFICES ASSUME NEW k \in DOMAIN e.workbenches
                 PROVE  /\ GraphInv(d.workbenches[k].graph)
                        /\ \A w \in DOMAIN d.workbenches[k].walks :
                             IsWalk(d.workbenches[k].walks[w], DOMAIN d.workbenches[k].graph.nodes)
          BY <1>7 DEF JumpInv
    <2>1. DOMAIN d.workbenches[k].graph.nodes = DOMAIN e.workbenches[k].graph.nodes
          BY <1>4, <1>6
    <2>2. /\ GraphInv(e.workbenches[k].graph)
          /\ \A w \in DOMAIN e.workbenches[k].walks :
                IsWalk(e.workbenches[k].walks[w], DOMAIN e.workbenches[k].graph.nodes)
          BY <1>1 DEF JumpInv
    <2>3. GraphInv(d.workbenches[k].graph)
          BY <1>6, <2>1, <2>2 DEF GraphInv
    <2> QED BY <1>6, <2>1, <2>2, <2>3
  <1>12. \A p : p \in Places(d) <=> p \in Places(e)
    <2>1. \A k \in DOMAIN e.workbenches :
             /\ DOMAIN d.workbenches[k].graph.nodes = DOMAIN e.workbenches[k].graph.nodes
             /\ DOMAIN d.workbenches[k].locations = DOMAIN e.workbenches[k].locations
          BY <1>4, <1>6
    <2> QED BY <1>7, <2>1, PlacesAre
  <1>13. ASSUME NEW p \in Places(e)
         PROVE  PlaceAt(d, p) = detached(PlaceAt(e, p))
    <2>1. PICK k \in DOMAIN e.workbenches :
                    \/ \E n \in DOMAIN e.workbenches[k].graph.nodes : p = NodePlace(k, n)
                    \/ \E i \in DOMAIN e.workbenches[k].locations : p = ItemPlace(k, i)
          BY PlacesAre
    <2>2. CASE \E n \in DOMAIN e.workbenches[k].graph.nodes : p = NodePlace(k, n)
      <3>1. PICK n \in DOMAIN e.workbenches[k].graph.nodes : p = NodePlace(k, n)
            BY <2>2
      <3>2. d.workbenches[k].graph.nodes[n] = detached(e.workbenches[k].graph.nodes[n])
            BY <1>4, <1>6
      <3>3. PlaceAt(d, p) = d.workbenches[k].graph.nodes[n] /\ PlaceAt(e, p) = e.workbenches[k].graph.nodes[n]
            BY <3>1, PlacesAre
      <3> QED BY <3>2, <3>3
    <2>3. CASE \E i \in DOMAIN e.workbenches[k].locations : p = ItemPlace(k, i)
      <3>1. PICK i \in DOMAIN e.workbenches[k].locations : p = ItemPlace(k, i)
            BY <2>3
      <3>2. d.workbenches[k].locations[i] = detached(e.workbenches[k].locations[i])
            BY <1>4, <1>6
      <3>3. PlaceAt(d, p) = d.workbenches[k].locations[i] /\ PlaceAt(e, p) = e.workbenches[k].locations[i]
            BY <3>1, PlacesAre
      <3> QED BY <3>2, <3>3
    <2> QED BY <2>1, <2>2, <2>3
  <1>14. ListInv(d)
    <2> SUFFICES ASSUME NEW k \in DOMAIN e.workbenches
                 PROVE  d.workbenches[k].locations \in Seq(ToSet(d.workbenches[k].locations))
          BY <1>1, <1>7 DEF ListInv
    <2> DEFINE s == e.workbenches[k].locations
               t == d.workbenches[k].locations
    <2>1. Len(s) \in Nat /\ DOMAIN s = 1..Len(s)
          BY <1>1 DEF ListInv
    <2>2. t = items(k) /\ DOMAIN items(k) = DOMAIN s
          BY <1>4, <1>6
    <2>3. items(k) = [i \in DOMAIN s |-> items(k)[i]]
          BY DEF items, detach
    <2> HIDE DEF s, t
    <2>4. t \in [1..Len(s) -> ToSet(t)]
          BY <2>1, <2>2, <2>3 DEF ToSet
    <2>5. t \in Seq(ToSet(t))
          BY <2>1, <2>4
    <2> QED BY <2>5 DEF t
  <1> QED BY <1>3, <1>5, <1>8, <1>9, <1>10, <1>11, <1>12, <1>13, <1>14 DEF d

\* ReleaseBuffer: no window, place, view or workbench has the buffer any more.
LEMMA ReleaseBufferKeeps ==
  ASSUME NEW e, NEW surface, EditorInv(e, surface), NEW b \in DOMAIN e.buffers,
         NEW replacement \in DOMAIN e.buffers \ {b}
  PROVE  LET f == ReleaseBuffer(e, b, replacement) IN EditorInv(f, surface) /\ Closes(e, f, b)
  <1> DEFINE f == ReleaseBuffer(e, b, replacement)
             d == DetachPlaces(e, b)
             showing == Showing(e, b)
             s == ShowInstead(d, showing, replacement)
  <1>1. /\ IsState(e) /\ WindowInv(e, {}, surface) /\ AnchorInv(e) /\ CaretInv(e) /\ ShownInv(e)
        /\ RangeInv(e)
        BY DEF EditorInv, WindowInv, AnchorInv
  <1>2. /\ IsState(d) /\ SameWindows(e, d) /\ WindowInv(d, {}, surface) /\ JumpInv(d) /\ ListInv(d)
        /\ d.buffers = e.buffers /\ d.carets = e.carets /\ d.saving = e.saving
        /\ Places(d) = Places(e)
        /\ \A p \in Places(e) :
              IF PlaceAt(e, p).buffer = b THEN IsPlace(PlaceAt(d, p)) /\ ~Attached(PlaceAt(d, p))
              ELSE PlaceAt(d, p) = PlaceAt(e, p)
        BY DetachPlacesDetaches
  <1>3. f = WithoutBuffer(s, b)
        BY DEF ReleaseBuffer
  <1>4. /\ d.windows = e.windows /\ d.bufferSlots = e.bufferSlots
        /\ showing \subseteq DOMAIN d.windows /\ replacement \in DOMAIN d.buffers
        /\ \A w \in DOMAIN d.windows : d.windows[w] = b => w \in showing
        BY <1>2 DEF SameWindows, Showing
  <1> HIDE DEF d, showing, f
  <1>5. /\ IsState(s) /\ WindowInv(s, {}, surface)
        /\ \A w \in DOMAIN d.windows : s.windows[w] = IF w \in showing THEN replacement ELSE d.windows[w]
        /\ DOMAIN s.windows = DOMAIN d.windows
    <2>1. IsState(s) /\ WindowInv(s, {}, surface) /\ DOMAIN s.windows = DOMAIN d.windows
          BY <1>2, <1>4, ShowInsteadWindows
    <2>2. \A w \in DOMAIN d.windows : s.windows[w] = IF w \in showing THEN replacement ELSE d.windows[w]
          BY <1>2, <1>4, ShowInsteadWindows
    <2> QED BY <2>1, <2>2
  <1>6. /\ s.buffers = d.buffers /\ s.saving = d.saving /\ s.bufferSlots = d.bufferSlots
        /\ DOMAIN s.workbenches = DOMAIN d.workbenches
        /\ s.carets = [wb \in DOMAIN d.carets \cup (showing \X {replacement}) |->
                          IF wb \in DOMAIN d.carets THEN d.carets[wb] ELSE 0]
        BY <1>2 DEF IsState, EditorFields, ShowInstead
  <1>7. \A k \in DOMAIN d.workbenches : /\ s.workbenches[k].graph = d.workbenches[k].graph
                                        /\ s.workbenches[k].walks = d.workbenches[k].walks
                                        /\ s.workbenches[k].locations = d.workbenches[k].locations
    <2>1. s.workbenches = [k \in DOMAIN d.workbenches |->
                             IF ToSet(d.workbenches[k].layout) \cap showing = {} THEN d.workbenches[k]
                             ELSE Remember(d.workbenches[k], replacement)]
          BY <1>2 DEF IsState, EditorFields, ShowInstead
    <2> HIDE DEF s
    <2> QED BY <1>2, <2>1 DEF IsState, IsWorkbench, Remember
  <1> HIDE DEF s
  <1>8. b \in DOMAIN s.buffers /\ \A w \in DOMAIN s.windows : s.windows[w] # b
        BY <1>2, <1>4, <1>5, <1>6
  <1>9. IsState(f) /\ WindowInv(f, {}, surface)
        BY <1>3, <1>5, <1>8, WithoutBufferWindows
  <1>10. /\ f.carets = Restrict(s.carets, {wb \in DOMAIN s.carets : wb[2] # b})
         /\ f.buffers = Restrict(s.buffers, DOMAIN s.buffers \ {b})
         /\ f.bufferSlots = Freed(s.bufferSlots, b)
         /\ f.saving = Restrict(s.saving, DOMAIN s.saving \ {b})
         /\ f.workbenches = [k \in DOMAIN s.workbenches |-> Forget(s.workbenches[k], b)]
         BY <1>3, <1>5 DEF IsState, EditorFields, WithoutBuffer
  <1>11. /\ DOMAIN f.buffers = DOMAIN e.buffers \ {b}
         /\ \A c \in DOMAIN f.buffers : f.buffers[c] = e.buffers[c]
         BY <1>2, <1>6, <1>10 DEF Restrict
  <1>12. Closes(e, f, b)
         BY <1>2, <1>4, <1>6, <1>10, <1>11 DEF Closes, Restrict
  <1>13. /\ DOMAIN f.workbenches = DOMAIN d.workbenches
         /\ \A k \in DOMAIN d.workbenches : /\ f.workbenches[k].graph = d.workbenches[k].graph
                                            /\ f.workbenches[k].walks = d.workbenches[k].walks
                                            /\ f.workbenches[k].locations = d.workbenches[k].locations
         BY <1>5, <1>6, <1>7, <1>10 DEF IsState, IsWorkbench, Forget
  <1>14. JumpInv(f)
    <2>1. SameJumps(d, f)
          BY <1>13 DEF SameJumps
    <2> QED BY <1>2, <2>1, JumpsStay
  <1>15. Places(f) = Places(e)
    <2>1. \A p : p \in Places(f) <=> p \in Places(d)
      <3>1. \A k \in DOMAIN d.workbenches :
               /\ DOMAIN f.workbenches[k].graph.nodes = DOMAIN d.workbenches[k].graph.nodes
               /\ DOMAIN f.workbenches[k].locations = DOMAIN d.workbenches[k].locations
            BY <1>13
      <3> QED BY <1>13, <3>1, PlacesAre
    <2> QED BY <1>2, <2>1
  <1>16. \A p \in Places(e) : PlaceAt(f, p) = PlaceAt(d, p)
    <2> SUFFICES ASSUME NEW p \in Places(e)
                 PROVE  PlaceAt(f, p) = PlaceAt(d, p)
          OBVIOUS
    <2>1. PICK k \in DOMAIN d.workbenches :
                    \/ \E n \in DOMAIN d.workbenches[k].graph.nodes : p = NodePlace(k, n)
                    \/ \E i \in DOMAIN d.workbenches[k].locations : p = ItemPlace(k, i)
          BY <1>2, PlacesAre
    <2> QED BY <1>13, <2>1, PlacesAre
  <1>17. AnchorInv(f)
    <2>1. ListInv(f)
          BY <1>2, <1>13 DEF ListInv
    <2>2. \A p \in Places(e) :
            IF PlaceAt(e, p).buffer = b THEN IsPlace(PlaceAt(f, p)) /\ ~Attached(PlaceAt(f, p))
            ELSE PlaceAt(f, p) = PlaceAt(e, p)
          BY <1>2, <1>16
    <2>3. \A c \in DOMAIN f.buffers : /\ f.buffers[c].lines = e.buffers[c].lines
                                      /\ f.buffers[c].resource = e.buffers[c].resource
                                      /\ f.buffers[c].anchors = e.buffers[c].anchors
          BY <1>11
    <2>4. AnchorInv(e) /\ DOMAIN f.buffers = DOMAIN e.buffers \ {b}
          BY <1>1, <1>11
    <2> QED BY <1>15, <2>1, <2>2, <2>3, <2>4, BufferGoes
  <1>18. CaretInv(f)
    <2> SUFFICES ASSUME NEW c \in DOMAIN f.carets
                 PROVE  f.carets[c] \in 0..(f.buffers[c[2]].lines - 1)
          BY DEF CaretInv
    <2>1. /\ c \in DOMAIN s.carets /\ c[2] # b /\ f.carets[c] = s.carets[c]
          BY <1>10 DEF Restrict
    <2>2. CASE c \in DOMAIN e.carets
      <3>1. c[2] \in DOMAIN e.buffers /\ e.carets[c] \in 0..(e.buffers[c[2]].lines - 1)
            BY <1>1, <2>2 DEF CaretInv, ShownInv
      <3>2. f.carets[c] = e.carets[c]
            BY <1>2, <1>6, <2>1, <2>2
      <3> QED BY <1>11, <2>1, <3>1, <3>2
    <2>3. CASE c \notin DOMAIN e.carets
      <3>1. f.carets[c] = 0 /\ c \in showing \X {replacement}
            BY <1>2, <1>6, <2>1, <2>3
      <3>2. c[2] = replacement /\ replacement \in DOMAIN f.buffers
            BY <1>11, <3>1
      <3>3. f.buffers[replacement].lines \in Nat \ {0}
            BY <1>1, <1>11, <3>2 DEF RangeInv
      <3> QED BY <3>1, <3>2, <3>3
    <2> QED BY <2>2, <2>3
  <1> QED BY <1>9, <1>12, <1>14, <1>17, <1>18 DEF EditorInv, f

-----------------------------------------------------------------------------
(* Files and saves.                                                        *)

FilesInv ==
    /\ DOMAIN files = Resources
    /\ \A r \in Resources : files[r] \subseteq Nat \ {0}

OpensInv == \A o \in opens : o.resource \in Resources /\ o.line \in Nat \cup {NoLine}

\* A write has a text that could be a buffer's, of a buffer that is or was.
WriteInv(e, w) ==
    /\ DOMAIN w = {"buffer", "resource", "text", "written"}
    /\ w.resource \in Resources /\ w.text \in Nat \ {0}
    /\ w.written => w.text \in files[w.resource]
    /\ Live(e.bufferSlots, w.buffer) \/ Past(e.bufferSlots, w.buffer)

\* The write of a buffer that is being saved is its own.
OwnWrite(e, b) ==
    IF b \in DOMAIN e.saving
    THEN \E w \in writes : w.text = e.saving[b] /\ \A v \in writes : v.buffer = b <=> v = w
    ELSE \A w \in writes : w.buffer # b

SaveInv(e) ==
    /\ DOMAIN e.saving \subseteq DOMAIN e.buffers
    /\ \A w \in writes : WriteInv(e, w)
    /\ \A b \in DOMAIN e.buffers :
        OwnWrite(e, b) /\ e.buffers[b].saved \in {1} \cup UNION Range(files)

\* The state between two steps of a command.
Fine(e, surface) == EditorInv(e, surface) /\ SaveInv(e)

SameSaves(e, f) ==
    /\ DOMAIN f.buffers = DOMAIN e.buffers
    /\ \A b \in DOMAIN e.buffers : f.buffers[b].saved = e.buffers[b].saved
    /\ f.saving = e.saving /\ f.bufferSlots = e.bufferSlots

\* What touches no save point, save or slot keeps what is said of saves.
LEMMA SavesStay ==
  ASSUME NEW e, NEW f, SaveInv(e), SameSaves(e, f)
  PROVE  SaveInv(f)
  <1>1. \A w \in writes : WriteInv(f, w)
        BY DEF SaveInv, SameSaves, WriteInv
  <1>2. \A b \in DOMAIN f.buffers : OwnWrite(f, b)
        BY DEF SaveInv, SameSaves, OwnWrite
  <1> QED BY <1>1, <1>2 DEF SaveInv, SameSaves

\* So does what keeps what a command relies on.
LEMMA KeptSaves ==
  ASSUME NEW e, NEW f, SaveInv(e), Keeps(e, f)
  PROVE  SaveInv(f)
  <1>1. SameSaves(e, f)
        BY DEF Keeps, SameSaves
  <1> QED BY <1>1, SavesStay

\* A new buffer has never been saved.
LEMMA OpenedSaves ==
  ASSUME NEW e, NEW f, NEW surface, Fine(e, surface), NEW resource, NEW lines,
         Opens(e, f, CreatedBuffer(e), resource, lines), lines \in {1} \cup UNION Range(files)
  PROVE  SaveInv(f)
  <1> DEFINE b == CreatedBuffer(e)
  <1>1. WindowInv(e, {}, surface) /\ SaveInv(e)
        BY DEF Fine, EditorInv
  <1>2. /\ IsSlots(e.bufferSlots) /\ b = NextHandle(e.bufferSlots)
        /\ f.bufferSlots = Taken(e.bufferSlots)
        BY <1>1 DEF WindowInv, SlotInv, CreatedBuffer, Opens
  <1> HIDE DEF b
  <1>3. /\ ~Live(e.bufferSlots, b) /\ ~Past(e.bufferSlots, b)
        /\ \A h : Live(e.bufferSlots, h) => Live(f.bufferSlots, h)
        /\ \A h : Past(e.bufferSlots, h) => Past(f.bufferSlots, h)
        BY <1>2, HandleTaken
  <1>4. \A w \in writes : WriteInv(f, w) /\ w.buffer # b
        BY <1>1, <1>3 DEF SaveInv, WriteInv
  <1>5. /\ DOMAIN f.buffers = DOMAIN e.buffers \cup {b} /\ b \notin DOMAIN e.buffers
        /\ f.saving = e.saving /\ f.buffers[b].saved = lines
        /\ \A c \in DOMAIN e.buffers : f.buffers[c].saved = e.buffers[c].saved
        BY DEF Opens, b
  <1>6. OwnWrite(f, b)
        BY <1>1, <1>4, <1>5 DEF OwnWrite, SaveInv
  <1>7. \A c \in DOMAIN e.buffers : OwnWrite(f, c)
        BY <1>1, <1>5 DEF OwnWrite, SaveInv
  <1> QED BY <1>1, <1>4, <1>5, <1>6, <1>7 DEF SaveInv

\* A buffer that closes leaves its writes, but nobody waits for them.
LEMMA ClosedSaves ==
  ASSUME NEW e, NEW f, NEW surface, Fine(e, surface), NEW b \in DOMAIN e.buffers, Closes(e, f, b)
  PROVE  SaveInv(f)
  <1>1. IsSlots(e.bufferSlots) /\ Live(e.bufferSlots, b) /\ SaveInv(e)
        BY DEF Fine, EditorInv, WindowInv, SlotInv
  <1>2. /\ f.bufferSlots = Freed(e.bufferSlots, b) /\ DOMAIN f.buffers = DOMAIN e.buffers \ {b}
        /\ \A c \in DOMAIN f.buffers : f.buffers[c].saved = e.buffers[c].saved
        /\ DOMAIN f.saving = DOMAIN e.saving \ {b}
        /\ \A c \in DOMAIN f.saving : f.saving[c] = e.saving[c]
        BY DEF Closes
  <1>3. /\ Past(f.bufferSlots, b)
        /\ \A g : Live(e.bufferSlots, g) /\ g # b => Live(f.bufferSlots, g)
        /\ \A g : Past(e.bufferSlots, g) => Past(f.bufferSlots, g)
        BY <1>1, <1>2, HandleFreed
  <1>4. \A w \in writes : WriteInv(f, w)
        BY <1>1, <1>3 DEF SaveInv, WriteInv
  <1>5. \A c \in DOMAIN f.buffers : OwnWrite(f, c)
        BY <1>1, <1>2 DEF OwnWrite, SaveInv
  <1> QED BY <1>1, <1>2, <1>4, <1>5 DEF SaveInv

-----------------------------------------------------------------------------
(* The surface of the minibuffer.                                          *)

\* Other slots, of a state that is otherwise as it was.
LEMMA SlotsChange ==
  ASSUME NEW e, NEW f, NEW surface, NEW next, EditorInv(e, surface), DOMAIN f = EditorFields,
         f.buffers = e.buffers, f.windows = e.windows, f.carets = e.carets,
         f.workbenches = e.workbenches, f.active = e.active, f.placeholder = e.placeholder,
         SlotInv(f, next)
  PROVE  EditorInv(f, next)
  <1>1. IsState(f)
        BY DEF EditorInv, IsState
  <1>2. LayoutInv(f, {}) /\ ShownInv(f)
        BY DEF EditorInv, WindowInv, LayoutInv, ShownInv
  <1>3. JumpInv(f) /\ CaretInv(f)
        BY DEF EditorInv, JumpInv, CaretInv
  <1>4. AnchorInv(f)
    <2>1. SamePlaces(e, f)
          BY DEF SamePlaces
    <2> QED BY <2>1, AnchorsStay DEF EditorInv
  <1> QED BY <1>1, <1>2, <1>3, <1>4 DEF EditorInv, WindowInv

SurfaceOf(e) == [buffer |-> NextHandle(e.bufferSlots), window |-> NextHandle(e.windowSlots)]

\* The surface of the minibuffer takes slots that nothing else has.
LEMMA WithSurfaceIsFine ==
  ASSUME NEW e, Fine(e, {})
  PROVE  Fine(WithSurface(e), {SurfaceOf(e)})
  <1> DEFINE f == WithSurface(e)
             s == SurfaceOf(e)
  <1>1. IsState(e) /\ SlotInv(e, {}) /\ EditorInv(e, {}) /\ SaveInv(e)
        BY DEF Fine, EditorInv, WindowInv
  <1>2. /\ DOMAIN f = EditorFields /\ f.buffers = e.buffers /\ f.windows = e.windows
        /\ f.carets = e.carets /\ f.workbenches = e.workbenches /\ f.active = e.active
        /\ f.placeholder = e.placeholder /\ f.saving = e.saving
        /\ f.workbenchSlots = e.workbenchSlots
        /\ f.bufferSlots = Taken(e.bufferSlots) /\ f.windowSlots = Taken(e.windowSlots)
        BY <1>1 DEF IsState, EditorFields, WithSurface
  <1>3. s.buffer = NextHandle(e.bufferSlots) /\ s.window = NextHandle(e.windowSlots)
        BY DEF SurfaceOf
  <1> HIDE DEF f, s
  <1>4. IsSlots(e.bufferSlots) /\ IsSlots(e.windowSlots)
        BY <1>1 DEF SlotInv
  <1>5. /\ IsSlots(f.bufferSlots) /\ Live(f.bufferSlots, s.buffer) /\ ~Live(e.bufferSlots, s.buffer)
        /\ \A h : Live(e.bufferSlots, h) => Live(f.bufferSlots, h)
        /\ \A h : Past(e.bufferSlots, h) => Past(f.bufferSlots, h)
        BY <1>2, <1>3, <1>4, HandleTaken
  <1>6. /\ IsSlots(f.windowSlots) /\ Live(f.windowSlots, s.window) /\ ~Live(e.windowSlots, s.window)
        /\ \A h : Live(e.windowSlots, h) => Live(f.windowSlots, h)
        BY <1>2, <1>3, <1>4, HandleTaken
  <1>7. SlotInv(f, {s})
        BY <1>1, <1>2, <1>5, <1>6 DEF SlotInv
  <1> DEFINE next == {s}
  <1>8. SlotInv(f, next)
        BY <1>7
  <1> HIDE DEF next
  <1>9. EditorInv(f, next)
        BY <1>1, <1>2, <1>8, SlotsChange
  <1>10. SaveInv(f)
    <2>1. \A w \in writes : WriteInv(f, w)
          BY <1>1, <1>5 DEF SaveInv, WriteInv
    <2>2. \A b \in DOMAIN f.buffers : OwnWrite(f, b)
          BY <1>1, <1>2 DEF SaveInv, OwnWrite
    <2> QED BY <1>1, <1>2, <2>1, <2>2 DEF SaveInv
  <1> QED BY <1>9, <1>10 DEF Fine, next, f, s

\* It is taken down.
LEMMA FreedSurfaceIsFine ==
  ASSUME NEW e, NEW s, NEW surface, surface = {s}, Fine(e, surface), NEW f,
         f = [e EXCEPT !.bufferSlots = Freed(@, s.buffer), !.windowSlots = Freed(@, s.window)]
  PROVE  Fine(f, {})
  <1>1. IsState(e) /\ SlotInv(e, surface) /\ EditorInv(e, surface) /\ SaveInv(e)
        BY DEF Fine, EditorInv, WindowInv
  <1>2. /\ DOMAIN f = EditorFields /\ f.buffers = e.buffers /\ f.windows = e.windows
        /\ f.carets = e.carets /\ f.workbenches = e.workbenches /\ f.active = e.active
        /\ f.placeholder = e.placeholder /\ f.saving = e.saving
        /\ f.workbenchSlots = e.workbenchSlots
        /\ f.bufferSlots = Freed(e.bufferSlots, s.buffer)
        /\ f.windowSlots = Freed(e.windowSlots, s.window)
        BY <1>1 DEF IsState, EditorFields
  <1>3. /\ IsSlots(e.bufferSlots) /\ Live(e.bufferSlots, s.buffer) /\ s.buffer \notin DOMAIN e.buffers
        /\ IsSlots(e.windowSlots) /\ Live(e.windowSlots, s.window) /\ s.window \notin DOMAIN e.windows
        BY <1>1 DEF SlotInv
  <1>4. /\ IsSlots(f.bufferSlots) /\ Past(f.bufferSlots, s.buffer)
        /\ \A h : Live(e.bufferSlots, h) /\ h # s.buffer => Live(f.bufferSlots, h)
        /\ \A h : Past(e.bufferSlots, h) => Past(f.bufferSlots, h)
        BY <1>2, <1>3, HandleFreed
  <1>5. /\ IsSlots(f.windowSlots)
        /\ \A h : Live(e.windowSlots, h) /\ h # s.window => Live(f.windowSlots, h)
        BY <1>2, <1>3, HandleFreed
  <1>6. SlotInv(f, {})
        BY <1>1, <1>2, <1>3, <1>4, <1>5 DEF SlotInv
  <1>7. EditorInv(f, {})
        BY <1>1, <1>2, <1>6, SlotsChange
  <1>8. SaveInv(f)
    <2>1. \A w \in writes : WriteInv(f, w)
          BY <1>1, <1>4 DEF SaveInv, WriteInv
    <2>2. \A b \in DOMAIN f.buffers : OwnWrite(f, b)
          BY <1>1, <1>2 DEF SaveInv, OwnWrite
    <2> QED BY <1>1, <1>2, <2>1, <2>2 DEF SaveInv
  <1> QED BY <1>7, <1>8 DEF Fine

-----------------------------------------------------------------------------
(* Part two: the actions.                                                  *)

-----------------------------------------------------------------------------
(* The inductive invariant, part by part.                                  *)

Fields == {"kind", "custom", "origin", "window", "buffer", "input", "navigation", "candidates",
           "revision", "selection", "generation", "loading", "error", "pending"}

\* An interaction has an origin, which is what tells it from Closed.
IsInteraction(m) == DOMAIN m = Fields /\ m.origin # <<>>

IsLookup(l) ==
    /\ l = [generation |-> l.generation, input |-> l.input, cancelled |-> l.cancelled]
    /\ l.generation \in Nat \ {0} /\ l.cancelled \in BOOLEAN

\* Each task has a generation of its own, which has been given out.
LookupInv ==
    /\ generation \in Nat
    /\ \A l \in lookups : IsLookup(l) /\ l.generation <= generation
    /\ \A l, k \in lookups : l.generation = k.generation => l = k

\* The one task that has not been asked to stop is the one an interaction loads from,
\* and can be asked to stop by it.
PendingInv ==
    /\ minibuffer = Closed => \A l \in lookups : l.cancelled
    /\ minibuffer # Closed =>
        /\ IsInteraction(minibuffer)
        /\ minibuffer.generation \in Nat /\ minibuffer.generation <= generation
        /\ minibuffer.loading \in BOOLEAN
        /\ minibuffer.loading =>
              /\ minibuffer.pending = minibuffer.generation
              /\ \E l \in lookups : l.generation = minibuffer.generation
        /\ \A l \in lookups : l.generation = minibuffer.generation <=> ~l.cancelled
        /\ \A l \in lookups : ~l.cancelled => minibuffer.loading

\* What is shown, or will be, is for the input, unless that was recalled.
InputInv ==
    minibuffer # Closed /\ minibuffer.navigation = NotRecalled =>
        /\ \A l \in lookups : l.generation = minibuffer.generation => l.input = minibuffer.input
        /\ minibuffer.kind = "picker" =>
              minibuffer.loading \/ minibuffer.error \/ minibuffer.candidates = minibuffer.input

IInv == LookupInv /\ PendingInv /\ InputInv

-----------------------------------------------------------------------------
(* Steps of the minibuffer.                                                *)

\* An interaction is not the lack of one.
LEMMA InteractionIsOpen ==
  ASSUME NEW m, IsInteraction(m)
  PROVE  m # Closed
  BY DEF IsInteraction, Closed

\* Once the pending task is asked to stop, all have been.
LEMMA AllCancelled ==
  ASSUME IInv
  PROVE  /\ \A l \in Cancelled : IsLookup(l) /\ l.generation <= generation /\ l.cancelled
         /\ \A l, k \in Cancelled : l.generation = k.generation => l = k
<1>1. \A l \in lookups : ~l.cancelled => l.generation = minibuffer.pending
  BY DEF IInv, LookupInv, PendingInv, IsLookup
<1>3. ASSUME NEW l \in Cancelled
      PROVE  /\ IsLookup(l) /\ l.generation <= generation /\ l.cancelled
             /\ \E k \in lookups : l.generation = k.generation /\ l.input = k.input
  <2>1. PICK k \in lookups :
            l = [generation |-> k.generation, input |-> k.input,
                 cancelled |-> k.cancelled \/ k.generation = minibuffer.pending]
    BY DEF Cancelled
  <2>2. /\ l.generation = k.generation /\ l.input = k.input
        /\ l.cancelled = (k.cancelled \/ k.generation = minibuffer.pending)
    BY <2>1
  <2>3. l = [generation |-> l.generation, input |-> l.input, cancelled |-> l.cancelled]
    BY <2>1, <2>2
  <2>4. l.cancelled
    BY <1>1, <2>2
  <2>5. IsLookup(k) /\ k.generation <= generation
    BY DEF IInv, LookupInv
  <2> QED BY <2>2, <2>3, <2>4, <2>5 DEF IsLookup
<1>4. ASSUME NEW l \in Cancelled, NEW k \in Cancelled, l.generation = k.generation
      PROVE  l = k
  <2>1. PICK i \in lookups : l.generation = i.generation /\ l.input = i.input
    BY <1>3
  <2>2. PICK j \in lookups : k.generation = j.generation /\ k.input = j.input
    BY <1>3
  <2>3. i = j
    BY <1>4, <2>1, <2>2 DEF IInv, LookupInv
  <2> QED BY <1>3, <1>4, <2>1, <2>2, <2>3 DEF IsLookup
<1> QED BY <1>3, <1>4

\* The lookup before is asked to stop, and a new one has a new generation.
LEMMA RefreshStep ==
  ASSUME IInv, NEW m, IsInteraction(m), NEW askable, Refresh(m, askable)
  PROVE  IInv'
<1> DEFINE g == generation + 1
           fresh == [m EXCEPT !.generation = g, !.loading = FALSE, !.error = FALSE, !.pending = 0]
<1>0. generation \in Nat /\ g \in Nat \ {0} /\ generation' = g
  BY DEF IInv, LookupInv, Refresh
<1>1. /\ IsInteraction(fresh) /\ fresh.generation = g /\ fresh.loading = FALSE
      /\ fresh.kind = m.kind /\ fresh.input = m.input /\ fresh.navigation = m.navigation
  BY DEF IsInteraction, Fields
<1>2. \A l \in Cancelled : IsLookup(l) /\ l.generation # g /\ l.generation <= g /\ l.cancelled
  BY <1>0, AllCancelled DEF IsLookup
<1>3. ASSUME IsInteraction(minibuffer'), minibuffer'.generation = g, minibuffer'.loading = FALSE,
             lookups' = Cancelled,
             minibuffer'.kind = "picker" => minibuffer'.error \/ minibuffer'.candidates = minibuffer'.input
      PROVE  IInv'
  <2> HIDE DEF fresh
  <2>1. minibuffer' # Closed
    BY <1>3, InteractionIsOpen
  <2>2. LookupInv'
    BY <1>0, <1>2, <1>3, AllCancelled DEF LookupInv
  <2>3. PendingInv'
    <3>1. IsInteraction(minibuffer)'
      BY <1>3 DEF IsInteraction
    <3>2. minibuffer'.generation \in Nat /\ minibuffer'.generation <= generation'
      BY <1>0, <1>3
    <3>3. \A l \in lookups' : l.generation # minibuffer'.generation /\ l.cancelled
      BY <1>2, <1>3
    <3> QED BY <1>3, <2>1, <3>1, <3>2, <3>3 DEF PendingInv
  <2>4. InputInv'
    BY <1>2, <1>3 DEF InputInv
  <2> QED BY <2>2, <2>3, <2>4 DEF IInv
<1>4. CASE /\ m.kind = "text"
           /\ minibuffer' = Published(fresh, NoCandidates) /\ lookups' = Cancelled
  <2>1. /\ IsInteraction(minibuffer') /\ minibuffer'.generation = g
        /\ minibuffer'.loading = FALSE /\ minibuffer'.kind = "text"
    BY <1>1, <1>4 DEF IsInteraction, Fields, Published
  <2> QED BY <1>3, <1>4, <2>1
<1>5. CASE minibuffer' = Published(fresh, m.input) /\ lookups' = Cancelled
  <2>1. /\ IsInteraction(minibuffer') /\ minibuffer'.generation = g
        /\ minibuffer'.loading = FALSE /\ minibuffer'.candidates = minibuffer'.input
    BY <1>1, <1>5 DEF IsInteraction, Fields, Published
  <2> QED BY <1>3, <1>5, <2>1
<1>6. CASE minibuffer' = [fresh EXCEPT !.error = TRUE] /\ lookups' = Cancelled
  <2>1. /\ IsInteraction(minibuffer') /\ minibuffer'.generation = g
        /\ minibuffer'.loading = FALSE /\ minibuffer'.error = TRUE
    BY <1>1, <1>6 DEF IsInteraction, Fields
  <2> QED BY <1>3, <1>6, <2>1
<1>7. CASE /\ minibuffer' = [fresh EXCEPT !.loading = TRUE, !.pending = g]
           /\ lookups' = Cancelled \cup {[generation |-> g, input |-> m.input, cancelled |-> FALSE]}
  <2>1. /\ IsInteraction(minibuffer') /\ minibuffer'.generation = g
        /\ minibuffer'.loading = TRUE /\ minibuffer'.pending = g
        /\ minibuffer'.input = m.input
    BY <1>1, <1>7 DEF IsInteraction, Fields
  <2>2. PICK new : new = [generation |-> g, input |-> m.input, cancelled |-> FALSE]
    OBVIOUS
  <2>3. /\ IsLookup(new) /\ new.generation = g /\ ~new.cancelled
        /\ new.input = m.input /\ lookups' = Cancelled \cup {new}
    BY <1>0, <1>7, <2>2 DEF IsLookup
  <2> HIDE DEF fresh
  <2>4. LookupInv'
    BY <1>0, <1>2, <2>3, AllCancelled DEF LookupInv
  <2>5. PendingInv'
    <3>1. minibuffer' # Closed
      BY <2>1, InteractionIsOpen
    <3>2. /\ \A l \in lookups' : l.generation = minibuffer'.generation <=> ~l.cancelled
          /\ \E l \in lookups' : l.generation = minibuffer'.generation
      BY <1>2, <2>1, <2>3
    <3>4. /\ minibuffer'.generation \in Nat /\ minibuffer'.generation <= generation'
          /\ minibuffer'.pending = minibuffer'.generation
      BY <1>0, <2>1
    <3>3. IsInteraction(minibuffer)'
      BY <2>1 DEF IsInteraction
    <3> QED BY <2>1, <3>1, <3>2, <3>3, <3>4 DEF PendingInv
  <2>6. InputInv'
    BY <1>2, <2>1, <2>3 DEF InputInv
  <2> QED BY <2>4, <2>5, <2>6 DEF IInv
<1> QED BY <1>4, <1>5, <1>6, <1>7 DEF Refresh

\* What comes of a task: the interaction that waited for it is settled, or nobody is.
LEMMA SettleStep ==
  ASSUME IInv, Settle
  PROVE  IInv'
<1>1. PICK l \in lookups :
        /\ lookups' = lookups \ {l} /\ UNCHANGED generation
        /\ \/ Answer(l, IF minibuffer = Closed THEN Closed
                        ELSE [Published(Settled, l.input) EXCEPT !.error = FALSE])
           \/ Answer(l, IF minibuffer = Closed THEN Closed ELSE [Settled EXCEPT !.error = TRUE])
           \/ l.cancelled /\ Answer(l, IF minibuffer = Closed THEN Closed ELSE Settled)
  BY DEF Settle, CandidatesArrive, LookupFails, LookupCancelled, Answer
<1>2. LookupInv'
  BY <1>1 DEF IInv, LookupInv, IsLookup
<1>3. CASE ~IsForMinibuffer(l)
  <2>1. minibuffer' = minibuffer
    BY <1>1, <1>3 DEF Answer
  <2>2. PendingInv'
    BY <1>1, <1>3, <2>1 DEF IInv, PendingInv, IsForMinibuffer, IsInteraction
  <2>3. InputInv'
    BY <1>1, <2>1 DEF IInv, InputInv
  <2> QED BY <1>2, <2>2, <2>3 DEF IInv
<1>4. CASE IsForMinibuffer(l)
  <2>1. /\ minibuffer # Closed /\ IsInteraction(minibuffer) /\ ~l.cancelled
        /\ minibuffer.generation \in Nat /\ minibuffer.generation <= generation
        /\ \A k \in lookups' : k.generation # minibuffer.generation /\ k.cancelled
    BY <1>1, <1>4 DEF IInv, PendingInv, LookupInv, IsForMinibuffer
  <2>2. /\ IsInteraction(Settled) /\ Settled.generation = minibuffer.generation
        /\ Settled.loading = FALSE /\ Settled.input = minibuffer.input
        /\ Settled.navigation = minibuffer.navigation /\ Settled.kind = minibuffer.kind
    BY <2>1 DEF Settled, IsInteraction, Fields
  <2>3. /\ IsInteraction(minibuffer') /\ minibuffer'.generation = minibuffer.generation
        /\ minibuffer'.loading = FALSE /\ minibuffer'.input = minibuffer.input
        /\ minibuffer'.navigation = minibuffer.navigation
        /\ minibuffer'.error = TRUE \/ minibuffer'.candidates = l.input
    <3>1. \/ minibuffer' = [Published(Settled, l.input) EXCEPT !.error = FALSE]
          \/ minibuffer' = [Settled EXCEPT !.error = TRUE]
      BY <1>1, <1>4, <2>1 DEF Answer
    <3>2. CASE minibuffer' = [Published(Settled, l.input) EXCEPT !.error = FALSE]
      BY <2>2, <3>2 DEF IsInteraction, Fields, Published
    <3>3. CASE minibuffer' = [Settled EXCEPT !.error = TRUE]
      BY <2>2, <3>3 DEF IsInteraction, Fields
    <3> QED BY <3>1, <3>2, <3>3
  <2>4. minibuffer' # Closed
    BY <2>3, InteractionIsOpen
  <2>5. PendingInv'
    <3>1. IsInteraction(minibuffer)'
      BY <2>3 DEF IsInteraction
    <3> QED BY <1>1, <2>1, <2>3, <2>4, <3>1 DEF PendingInv
  <2>6. InputInv'
    <3>1. minibuffer.navigation = NotRecalled => l.input = minibuffer.input
      BY <1>4 DEF IInv, InputInv, IsForMinibuffer
    <3> QED BY <2>1, <2>3, <3>1 DEF InputInv
  <2> QED BY <1>2, <2>5, <2>6 DEF IInv
<1> QED BY <1>3, <1>4

\* The interaction ends: by a submission or by cancel().
LEMMA CloseStep ==
  ASSUME IInv, minibuffer' = Closed, lookups' = Cancelled, UNCHANGED generation
  PROVE  IInv'
  BY AllCancelled DEF IInv, LookupInv, PendingInv, InputInv

\* A step that leaves the candidates and what they were asked for.
LEMMA KeepStep ==
  ASSUME IInv, minibuffer # Closed, IsInteraction(minibuffer'), UNCHANGED <<lookups, generation>>,
         minibuffer'.generation = minibuffer.generation, minibuffer'.loading = minibuffer.loading,
         minibuffer'.pending = minibuffer.pending,
         \/ minibuffer'.navigation # NotRecalled
         \/ /\ minibuffer'.navigation = minibuffer.navigation
            /\ minibuffer'.input = minibuffer.input /\ minibuffer'.kind = minibuffer.kind
            /\ minibuffer'.error = minibuffer.error \/ minibuffer'.error = TRUE
            /\ minibuffer'.candidates = minibuffer.candidates
  PROVE  IInv'
<1>1. minibuffer' # Closed /\ IsInteraction(minibuffer)'
  BY InteractionIsOpen DEF IsInteraction
<1>2. LookupInv' /\ PendingInv'
  BY <1>1 DEF IInv, LookupInv, PendingInv, IsLookup
<1>3. InputInv'
  BY DEF IInv, InputInv
<1> QED BY <1>2, <1>3 DEF IInv

-----------------------------------------------------------------------------
(* Steps of the editor.                                                    *)

\* Nothing is asked at first.
LEMMA InitInv == Init => IInv
  BY DEF Init, MinibufferInit, IInv, LookupInv, PendingInv, InputInv

\* A submission takes the interaction down, and its lookup with it.
LEMMA SubmitStep ==
  ASSUME IInv, Submit
  PROVE  IInv'
  BY CloseStep DEF Submit

\* A command of a key leaves the interaction alone, for there is none.
LEMMA CommandStep ==
  ASSUME IInv, NEW kind, Command(kind)
  PROVE  IInv'
<1>1. CASE UNCHANGED prompt
  BY <1>1 DEF IInv, LookupInv, PendingInv, InputInv, prompt, IsInteraction, IsLookup
<1> QED BY <1>1, SubmitStep DEF Command

\* An interaction that replaces another withdraws the lookup of that one.
LEMMA StartStep ==
  ASSUME IInv, NEW kind, NEW custom, Start(kind, custom)
  PROVE  IInv'
<1>1. PICK e : Refresh(Opened(kind, custom,
                        IF minibuffer = Closed
                        THEN <<ActiveWindow(editor), editor.windows[ActiveWindow(editor)]>>
                        ELSE minibuffer.origin,
                        [buffer |-> NextHandle(e.bufferSlots), window |-> NextHandle(e.windowSlots)]),
                       OriginIsDisplayed)
  BY DEF Start
<1>2. \A a, b : <<a, b>> # <<>>
  OBVIOUS
<1>3. minibuffer # Closed => minibuffer.origin # <<>>
  BY DEF IInv, PendingInv, IsInteraction
<1>4. \A origin, surface : origin # <<>> => IsInteraction(Opened(kind, custom, origin, surface))
  BY DEF IsInteraction, Opened, Fields
<1> QED BY <1>1, <1>2, <1>3, <1>4, RefreshStep

\* What is typed is looked up, what is recalled is not.
LEMMA EditInputStep ==
  ASSUME IInv, EditInput
  PROVE  IInv'
<1>1. minibuffer # Closed /\ IsInteraction(minibuffer)
  BY DEF EditInput, IInv, PendingInv
<1>2. ASSUME NEW text, TypeInto(minibuffer, text, OriginIsDisplayed)
      PROVE  IInv'
  <2>1. IsInteraction([minibuffer EXCEPT !.input = text, !.navigation = NotRecalled])
    BY <1>1 DEF IsInteraction, Fields
  <2> QED BY <1>2, <2>1, RefreshStep DEF TypeInto
<1>3. CASE Refresh(minibuffer, OriginIsDisplayed)
  BY <1>1, <1>3, RefreshStep
<1>4. CASE MoveHistory(minibuffer)
  <2>1. PICK text, index, draft : minibuffer' = Recall(minibuffer, text, index, draft)
    BY <1>4 DEF MoveHistory, RecallOlder, RecallNewer
  <2>2. <<index, draft>> # NotRecalled
    BY DEF NotRecalled
  <2>3. /\ IsInteraction(minibuffer') /\ minibuffer'.navigation = <<index, draft>>
        /\ minibuffer'.generation = minibuffer.generation
        /\ minibuffer'.loading = minibuffer.loading /\ minibuffer'.pending = minibuffer.pending
    BY <1>1, <2>1 DEF Recall, IsInteraction, Fields
  <2> QED BY <1>1, <1>4, <2>2, <2>3, KeepStep DEF MoveHistory
<1>5. CASE MoveCandidate(minibuffer)
  <2>1. PICK selection : minibuffer' = [minibuffer EXCEPT !.selection = selection]
    BY <1>5 DEF MoveCandidate
  <2>2. /\ IsInteraction(minibuffer') /\ minibuffer'.navigation = minibuffer.navigation
        /\ minibuffer'.generation = minibuffer.generation
        /\ minibuffer'.loading = minibuffer.loading /\ minibuffer'.pending = minibuffer.pending
        /\ minibuffer'.input = minibuffer.input /\ minibuffer'.kind = minibuffer.kind
        /\ minibuffer'.error = minibuffer.error /\ minibuffer'.candidates = minibuffer.candidates
    BY <1>1, <2>1 DEF IsInteraction, Fields
  <2> QED BY <1>1, <1>5, <2>2, KeepStep DEF MoveCandidate
<1> QED BY <1>2, <1>3, <1>4, <1>5 DEF EditInput

\* A refused submission leaves the interaction as it is.
LEMMA RefuseStep ==
  ASSUME IInv, RefuseInput
  PROVE  IInv'
<1>1. minibuffer # Closed /\ IsInteraction(minibuffer)
  BY DEF RefuseInput, IInv, PendingInv
<1>2. minibuffer' = [minibuffer EXCEPT !.error = TRUE] /\ UNCHANGED <<lookups, generation>>
  BY DEF RefuseInput, RefuseSubmission
<1>3. /\ IsInteraction(minibuffer') /\ minibuffer'.navigation = minibuffer.navigation
      /\ minibuffer'.generation = minibuffer.generation
      /\ minibuffer'.loading = minibuffer.loading /\ minibuffer'.pending = minibuffer.pending
      /\ minibuffer'.input = minibuffer.input /\ minibuffer'.kind = minibuffer.kind
      /\ minibuffer'.error = TRUE /\ minibuffer'.candidates = minibuffer.candidates
  BY <1>1, <1>2 DEF IsInteraction, Fields
<1> QED BY <1>1, <1>2, <1>3, KeepStep

\* Most steps leave the interaction alone.
LEMMA KeepPrompt ==
  ASSUME IInv, UNCHANGED prompt
  PROVE  IInv'
  BY DEF IInv, LookupInv, PendingInv, InputInv, prompt, IsInteraction, IsLookup

\* Each step keeps the invariant of the prompt.
LEMMA NextStep ==
  ASSUME IInv, [Next]_vars
  PROVE  IInv'
<1>1. CASE Ask
  BY <1>1, StartStep DEF Ask
<1>2. CASE Pick
  BY <1>2, StartStep DEF Pick
<1>3. CASE EditInput
  BY <1>3, EditInputStep
<1>4. CASE RefuseInput
  BY <1>4, RefuseStep
<1>5. CASE CancelInteraction
  BY <1>5, CloseStep DEF CancelInteraction, Dismiss
<1>6. CASE SettleLookup
  BY <1>6, SettleStep DEF SettleLookup
<1>7. CASE SubmitToNowhere
  BY <1>7, SubmitStep DEF SubmitToNowhere
<1>8. CASE FinishOpen \/ FailOpen \/ FinishSearch \/ FailSearch
  BY <1>8, KeepPrompt DEF FinishOpen, FailOpen, FinishSearch, FailSearch
<1>9. CASE WriteFile \/ FinishSave \/ SelectWindow
  BY <1>9, KeepPrompt DEF WriteFile, FinishSave, SelectWindow
<1>10. CASE OpenFile \/ StartSearch \/ KillBuffer \/ SwitchBuffer \/ Edit \/ GoToLine
  BY <1>10, CommandStep DEF OpenFile, StartSearch, KillBuffer, SwitchBuffer, Edit, GoToLine
<1>11. CASE Save \/ SaveAs \/ SplitWindow \/ DeleteWindow \/ DeleteOtherWindows
  BY <1>11, CommandStep DEF Save, SaveAs, SplitWindow, DeleteWindow, DeleteOtherWindows
<1>12. CASE CreateWorkbench \/ SwitchWorkbench \/ CloseWorkbench
  BY <1>12, CommandStep DEF CreateWorkbench, SwitchWorkbench, CloseWorkbench
<1>13. CASE LinkJump \/ NavigateJump \/ VisitJump
  BY <1>13, CommandStep DEF LinkJump, NavigateJump, VisitJump
<1>14. CASE UNCHANGED vars
  BY <1>14, KeepPrompt DEF vars
<1> QED BY <1>1, <1>2, <1>3, <1>4, <1>5, <1>6, <1>7, <1>8, <1>9, <1>10, <1>11, <1>12, <1>13, <1>14
        DEF Next

-----------------------------------------------------------------------------
(* Windows that go, and workbenches.                                       *)

\* The places of a state are the ones of another, or in no buffer.
LEMMA HoldersStay ==
  ASSUME NEW e, NEW f, AnchorInv(e), NEW more,
         Places(f) = Places(e) \cup more,
         \A p \in Places(e) : /\ IsPlace(PlaceAt(f, p))
                              /\ PlaceAt(f, p).buffer = PlaceAt(e, p).buffer
                              /\ PlaceAt(f, p).anchor = PlaceAt(e, p).anchor,
         \A p \in more : p \notin Places(e) /\ IsPlace(PlaceAt(f, p)) /\ ~Attached(PlaceAt(f, p)),
         DOMAIN f.buffers = DOMAIN e.buffers,
         \A b \in DOMAIN e.buffers : DOMAIN f.buffers[b].anchors = DOMAIN e.buffers[b].anchors,
         RangeInv(f), ListInv(f)
  PROVE  AnchorInv(f)
  <1>1. PlaceInv(f)
        BY DEF AnchorInv, PlaceInv, Attached
  <1>2. OwnedInv(f)
    <2>1. ASSUME NEW b \in DOMAIN f.buffers, NEW a \in DOMAIN f.buffers[b].anchors
          PROVE  /\ \E p \in Places(f) : Holds(f, p, b, a)
                 /\ \A p, q \in Places(f) : Holds(f, p, b, a) /\ Holds(f, q, b, a) => p = q
      <3>1. b # NoHandle
            BY DEF RangeInv
      <3>2. \A p \in Places(f) : Holds(f, p, b, a) => p \in Places(e)
            BY <3>1 DEF Holds, Attached
      <3>3. \A p \in Places(e) : Holds(f, p, b, a) <=> Holds(e, p, b, a)
            BY DEF Holds
      <3>4. /\ \E p \in Places(e) : Holds(e, p, b, a)
            /\ \A p, q \in Places(e) : Holds(e, p, b, a) /\ Holds(e, q, b, a) => p = q
            BY DEF AnchorInv, OwnedInv
      <3> QED BY <3>2, <3>3, <3>4
    <2> QED BY <2>1 DEF OwnedInv
  <1> QED BY <1>1, <1>2 DEF AnchorInv

\* Activate: the window in use of that workbench is focused.
LEMMA ActivateKeeps ==
  ASSUME NEW e, NEW surface, EditorInv(e, surface), NEW k \in DOMAIN e.workbenches
  PROVE  LET f == Activate(e, k) IN EditorInv(f, surface) /\ SameSaves(e, f)
  <1> DEFINE w == e.workbenches[k].active
             c == FocusWindow(e, k, w)
             f == Activate(e, k)
  <1>1. w \in ToSet(e.workbenches[k].layout)
        BY LayoutsAreOpen
  <1>2. EditorInv(c, surface) /\ Keeps(e, c)
    <2> HIDE DEF w
    <2> QED BY <1>1, FocusWindowKeeps
  <1>3. f = [c EXCEPT !.active = k]
        BY DEF Activate
  <1> HIDE DEF c, f
  <1>4. IsState(c) /\ WindowInv(c, {}, surface) /\ JumpInv(c) /\ AnchorInv(c) /\ CaretInv(c)
        BY <1>2 DEF EditorInv
  <1>5. /\ DOMAIN f = EditorFields /\ f.buffers = c.buffers /\ f.windows = c.windows
        /\ f.carets = c.carets /\ f.workbenches = c.workbenches /\ f.active = k
        /\ f.placeholder = c.placeholder /\ f.saving = c.saving /\ f.bufferSlots = c.bufferSlots
        /\ f.windowSlots = c.windowSlots /\ f.workbenchSlots = c.workbenchSlots
        BY <1>3, <1>4 DEF IsState, EditorFields
  <1>6. IsState(f)
        BY <1>4, <1>5 DEF IsState
  <1>7. LayoutInv(f, {})
    <2>1. k \in DOMAIN c.workbenches
          BY <1>2 DEF Keeps
    <2>2. \A j \in DOMAIN c.workbenches : /\ c.workbenches[j].active \in ToSet(c.workbenches[j].layout)
                                          /\ c.workbenches[j].recent \subseteq DOMAIN c.buffers
          BY <1>4 DEF WindowInv, LayoutInv
    <2> QED BY <1>4, <1>5, <2>1, <2>2, LayoutsStay DEF WindowInv
  <1>8. WindowInv(f, {}, surface)
        BY <1>4, <1>5, <1>7 DEF WindowInv, ShownInv, SlotInv
  <1>9. SameJumps(c, f) /\ SamePlaces(c, f)
        BY <1>5 DEF SameJumps, SamePlaces
  <1>10. CaretInv(f)
        BY <1>4, <1>5 DEF CaretInv
  <1>11. EditorInv(f, surface)
        BY <1>2, <1>6, <1>8, <1>9, <1>10, EditorStays
  <1>12. SameSaves(e, f)
        BY <1>2, <1>5 DEF Keeps, SameSaves
  <1> QED BY <1>11, <1>12 DEF f

\* The windows that are in no layout any more are among those destroyed.
LEMMA DestroyWindowsKeeps ==
  ASSUME NEW e, NEW surface, NEW extra, IsState(e), WindowInv(e, extra, surface),
         JumpInv(e), AnchorInv(e), CaretInv(e),
         NEW hs \in Seq(DOMAIN e.windows), IsInjective(hs), extra \subseteq ToSet(hs),
         \A k \in DOMAIN e.workbenches : e.workbenches[k].active \notin ToSet(hs)
  PROVE  LET f == DestroyWindows(e, hs) IN
         /\ EditorInv(f, surface) /\ SameSaves(e, f) /\ DOMAIN f.workbenches = DOMAIN e.workbenches
  <1> DEFINE f == DestroyWindows(e, hs)
             gone == ToSet(hs)
  <1>1. IsState(f) /\ WindowInv(f, {}, surface)
        BY DestroyWindowsWindows
  <1>2. /\ DOMAIN f = EditorFields /\ f.buffers = e.buffers /\ f.saving = e.saving
        /\ f.bufferSlots = e.bufferSlots
        /\ f.carets = Restrict(e.carets, {c \in DOMAIN e.carets : c[1] \notin gone})
        /\ f.workbenches = [k \in DOMAIN e.workbenches |-> WithoutWindows(e.workbenches[k], gone)]
        BY DEF IsState, EditorFields, DestroyWindows
  <1> HIDE DEF f, gone
  <1>3. ASSUME NEW k \in DOMAIN e.workbenches
        PROVE  /\ f.workbenches[k].graph = e.workbenches[k].graph
               /\ f.workbenches[k].locations = e.workbenches[k].locations
               /\ \A w \in DOMAIN f.workbenches[k].walks :
                    /\ w \in DOMAIN e.workbenches[k].walks
                    /\ f.workbenches[k].walks[w] = e.workbenches[k].walks[w]
    <2> DEFINE wb == e.workbenches[k]
               g == WithoutWindows(wb, gone)
    <2>1. IsWorkbench(wb) /\ f.workbenches[k] = g
          BY <1>2 DEF IsState
    <2> HIDE DEF wb
    <2>2. /\ g.graph = wb.graph /\ g.locations = wb.locations
          /\ g.walks = Restrict(wb.walks, DOMAIN wb.walks \ gone)
          BY <2>1 DEF IsWorkbench, WithoutWindows
    <2> HIDE DEF g
    <2> QED BY <2>1, <2>2 DEF Restrict, wb
  <1>4. DOMAIN f.workbenches = DOMAIN e.workbenches
        BY <1>2
  <1>5. JumpInv(f)
        BY <1>3, <1>4 DEF JumpInv
  <1>6. SamePlaces(e, f)
        BY <1>2, <1>3, <1>4 DEF SamePlaces
  <1>7. AnchorInv(f)
        BY <1>6, AnchorsStay
  <1>8. CaretInv(f)
        BY <1>2 DEF CaretInv, Restrict
  <1>9. SameSaves(e, f)
        BY <1>2 DEF SameSaves
  <1> QED BY <1>1, <1>4, <1>5, <1>7, <1>8, <1>9 DEF EditorInv, f

\* The whole of close_workbench(), of the one in use.
LEMMA CloseWorkbenchKeeps ==
  ASSUME NEW e, NEW surface, EditorInv(e, surface), NEW next \in DOMAIN e.workbenches \ {e.active},
         NEW released,
         released = DropAnchors(DropAnchors(e, e.workbenches[e.active].graph.nodes),
                                e.workbenches[e.active].locations),
         NEW f, f = Activate(DestroyWindows(EraseWorkbench(released, e.active, next),
                                            e.workbenches[e.active].layout), next)
  PROVE  EditorInv(f, surface) /\ SameSaves(e, f)
  <1> DEFINE k == e.active
             wb == e.workbenches[k]
             nodes == wb.graph.nodes
             items == wb.locations
             r == DropAnchors(e, nodes)
             d == released
             c == EraseWorkbench(d, k, next)
             u == DestroyWindows(c, wb.layout)
             extra == ToSet(wb.layout)
  <1>1. IsState(e) /\ WindowInv(e, {}, surface) /\ JumpInv(e) /\ AnchorInv(e) /\ CaretInv(e) /\ ShownInv(e)
        /\ LayoutInv(e, {}) /\ k \in DOMAIN e.workbenches /\ next # k
        BY DEF EditorInv, WindowInv, LayoutInv
  <1>2. f = Activate(u, next) /\ d = DropAnchors(r, items)
        OBVIOUS
  <1> HIDE DEF k, c, u, extra, nodes, items
  <1>3. /\ IsState(r) /\ r.workbenches = e.workbenches /\ r.windows = e.windows
        /\ r.carets = e.carets /\ r.active = e.active /\ r.placeholder = e.placeholder
        /\ r.saving = e.saving /\ r.bufferSlots = e.bufferSlots
        /\ r.windowSlots = e.windowSlots /\ r.workbenchSlots = e.workbenchSlots
        /\ DOMAIN r.buffers = DOMAIN e.buffers
        /\ \A b \in DOMAIN e.buffers :
            /\ r.buffers[b].lines = e.buffers[b].lines
            /\ r.buffers[b].resource = e.buffers[b].resource
            /\ r.buffers[b].saved = e.buffers[b].saved
            /\ \A a : a \in DOMAIN r.buffers[b].anchors <=>
                 /\ a \in DOMAIN e.buffers[b].anchors
                 /\ \A i \in DOMAIN nodes :
                      ~(nodes[i].buffer = b /\ nodes[i].anchor = a)
            /\ \A a \in DOMAIN r.buffers[b].anchors :
                 r.buffers[b].anchors[a] = e.buffers[b].anchors[a]
        BY <1>1, DropAnchorsDrops
  <1> HIDE DEF r
  <1>4. /\ IsState(d) /\ d.workbenches = e.workbenches /\ d.windows = e.windows
        /\ d.carets = e.carets /\ d.active = e.active /\ d.placeholder = e.placeholder
        /\ d.saving = e.saving /\ d.bufferSlots = e.bufferSlots
        /\ d.windowSlots = e.windowSlots /\ d.workbenchSlots = e.workbenchSlots
        /\ DOMAIN d.buffers = DOMAIN e.buffers
        /\ \A b \in DOMAIN e.buffers :
            /\ d.buffers[b].lines = r.buffers[b].lines
            /\ d.buffers[b].resource = r.buffers[b].resource
            /\ d.buffers[b].saved = r.buffers[b].saved
            /\ \A a : a \in DOMAIN d.buffers[b].anchors <=>
                 /\ a \in DOMAIN r.buffers[b].anchors
                 /\ \A i \in DOMAIN items :
                      ~(items[i].buffer = b /\ items[i].anchor = a)
            /\ \A a \in DOMAIN d.buffers[b].anchors :
                 d.buffers[b].anchors[a] = r.buffers[b].anchors[a]
        BY <1>2, <1>3, DropAnchorsDrops
  <1> HIDE DEF d
  <1>5. SameWindows(e, d)
        BY <1>3, <1>4 DEF SameWindows
  <1>6. WindowInv(d, {}, surface)
        BY <1>1, <1>5, WindowsStay
  <1>7. /\ IsState(c) /\ WindowInv(c, extra, surface)
    <2>1. k \in DOMAIN d.workbenches /\ next \in DOMAIN d.workbenches \ {k}
          BY <1>1, <1>4
    <2>2. extra = ToSet(d.workbenches[k].layout)
          BY <1>4 DEF extra
    <2> QED BY <1>4, <1>6, <2>1, <2>2, EraseWorkbenchWindows DEF c
  <1>8. /\ DOMAIN c = EditorFields /\ c.buffers = d.buffers /\ c.windows = d.windows /\ c.carets = d.carets
        /\ c.saving = d.saving /\ c.bufferSlots = d.bufferSlots
        /\ DOMAIN c.workbenches = DOMAIN e.workbenches \ {k}
        /\ \A j \in DOMAIN c.workbenches : c.workbenches[j] = e.workbenches[j]
        BY <1>4 DEF IsState, EditorFields, EraseWorkbench, Restrict, c
  <1>9. JumpInv(c)
        BY <1>1, <1>8 DEF JumpInv
  <1>10. CaretInv(c)
    <2>1. \A b \in DOMAIN e.buffers : c.buffers[b].lines = e.buffers[b].lines
          BY <1>3, <1>4, <1>8
    <2>2. c.carets = e.carets
          BY <1>4, <1>8
    <2> QED BY <1>1, <2>1, <2>2, CaretsStay
  <1>11. AnchorInv(c)
    <2> DEFINE gone == {p \in Places(e) : p[1] = k}
    <2>1. ASSUME NEW p
          PROVE  /\ p \in Places(c) <=> p \in Places(e) /\ p[1] # k
                 /\ p \in Places(c) => PlaceAt(c, p) = PlaceAt(e, p)
      <3>1. CASE p \in Places(c)
        <4>1. PICK j \in DOMAIN c.workbenches :
                    \/ \E n \in DOMAIN c.workbenches[j].graph.nodes : p = NodePlace(j, n)
                    \/ \E i \in DOMAIN c.workbenches[j].locations : p = ItemPlace(j, i)
              BY <3>1, PlacesAre
        <4>2. p[1] = j
              BY <4>1, PlaceParts
        <4>3. p \in Places(e)
              BY <1>8, <4>1, PlacesAre
        <4>4. PlaceAt(c, p) = PlaceAt(e, p)
              BY <1>8, <4>1, PlacesAre
        <4> QED BY <1>8, <3>1, <4>2, <4>3, <4>4
      <3>2. CASE p \in Places(e) /\ p[1] # k
        <4>1. PICK j \in DOMAIN e.workbenches :
                    \/ \E n \in DOMAIN e.workbenches[j].graph.nodes : p = NodePlace(j, n)
                    \/ \E i \in DOMAIN e.workbenches[j].locations : p = ItemPlace(j, i)
              BY <3>2, PlacesAre
        <4>2. p[1] = j
              BY <4>1, PlaceParts
        <4>3. j \in DOMAIN c.workbenches
              BY <1>8, <3>2, <4>2
        <4>4. p \in Places(c)
              BY <1>8, <4>1, <4>3, PlacesAre
        <4> QED BY <3>1, <3>2, <4>4
      <3> QED BY <3>1, <3>2
    <2>2. gone \subseteq Places(e) /\ Places(c) = Places(e) \ gone
          BY <2>1
    <2>3. ASSUME NEW b \in DOMAIN e.buffers, NEW a
          PROVE  (\A p \in gone : ~Holds(e, p, b, a))
                 <=> /\ \A n \in DOMAIN nodes :
                          ~(nodes[n].buffer = b /\ nodes[n].anchor = a)
                     /\ \A i \in DOMAIN items :
                          ~(items[i].buffer = b /\ items[i].anchor = a)
      <3>1. \A p : p \in gone <=> \/ \E n \in DOMAIN nodes : p = NodePlace(k, n)
                                  \/ \E i \in DOMAIN items : p = ItemPlace(k, i)
        <4>1. ASSUME NEW p \in gone
              PROVE  \/ \E n \in DOMAIN nodes : p = NodePlace(k, n)
                     \/ \E i \in DOMAIN items : p = ItemPlace(k, i)
          <5>1. PICK j \in DOMAIN e.workbenches :
                    \/ \E n \in DOMAIN e.workbenches[j].graph.nodes : p = NodePlace(j, n)
                    \/ \E i \in DOMAIN e.workbenches[j].locations : p = ItemPlace(j, i)
                BY PlacesAre
          <5>2. j = k
                BY <5>1, PlaceParts
          <5> QED BY <5>1, <5>2 DEF nodes, items
        <4>2. ASSUME NEW p, \/ \E n \in DOMAIN nodes : p = NodePlace(k, n)
                            \/ \E i \in DOMAIN items : p = ItemPlace(k, i)
              PROVE  p \in gone
          <5>1. p \in Places(e)
                BY <1>1, <4>2, PlacesAre DEF nodes, items
          <5>2. p[1] = k
                BY <4>2, PlaceParts
          <5> QED BY <5>1, <5>2
        <4> QED BY <4>1, <4>2
      <3>2. \A n : Holds(e, NodePlace(k, n), b, a)
                   <=> nodes[n].buffer = b /\ nodes[n].anchor = a
            BY PlacesAre DEF Holds, nodes
      <3>3. \A i : Holds(e, ItemPlace(k, i), b, a)
                   <=> items[i].buffer = b /\ items[i].anchor = a
            BY PlacesAre DEF Holds, items
      <3> HIDE DEF gone
      <3> QED BY <3>1, <3>2, <3>3
    <2> HIDE DEF gone
    <2>4. \A p \in Places(c) : PlaceAt(c, p) = PlaceAt(e, p)
          BY <2>1
    <2>5. \A b \in DOMAIN e.buffers :
            /\ c.buffers[b].lines = e.buffers[b].lines
            /\ c.buffers[b].resource = e.buffers[b].resource
            /\ \A a : a \in DOMAIN c.buffers[b].anchors <=>
                        /\ a \in DOMAIN e.buffers[b].anchors
                        /\ \A p \in gone : ~Holds(e, p, b, a)
            /\ \A a \in DOMAIN c.buffers[b].anchors :
                 c.buffers[b].anchors[a] = e.buffers[b].anchors[a]
      <3>1. ASSUME NEW b \in DOMAIN e.buffers
            PROVE  /\ c.buffers[b].lines = e.buffers[b].lines
                   /\ c.buffers[b].resource = e.buffers[b].resource
                   /\ \A a \in DOMAIN c.buffers[b].anchors :
                        c.buffers[b].anchors[a] = e.buffers[b].anchors[a]
        <4>1. \A a \in DOMAIN d.buffers[b].anchors :
                 a \in DOMAIN r.buffers[b].anchors /\ d.buffers[b].anchors[a] = r.buffers[b].anchors[a]
              BY <1>4
        <4>2. \A a \in DOMAIN r.buffers[b].anchors : r.buffers[b].anchors[a] = e.buffers[b].anchors[a]
              BY <1>3
        <4>3. d.buffers[b].lines = e.buffers[b].lines /\ d.buffers[b].resource = e.buffers[b].resource
              BY <1>3, <1>4
        <4> QED BY <1>8, <4>1, <4>2, <4>3
      <3>2. ASSUME NEW b \in DOMAIN e.buffers, NEW a
            PROVE  a \in DOMAIN c.buffers[b].anchors <=>
                        /\ a \in DOMAIN e.buffers[b].anchors
                        /\ \A p \in gone : ~Holds(e, p, b, a)
        <4>1. a \in DOMAIN r.buffers[b].anchors <=>
                 /\ a \in DOMAIN e.buffers[b].anchors
                 /\ \A i \in DOMAIN nodes : ~(nodes[i].buffer = b /\ nodes[i].anchor = a)
              BY <1>3
        <4>2. a \in DOMAIN c.buffers[b].anchors <=>
                 /\ a \in DOMAIN r.buffers[b].anchors
                 /\ \A i \in DOMAIN items : ~(items[i].buffer = b /\ items[i].anchor = a)
              BY <1>4, <1>8
        <4> QED BY <2>3, <4>1, <4>2
      <3> QED BY <3>1, <3>2
    <2>6. ListInv(c)
      <3>1. IsFiniteSet(DOMAIN c.workbenches)
            BY <1>1, <1>8, FS_Subset DEF AnchorInv, ListInv
      <3> QED BY <1>1, <1>8, <3>1 DEF AnchorInv, ListInv
    <2>7. DOMAIN c.buffers = DOMAIN e.buffers
          BY <1>4, <1>8
    <2> QED BY <1>1, <2>2, <2>4, <2>5, <2>6, <2>7, PlacesGo
  <1>12. EditorInv(u, surface) /\ SameSaves(c, u) /\ DOMAIN u.workbenches = DOMAIN c.workbenches
    <2>1. wb.layout \in Seq(DOMAIN c.windows) /\ IsInjective(wb.layout)
          BY <1>1, <1>4, <1>8 DEF LayoutInv
    <2>2. \A j \in DOMAIN c.workbenches : c.workbenches[j].active \notin ToSet(wb.layout)
      <3>1. ASSUME NEW j \in DOMAIN c.workbenches
            PROVE  c.workbenches[j].active \notin ToSet(wb.layout)
        <4>1. j # k /\ j \in DOMAIN e.workbenches /\ c.workbenches[j].active = e.workbenches[j].active
              BY <1>8
        <4>2. e.workbenches[j].active \in ToSet(e.workbenches[j].layout)
              BY <1>1, <4>1 DEF LayoutInv
        <4>3. ToSet(e.workbenches[j].layout) \cap ToSet(wb.layout) = {}
              BY <1>1, <4>1 DEF LayoutInv
        <4> QED BY <4>1, <4>2, <4>3
      <3> QED BY <3>1
    <2>3. extra \subseteq ToSet(wb.layout)
          BY DEF extra
    <2> QED BY <1>7, <1>9, <1>10, <1>11, <2>1, <2>2, <2>3, DestroyWindowsKeeps DEF u
  <1>13. next \in DOMAIN u.workbenches
        BY <1>1, <1>8, <1>12
  <1>14. EditorInv(f, surface) /\ SameSaves(u, f)
    <2>1. EditorInv(Activate(u, next), surface) /\ SameSaves(u, Activate(u, next))
          BY <1>12, <1>13, ActivateKeeps
    <2> QED BY <1>2, <2>1
  <1>15. SameSaves(e, c)
        BY <1>3, <1>4, <1>8 DEF SameSaves
  <1>16. SameSaves(e, f)
        BY <1>12, <1>14, <1>15 DEF SameSaves
  <1> QED BY <1>14, <1>16

\* create_workbench().
LEMMA CreateWorkbenchKeeps ==
  ASSUME NEW e, NEW surface, EditorInv(e, surface), NEW b \in DOMAIN e.buffers,
         NEW line \in 0..(e.buffers[b].lines - 1),
         NEW f, f = Activate(AddWorkbench(CreateWindow(e, b, line), CreatedWindow(e), b),
                             NextHandle(e.workbenchSlots))
  PROVE  EditorInv(f, surface) /\ SameSaves(e, f)
  <1> DEFINE w == CreatedWindow(e)
             c == CreateWindow(e, b, line)
             a == AddWorkbench(c, w, b)
             k == NextHandle(e.workbenchSlots)
             outside == {w}
  <1>1. IsState(e) /\ WindowInv(e, {}, surface) /\ CaretInv(e) /\ JumpInv(e) /\ AnchorInv(e)
        BY DEF EditorInv
  <1>2. /\ DOMAIN c = EditorFields /\ c.buffers = e.buffers /\ c.workbenches = e.workbenches
        /\ c.carets = Put(e.carets, <<w, b>>, line) /\ c.saving = e.saving
        /\ c.bufferSlots = e.bufferSlots /\ c.workbenchSlots = e.workbenchSlots
        BY <1>1 DEF IsState, EditorFields, CreateWindow, Put
  <1>3. IsState(c) /\ WindowInv(c, {w}, surface)
        BY <1>1, CreateWindowWindows
  <1>4. WindowInv(c, outside, surface) /\ outside = {w} /\ f = Activate(a, k)
        BY <1>3
  <1> HIDE DEF c, w, outside
  <1>5. /\ IsState(a) /\ WindowInv(a, {}, surface)
        /\ DOMAIN a.workbenches = DOMAIN e.workbenches \cup {k}
        /\ k \notin DOMAIN e.workbenches
        /\ a.workbenches[k] = NewWorkbench(w, b)
        /\ \A j \in DOMAIN e.workbenches : a.workbenches[j] = e.workbenches[j]
    <2>1. b \in DOMAIN c.buffers /\ NextHandle(c.workbenchSlots) = k /\ c.workbenches = e.workbenches
          BY <1>2
    <2> HIDE DEF k
    <2>2. /\ IsState(a) /\ WindowInv(a, {}, surface)
          /\ \A j : j \in DOMAIN a.workbenches
                     <=> j \in DOMAIN c.workbenches \/ j = NextHandle(c.workbenchSlots)
          /\ NextHandle(c.workbenchSlots) \notin DOMAIN c.workbenches
          /\ a.workbenches[NextHandle(c.workbenchSlots)] = NewWorkbench(w, b)
          /\ \A j \in DOMAIN c.workbenches : a.workbenches[j] = c.workbenches[j]
          BY <1>3, <1>4, <2>1, AddWorkbenchWindows
    <2> QED BY <2>1, <2>2
  <1>6. /\ a.buffers = e.buffers /\ a.carets = c.carets /\ a.saving = e.saving
        /\ a.bufferSlots = e.bufferSlots
        BY <1>2 DEF EditorFields, AddWorkbench
  <1>7. LET wb == a.workbenches[k] IN
        /\ GraphInv(wb.graph) /\ DOMAIN wb.graph.nodes = {} /\ DOMAIN wb.locations = {}
        /\ wb.locations \in Seq(ToSet(wb.locations))
        /\ \A v \in DOMAIN wb.walks : wb.walks[v] = NoWalk
    <2> DEFINE wb == NewWorkbench(w, b)
    <2>1. wb.graph = EmptyGraph /\ wb.locations = <<>> /\ wb.walks = Put(<<>>, w, NoWalk)
          BY DEF NewWorkbench
    <2> HIDE DEF wb
    <2>2. GraphInv(EmptyGraph) /\ DOMAIN EmptyGraph.nodes = {}
          BY DEF EmptyGraph, GraphInv, ToSet
    <2>3. DOMAIN wb.locations = {} /\ wb.locations \in Seq(ToSet(wb.locations))
          BY <2>1
    <2>4. \A v \in DOMAIN wb.walks : wb.walks[v] = NoWalk
          BY <2>1 DEF Put
    <2>5. a.workbenches[k] = wb
          BY <1>5 DEF wb
    <2> HIDE DEF a, k
    <2> QED BY <2>1, <2>2, <2>3, <2>4, <2>5
  <1> HIDE DEF a, k
  <1>8. JumpInv(a)
    <2>1. \A v \in DOMAIN a.workbenches[k].walks :
             IsWalk(a.workbenches[k].walks[v], DOMAIN a.workbenches[k].graph.nodes)
          BY <1>7, NoWalkIsWalk
    <2> QED BY <1>1, <1>5, <1>7, <2>1 DEF JumpInv
  <1>9. ListInv(a)
    <2>1. IsFiniteSet(DOMAIN a.workbenches)
          BY <1>1, <1>5, FS_AddElement DEF AnchorInv, ListInv
    <2> QED BY <1>1, <1>5, <1>7, <2>1 DEF AnchorInv, ListInv
  <1>10. AnchorInv(a)
    <2>1. ASSUME NEW p
          PROVE  /\ p \in Places(a) <=> p \in Places(e)
                 /\ p \in Places(e) => PlaceAt(a, p) = PlaceAt(e, p)
      <3>1. CASE p \in Places(a)
        <4>1. PICK j \in DOMAIN a.workbenches :
                    \/ \E n \in DOMAIN a.workbenches[j].graph.nodes : p = NodePlace(j, n)
                    \/ \E i \in DOMAIN a.workbenches[j].locations : p = ItemPlace(j, i)
              BY <3>1, PlacesAre
        <4>2. j \in DOMAIN e.workbenches
              BY <1>5, <1>7, <4>1
        <4>3. p \in Places(e) /\ PlaceAt(a, p) = PlaceAt(e, p)
              BY <1>5, <4>1, <4>2, PlacesAre
        <4> QED BY <3>1, <4>3
      <3>2. CASE p \in Places(e)
        <4>1. PICK j \in DOMAIN e.workbenches :
                    \/ \E n \in DOMAIN e.workbenches[j].graph.nodes : p = NodePlace(j, n)
                    \/ \E i \in DOMAIN e.workbenches[j].locations : p = ItemPlace(j, i)
              BY <3>2, PlacesAre
        <4>2. p \in Places(a) /\ PlaceAt(a, p) = PlaceAt(e, p)
              BY <1>5, <4>1, PlacesAre
        <4> QED BY <3>2, <4>2
      <3> QED BY <3>1, <3>2
    <2> DEFINE more == {}
    <2>2. Places(a) = Places(e) \cup more /\ \A p : p \notin more
          BY <2>1
    <2>3. \A p \in Places(e) : /\ IsPlace(PlaceAt(a, p))
                               /\ PlaceAt(a, p).buffer = PlaceAt(e, p).buffer
                               /\ PlaceAt(a, p).anchor = PlaceAt(e, p).anchor
          BY <1>1, <2>1 DEF AnchorInv, PlaceInv
    <2>4. RangeInv(a)
          BY <1>1, <1>6 DEF AnchorInv, RangeInv
    <2> HIDE DEF more
    <2> QED BY <1>1, <1>6, <1>9, <2>2, <2>3, <2>4, HoldersStay
  <1>11. CaretInv(a)
    <2>1. <<w, b>>[2] = b
          OBVIOUS
    <2> QED BY <1>1, <1>2, <1>6, <2>1 DEF CaretInv, Put
  <1>12. EditorInv(a, surface) /\ k \in DOMAIN a.workbenches
        BY <1>5, <1>8, <1>10, <1>11 DEF EditorInv
  <1>13. EditorInv(f, surface) /\ SameSaves(a, f)
        BY <1>4, <1>12, ActivateKeeps
  <1> QED BY <1>6, <1>13 DEF SameSaves

\* publish_location_list(): the list grows by one item, which may attach.
LEMMA PublishLocationsKeeps ==
  ASSUME NEW e, NEW surface, EditorInv(e, surface), NEW w \in DOMAIN e.windows,
         NEW resource \in Resources, NEW line \in Nat
  PROVE  LET f == PublishLocations(e, w, resource, line) IN
         EditorInv(f, surface) /\ Keeps(e, f) /\ SameWindows(e, f)
  <1> DEFINE k == Owner(e, w)
             item == Place(NoHandle, resource, 0, line)
             c == [e EXCEPT !.workbenches[k].locations = Append(@, item)]
             places == {p \in Places(c) : p[2] = "item" /\ \E b \in DOMAIN e.buffers : WaitsFor(c, p, b)}
             f == PublishLocations(e, w, resource, line)
  <1>1. /\ IsState(e) /\ WindowInv(e, {}, surface) /\ CaretInv(e) /\ JumpInv(e) /\ AnchorInv(e)
        /\ k \in DOMAIN e.workbenches /\ f = AttachPlaces(c, places)
        BY OwnerOwns DEF EditorInv, PublishLocations
  <1>2. IsPlace(item) /\ ~Attached(item)
        BY DEF IsPlace, Attached, Place
  <1> HIDE DEF f, k, item
  <1>3. /\ DOMAIN c = EditorFields /\ c.buffers = e.buffers /\ c.windows = e.windows /\ c.carets = e.carets
        /\ c.active = e.active /\ c.placeholder = e.placeholder /\ c.saving = e.saving
        /\ c.bufferSlots = e.bufferSlots /\ c.windowSlots = e.windowSlots
        /\ c.workbenchSlots = e.workbenchSlots /\ DOMAIN c.workbenches = DOMAIN e.workbenches
        /\ c.workbenches[k].locations = Append(e.workbenches[k].locations, item)
        /\ \A j \in DOMAIN e.workbenches :
            /\ IsWorkbench(c.workbenches[j])
            /\ c.workbenches[j].graph = e.workbenches[j].graph
            /\ c.workbenches[j].walks = e.workbenches[j].walks
            /\ c.workbenches[j].layout = e.workbenches[j].layout
            /\ c.workbenches[j].active = e.workbenches[j].active
            /\ c.workbenches[j].recent = e.workbenches[j].recent
            /\ j # k => c.workbenches[j].locations = e.workbenches[j].locations
        BY <1>1 DEF IsState, IsWorkbench, EditorFields
  <1> HIDE DEF c
  <1>4. IsState(c)
        BY <1>1, <1>3 DEF IsState
  <1>5. SameWindows(e, c) /\ SameJumps(e, c) /\ Keeps(e, c)
        BY <1>3 DEF SameWindows, SameJumps, Keeps
  <1>6. WindowInv(c, {}, surface) /\ JumpInv(c)
        BY <1>1, <1>5, WindowsStay, JumpsStay
  <1>7. CaretInv(c)
        BY <1>1, <1>3 DEF CaretInv
  <1> DEFINE items == e.workbenches[k].locations
             S == ToSet(items) \cup {item}
             i == Len(items) + 1
             new == ItemPlace(k, i)
             more == {new}
  <1>8. items \in Seq(S) /\ Len(items) \in Nat /\ item \in S
    <2>1. items \in Seq(ToSet(items))
          BY <1>1 DEF AnchorInv, ListInv
    <2>2. ToSet(items) \subseteq S
          OBVIOUS
    <2> HIDE DEF items
    <2>3. Len(items) \in Nat
          BY <2>1
    <2>4. item \in S
          OBVIOUS
    <2> HIDE DEF S
    <2> QED BY <2>1, <2>2, <2>3, <2>4, SubsetSeq
  <1>9. /\ c.workbenches[k].locations \in Seq(S) /\ DOMAIN c.workbenches[k].locations = 1..i
        /\ c.workbenches[k].locations[i] = item /\ DOMAIN items = 1..(i - 1)
        /\ \A j \in DOMAIN items : c.workbenches[k].locations[j] = items[j]
        /\ ToSet(c.workbenches[k].locations) = S
    <2>1. items \in Seq(S) /\ item \in S /\ c.workbenches[k].locations = Append(items, item)
          BY <1>3, <1>8
    <2>2. i - 1 = Len(items)
          BY <1>8
    <2> HIDE DEF items, S, i
    <2>3. /\ Append(items, item) \in Seq(S) /\ DOMAIN Append(items, item) = 1..(Len(items) + 1)
          /\ Append(items, item)[Len(items) + 1] = item
          /\ \A j \in DOMAIN items : Append(items, item)[j] = items[j]
          /\ ToSet(Append(items, item)) = ToSet(items) \cup {item}
          BY <2>1, Appended
    <2>4. DOMAIN items = 1..Len(items)
          BY <2>1
    <2> QED BY <2>1, <2>2, <2>3, <2>4 DEF S, i
  <1> HIDE DEF items, S, i
  <1>10. ListInv(c)
        BY <1>1, <1>3, <1>9 DEF AnchorInv, ListInv
  <1>11. RangeInv(c)
        BY <1>1, <1>3 DEF AnchorInv, RangeInv
  <1>12. /\ new \notin Places(e) /\ new \in Places(c) /\ PlaceAt(c, new) = item
    <2>1. new \notin Places(e)
      <3>1. SUFFICES ASSUME new \in Places(e) PROVE FALSE
            OBVIOUS
      <3>2. PICK j \in DOMAIN e.workbenches :
                    \/ \E n \in DOMAIN e.workbenches[j].graph.nodes : new = NodePlace(j, n)
                    \/ \E m \in DOMAIN e.workbenches[j].locations : new = ItemPlace(j, m)
            BY <3>1, PlacesAre
      <3>3. j = k /\ i \in DOMAIN items
            BY <3>2, PlaceParts DEF items
      <3> QED BY <1>8, <1>9, <3>3 DEF i
    <2>2. i \in DOMAIN c.workbenches[k].locations
          BY <1>8, <1>9 DEF i
    <2> QED BY <1>1, <1>3, <1>9, <2>1, <2>2, PlacesAre
  <1>13. ASSUME NEW p
         PROVE  /\ p \in Places(c) => p \in Places(e) \/ p = new
                /\ p \in Places(e) => p \in Places(c) /\ PlaceAt(c, p) = PlaceAt(e, p)
    <2>1. CASE p \in Places(c)
      <3>1. PICK j \in DOMAIN c.workbenches :
                    \/ \E n \in DOMAIN c.workbenches[j].graph.nodes : p = NodePlace(j, n)
                    \/ \E m \in DOMAIN c.workbenches[j].locations : p = ItemPlace(j, m)
            BY <2>1, PlacesAre
      <3>4. p \in Places(e) \/ p = new
        <4>1. CASE \E n \in DOMAIN c.workbenches[j].graph.nodes : p = NodePlace(j, n)
              BY <1>3, <3>1, <4>1, PlacesAre
        <4>2. CASE \E m \in DOMAIN c.workbenches[j].locations : p = ItemPlace(j, m)
          <5>1. PICK m \in DOMAIN c.workbenches[j].locations : p = ItemPlace(j, m)
                BY <4>2
          <5>2. CASE j = k /\ m = i
                BY <5>1, <5>2
          <5>3. CASE ~(j = k /\ m = i)
            <6>1. m \in DOMAIN e.workbenches[j].locations
                  BY <1>3, <1>8, <1>9, <3>1, <5>1, <5>3 DEF items, i
            <6> QED BY <1>3, <3>1, <5>1, <6>1, PlacesAre
          <5> QED BY <5>2, <5>3
        <4> QED BY <3>1, <4>1, <4>2
      <3>5. p \in Places(e) => PlaceAt(c, p) = PlaceAt(e, p)
        <4>1. CASE \E n \in DOMAIN c.workbenches[j].graph.nodes : p = NodePlace(j, n)
              BY <1>3, <4>1, PlacesAre
        <4>2. CASE \E m \in DOMAIN c.workbenches[j].locations : p = ItemPlace(j, m)
          <5>1. PICK m \in DOMAIN c.workbenches[j].locations : p = ItemPlace(j, m)
                BY <4>2
          <5>2. ASSUME p \in Places(e) PROVE ~(j = k /\ m = i)
                BY <1>12, <5>1, <5>2
          <5>3. ASSUME ~(j = k /\ m = i) PROVE PlaceAt(c, p) = PlaceAt(e, p)
            <6>1. c.workbenches[j].locations[m] = e.workbenches[j].locations[m]
                  BY <1>3, <1>8, <1>9, <3>1, <5>1, <5>3 DEF items, i
            <6> QED BY <5>1, <6>1, PlacesAre
          <5> QED BY <5>2, <5>3
        <4> QED BY <3>1, <4>1, <4>2
      <3> QED BY <2>1, <3>4, <3>5
    <2>2. CASE p \in Places(e)
      <3>1. PICK j \in DOMAIN e.workbenches :
                    \/ \E n \in DOMAIN e.workbenches[j].graph.nodes : p = NodePlace(j, n)
                    \/ \E m \in DOMAIN e.workbenches[j].locations : p = ItemPlace(j, m)
            BY <2>2, PlacesAre
      <3>4. p \in Places(c)
        <4>1. CASE \E n \in DOMAIN e.workbenches[j].graph.nodes : p = NodePlace(j, n)
              BY <1>3, <3>1, <4>1, PlacesAre
        <4>2. CASE \E m \in DOMAIN e.workbenches[j].locations : p = ItemPlace(j, m)
          <5>1. PICK m \in DOMAIN e.workbenches[j].locations : p = ItemPlace(j, m)
                BY <4>2
          <5>2. m \in DOMAIN c.workbenches[j].locations
                BY <1>3, <1>8, <1>9, <3>1, <5>1 DEF items, i
          <5> QED BY <1>3, <3>1, <5>1, <5>2, PlacesAre
        <4> QED BY <3>1, <4>1, <4>2
      <3> QED BY <2>1, <3>4
    <2> QED BY <2>1, <2>2
  <1>14. AnchorInv(c)
    <2>1. Places(c) = Places(e) \cup more
          BY <1>12, <1>13
    <2>2. \A p \in more : p \notin Places(e) /\ IsPlace(PlaceAt(c, p)) /\ ~Attached(PlaceAt(c, p))
          BY <1>2, <1>12
    <2>3. \A p \in Places(e) : /\ IsPlace(PlaceAt(c, p))
                               /\ PlaceAt(c, p).buffer = PlaceAt(e, p).buffer
                               /\ PlaceAt(c, p).anchor = PlaceAt(e, p).anchor
          BY <1>1, <1>13 DEF AnchorInv, PlaceInv
    <2> HIDE DEF more
    <2> QED BY <1>1, <1>3, <1>10, <1>11, <2>1, <2>2, <2>3, HoldersStay
  <1>15. EditorInv(c, surface)
        BY <1>4, <1>6, <1>7, <1>14 DEF EditorInv
  <1>16. EditorInv(f, surface) /\ Keeps(c, f) /\ SameWindows(c, f)
    <2>1. places \subseteq Places(c) /\ \A p \in places : \E b \in DOMAIN c.buffers : WaitsFor(c, p, b)
          BY <1>3
    <2>2. f = AttachPlaces(c, places)
          BY <1>1 DEF c, item
    <2> HIDE DEF places
    <2> QED BY <1>15, <2>1, <2>2, AttachPlacesKeeps
  <1>17. Keeps(e, f)
        BY <1>5, <1>16, KeepsTwice
  <1>18. SameWindows(e, f)
        BY <1>5, <1>16 DEF SameWindows
  <1> QED BY <1>16, <1>17, <1>18 DEF f

-----------------------------------------------------------------------------
(* Edits, marks and walks.                                                 *)

\* Buffers that keep their anchors, and carets that stay in their text.
LEMMA BuffersChange ==
  ASSUME NEW e, NEW surface, EditorInv(e, surface), NEW f, DOMAIN f = EditorFields,
         \A x \in EditorFields \ {"buffers", "carets"} : f[x] = e[x],
         DOMAIN f.buffers = DOMAIN e.buffers, DOMAIN f.carets = DOMAIN e.carets,
         \A b \in DOMAIN e.buffers :
            /\ DOMAIN f.buffers[b] = {"resource", "lines", "saved", "anchors"}
            /\ DOMAIN f.buffers[b].anchors = DOMAIN e.buffers[b].anchors,
         RangeInv(f), CaretInv(f)
  PROVE  /\ EditorInv(f, surface)
         /\ (\A b \in DOMAIN e.buffers : f.buffers[b].saved = e.buffers[b].saved) => SameSaves(e, f)
  <1>1. /\ f.windows = e.windows /\ f.workbenches = e.workbenches /\ f.active = e.active
        /\ f.placeholder = e.placeholder /\ f.saving = e.saving /\ f.bufferSlots = e.bufferSlots
        /\ f.windowSlots = e.windowSlots /\ f.workbenchSlots = e.workbenchSlots
        BY DEF EditorFields
  <1>2. IsState(e) /\ WindowInv(e, {}, surface) /\ JumpInv(e) /\ AnchorInv(e)
        BY DEF EditorInv
  <1>3. IsState(f)
        BY <1>1, <1>2 DEF IsState
  <1>4. SameWindows(e, f)
        BY <1>1 DEF SameWindows
  <1>5. WindowInv(f, {}, surface)
        BY <1>2, <1>4, WindowsStay
  <1>6. JumpInv(f)
        BY <1>1, <1>2 DEF JumpInv
  <1>7. AnchorInv(f)
    <2> DEFINE more == {}
    <2>1. ASSUME NEW p
          PROVE  PlaceAt(f, p) = PlaceAt(e, p)
          BY <1>1 DEF PlaceAt
    <2>2. Places(f) = Places(e)
          BY <1>1 DEF Places
    <2>3. Places(f) = Places(e) \cup more /\ \A p : p \notin more
          BY <2>2
    <2>4. \A p \in Places(e) : /\ IsPlace(PlaceAt(f, p))
                               /\ PlaceAt(f, p).buffer = PlaceAt(e, p).buffer
                               /\ PlaceAt(f, p).anchor = PlaceAt(e, p).anchor
          BY <1>2, <2>1 DEF AnchorInv, PlaceInv
    <2>5. ListInv(f)
          BY <1>1, <1>2 DEF AnchorInv, ListInv
    <2> HIDE DEF more
    <2> QED BY <1>2, <2>3, <2>4, <2>5, HoldersStay
  <1>8. (\A b \in DOMAIN e.buffers : f.buffers[b].saved = e.buffers[b].saved) => SameSaves(e, f)
        BY <1>1 DEF SameSaves
  <1> QED BY <1>3, <1>5, <1>6, <1>7, <1>8 DEF EditorInv

\* InsertLine: text, anchors and carets move together.
LEMMA EditKeeps ==
  ASSUME NEW e, NEW surface, EditorInv(e, surface), NEW b \in DOMAIN e.buffers
  PROVE  LET f == InsertLine(e, b) IN EditorInv(f, surface) /\ SameSaves(e, f)
  <1> DEFINE f == InsertLine(e, b)
             anchors == e.buffers[b].anchors
  <1>1. IsState(e) /\ RangeInv(e) /\ CaretInv(e) /\ ShownInv(e)
        BY DEF EditorInv, AnchorInv, WindowInv
  <1>2. DOMAIN f = EditorFields /\ \A x \in EditorFields \ {"buffers", "carets"} : f[x] = e[x]
        BY <1>1 DEF IsState, EditorFields, InsertLine
  <1>3. /\ f.carets = [wb \in DOMAIN e.carets |-> IF wb[2] = b THEN e.carets[wb] + 1 ELSE e.carets[wb]]
        /\ DOMAIN f.buffers = DOMAIN e.buffers
        /\ \A c \in DOMAIN e.buffers \ {b} : f.buffers[c] = e.buffers[c]
        BY <1>1 DEF IsState, EditorFields, InsertLine
  <1>4. /\ DOMAIN f.buffers[b] = {"resource", "lines", "saved", "anchors"}
        /\ f.buffers[b].saved = e.buffers[b].saved /\ f.buffers[b].resource = e.buffers[b].resource
        /\ f.buffers[b].lines = e.buffers[b].lines + 1
        /\ f.buffers[b].anchors = [a \in DOMAIN anchors |-> anchors[a] + 1]
        BY <1>1 DEF IsState, EditorFields, InsertLine
  <1>5. e.buffers[b].lines \in Nat \ {0} /\ \A a \in DOMAIN anchors : anchors[a] \in 0..(e.buffers[b].lines - 1)
        BY <1>1 DEF RangeInv
  <1> HIDE DEF anchors, f
  <1>6. f.buffers[b].lines \in Nat \ {0} /\ f.buffers[b].lines - 1 = e.buffers[b].lines
        BY <1>4, <1>5
  <1>7. DOMAIN f.buffers[b].anchors = DOMAIN e.buffers[b].anchors
        BY <1>4 DEF anchors
  <1>8. \A a \in DOMAIN f.buffers[b].anchors : f.buffers[b].anchors[a] \in 0..(f.buffers[b].lines - 1)
        BY <1>4, <1>5, <1>6
  <1>9. RangeInv(f)
    <2>1. ASSUME NEW c \in DOMAIN f.buffers
          PROVE  /\ c # NoHandle /\ f.buffers[c].lines \in Nat \ {0}
                 /\ f.buffers[c].resource \in Resources \cup {NoResource}
                 /\ IsFiniteSet(DOMAIN f.buffers[c].anchors)
                 /\ \A a \in DOMAIN f.buffers[c].anchors :
                       f.buffers[c].anchors[a] \in 0..(f.buffers[c].lines - 1)
      <3>1. CASE c = b
            BY <1>1, <1>4, <1>6, <1>7, <1>8, <3>1 DEF RangeInv
      <3>2. CASE c # b
            BY <1>1, <1>3, <3>2 DEF RangeInv
      <3> QED BY <3>1, <3>2
    <2> QED BY <2>1 DEF RangeInv
  <1>10. CaretInv(f)
    <2>1. ASSUME NEW c \in DOMAIN e.carets
          PROVE  f.carets[c] \in 0..(f.buffers[c[2]].lines - 1)
      <3>1. c[2] \in DOMAIN e.buffers /\ e.carets[c] \in 0..(e.buffers[c[2]].lines - 1)
            BY <1>1 DEF CaretInv, ShownInv
      <3>2. CASE c[2] = b
            BY <1>3, <1>4, <1>5, <1>6, <3>1, <3>2
      <3>3. CASE c[2] # b
            BY <1>3, <3>1, <3>3
      <3> QED BY <3>2, <3>3
    <2> QED BY <1>3, <2>1 DEF CaretInv
  <1>11. DOMAIN f.carets = DOMAIN e.carets
        BY <1>3
  <1>12. \A c \in DOMAIN e.buffers :
            /\ DOMAIN f.buffers[c] = {"resource", "lines", "saved", "anchors"}
            /\ f.buffers[c].saved = e.buffers[c].saved
            /\ DOMAIN f.buffers[c].anchors = DOMAIN e.buffers[c].anchors
        BY <1>1, <1>3, <1>4, <1>7 DEF IsState
  <1>13. EditorInv(f, surface) /\ SameSaves(e, f)
        BY <1>2, <1>3, <1>9, <1>10, <1>11, <1>12, BuffersChange
  <1> QED BY <1>13 DEF f

\* A buffer visits another file.
LEMMA VisitingKeeps ==
  ASSUME NEW e, NEW surface, EditorInv(e, surface), NEW b \in DOMAIN e.buffers, NEW r \in Resources
  PROVE  LET f == [e EXCEPT !.buffers[b].resource = r] IN
         /\ EditorInv(f, surface) /\ SameSaves(e, f)
         /\ f.buffers[b].resource = r /\ f.buffers[b].lines = e.buffers[b].lines
  <1> DEFINE f == [e EXCEPT !.buffers[b].resource = r]
  <1>1. IsState(e) /\ RangeInv(e) /\ CaretInv(e) /\ ShownInv(e)
        BY DEF EditorInv, AnchorInv, WindowInv
  <1>2. DOMAIN f = EditorFields /\ \A x \in EditorFields \ {"buffers", "carets"} : f[x] = e[x]
        BY <1>1 DEF IsState, EditorFields
  <1>3. /\ f.carets = e.carets /\ DOMAIN f.buffers = DOMAIN e.buffers
        /\ \A c \in DOMAIN e.buffers \ {b} : f.buffers[c] = e.buffers[c]
        /\ \A c \in DOMAIN e.buffers :
            /\ DOMAIN f.buffers[c] = {"resource", "lines", "saved", "anchors"}
            /\ f.buffers[c].saved = e.buffers[c].saved
            /\ f.buffers[c].lines = e.buffers[c].lines
            /\ f.buffers[c].anchors = e.buffers[c].anchors
        /\ f.buffers[b].resource = r
        BY <1>1 DEF IsState, EditorFields
  <1> HIDE DEF f
  <1>4. RangeInv(f)
        BY <1>1, <1>3 DEF RangeInv
  <1>5. CaretInv(f)
        BY <1>1, <1>3, CaretsStay
  <1>6. EditorInv(f, surface) /\ SameSaves(e, f)
        BY <1>2, <1>3, <1>4, <1>5, BuffersChange
  <1> QED BY <1>3, <1>6 DEF f

-----------------------------------------------------------------------------
\* A field that no invariant is about changes.
LEMMA OriginsChange ==
  ASSUME NEW e, NEW surface, EditorInv(e, surface), NEW origins
  PROVE  LET f == [e EXCEPT !.origins = origins] IN
         /\ EditorInv(f, surface) /\ Keeps(e, f) /\ f.workbenches = e.workbenches
  <1> DEFINE f == [e EXCEPT !.origins = origins]
  <1>1. IsState(e) /\ SlotInv(e, surface)
        BY DEF EditorInv, WindowInv
  <1>2. /\ DOMAIN f = EditorFields /\ f.buffers = e.buffers /\ f.windows = e.windows
        /\ f.carets = e.carets /\ f.workbenches = e.workbenches /\ f.active = e.active
        /\ f.placeholder = e.placeholder /\ f.saving = e.saving /\ f.bufferSlots = e.bufferSlots
        /\ f.windowSlots = e.windowSlots /\ f.workbenchSlots = e.workbenchSlots
        BY <1>1 DEF IsState, EditorFields
  <1> HIDE DEF f
  <1>3. SlotInv(f, surface)
        BY <1>1, <1>2 DEF SlotInv
  <1>4. EditorInv(f, surface)
        BY <1>2, <1>3, SlotsChange
  <1> QED BY <1>2, <1>4 DEF Keeps, f

\* StartWalk: the walk starts on a node of the graph.
LEMMA StartWalkKeeps ==
  ASSUME NEW e, NEW surface, EditorInv(e, surface), NEW k \in DOMAIN e.workbenches,
         NEW w \in DOMAIN e.windows
  PROVE  LET f == StartWalk(e, k, w) IN EditorInv(f, surface) /\ Keeps(e, f)
  <1> DEFINE c == Capture(e, k, w)
             n == Captured(e, k, w)
             f == RecordJump(c, k, w, n)
  <1>1. /\ EditorInv(c, surface) /\ Keeps(e, c)
        /\ n \in DOMAIN c.workbenches[k].graph.nodes
        BY CaptureKeeps
  <1>2. k \in DOMAIN c.workbenches
        BY <1>1 DEF Keeps
  <1> HIDE DEF c, n
  <1>3. EditorInv(f, surface) /\ Keeps(c, f)
        BY <1>1, <1>2, RecordJumpKeeps
  <1> HIDE DEF f
  <1>4. Keeps(e, f)
        BY <1>1, <1>3, KeepsTwice
  <1> QED BY <1>3, <1>4 DEF StartWalk, f, c, n

\* The nodes marked need not be there any more: then there is no link.
LEMMA LinkMarksKeeps ==
  ASSUME NEW e, NEW surface, EditorInv(e, surface), NEW k \in DOMAIN e.workbenches, NEW w, NEW n
  PROVE  LET f == LinkMarks(e, k, w, n) IN EditorInv(f, surface) /\ Keeps(e, f)
  <1> DEFINE f == LinkMarks(e, k, w, n)
             put == Put(e.origins, w, n)
             rest == Restrict(e.origins, DOMAIN e.origins \ {w})
             m == e.origins[w]
             u == [e EXCEPT !.origins = rest]
             g == e.workbenches[k].graph
             h == Link(g, m, n, TRUE)
             i == Link(h, n, m, TRUE)
             c == [u EXCEPT !.workbenches[k].graph = i]
  <1>1. /\ EditorInv(u, surface) /\ Keeps(e, u) /\ u.workbenches = e.workbenches
    <2> HIDE DEF rest
    <2> QED BY OriginsChange
  <1>2. \/ f = [e EXCEPT !.origins = put]
        \/ f = u
        \/ f = c
    <2>1. IsState(e)
          BY DEF EditorInv
    <2>2. u.workbenches[k].graph = g /\ IsState(u) /\ k \in DOMAIN u.workbenches
          BY <1>1 DEF EditorInv
    <2>3. f = [e EXCEPT !.origins = Put(@, w, n)] => f = [e EXCEPT !.origins = put]
          BY <2>1 DEF IsState, EditorFields
    <2>4. f = [e EXCEPT !.origins = Restrict(@, DOMAIN @ \ {w})] => f = u
          BY <2>1 DEF IsState, EditorFields
    <2> QED BY <2>1 DEF IsState, EditorFields, LinkMarks
  <1>3. EditorInv([e EXCEPT !.origins = put], surface) /\ Keeps(e, [e EXCEPT !.origins = put])
    <2> HIDE DEF put
    <2> QED BY OriginsChange
  <1>4. EditorInv(c, surface) /\ Keeps(u, c)
    <2>1. DOMAIN g = GraphFields /\ GraphInv(g)
          BY DEF EditorInv, JumpInv, IsState, IsWorkbench, GraphFields
    <2> HIDE DEF g, m
    <2>2. DOMAIN h = GraphFields /\ GraphInv(h) /\ h.nodes = g.nodes
          BY <2>1, LinkKeeps
    <2> HIDE DEF h
    <2>3. DOMAIN i = GraphFields /\ GraphInv(i) /\ i.nodes = h.nodes
      <3>1. ASSUME NEW from, NEW to, NEW persistent, NEW l, l = Link(h, from, to, persistent)
            PROVE  DOMAIN l = GraphFields /\ GraphInv(l) /\ l.nodes = h.nodes
            BY <2>2, <3>1, LinkKeeps
      <3> QED BY <3>1, Zenon
    <2>4. k \in DOMAIN u.workbenches /\ i.nodes = u.workbenches[k].graph.nodes
          BY <1>1, <2>2, <2>3 DEF g
    <2> HIDE DEF i, u
    <2> QED BY <1>1, <2>3, <2>4, GraphChanges
  <1> HIDE DEF f, u, c, put
  <1>5. Keeps(e, c)
        BY <1>1, <1>4, KeepsTwice
  <1> QED BY <1>1, <1>2, <1>3, <1>4, <1>5 DEF f

\* MoveCursor: to an entry of the walk.
LEMMA CursorMovesKeeps ==
  ASSUME NEW e, NEW surface, EditorInv(e, surface), NEW k \in DOMAIN e.workbenches,
         NEW w \in DOMAIN e.workbenches[k].walks, NEW delta \in {-1, 1},
         CanMove(e.workbenches[k].walks[w], delta)
  PROVE  LET f == MoveCursor(e, k, w, delta) IN
         /\ EditorInv(f, surface) /\ Keeps(e, f) /\ SameWindows(e, f)
         /\ f.workbenches[k].graph = e.workbenches[k].graph
  <1> DEFINE f == MoveCursor(e, k, w, delta)
             walk == e.workbenches[k].walks[w]
             next == [entries |-> walk.entries, cursor |-> walk.cursor + delta,
                      lost |-> walk.lost]
  <1>1. IsState(e) /\ WindowInv(e, {}, surface) /\ JumpInv(e) /\ AnchorInv(e) /\ CaretInv(e)
        BY DEF EditorInv
  <1>2. IsWalk(walk, DOMAIN e.workbenches[k].graph.nodes)
        BY <1>1 DEF JumpInv
  <1>3. IsWalk(next, DOMAIN e.workbenches[k].graph.nodes)
        BY <1>2 DEF IsWalk, CanMove
  <1>4. [walk EXCEPT !.cursor = @ + delta] = next
        BY <1>2 DEF IsWalk
  <1>5. /\ DOMAIN f = EditorFields /\ f.buffers = e.buffers /\ f.windows = e.windows
        /\ f.carets = e.carets /\ f.active = e.active /\ f.placeholder = e.placeholder
        /\ f.saving = e.saving /\ f.bufferSlots = e.bufferSlots
        /\ f.windowSlots = e.windowSlots /\ f.workbenchSlots = e.workbenchSlots
        /\ DOMAIN f.workbenches = DOMAIN e.workbenches
        /\ \A j \in DOMAIN e.workbenches :
            /\ IsWorkbench(f.workbenches[j])
            /\ f.workbenches[j].graph = e.workbenches[j].graph
            /\ f.workbenches[j].locations = e.workbenches[j].locations
            /\ f.workbenches[j].layout = e.workbenches[j].layout
            /\ f.workbenches[j].active = e.workbenches[j].active
            /\ f.workbenches[j].recent = e.workbenches[j].recent
            /\ DOMAIN f.workbenches[j].walks = DOMAIN e.workbenches[j].walks
            /\ j # k => f.workbenches[j].walks = e.workbenches[j].walks
        BY <1>1 DEF IsState, IsWorkbench, EditorFields, MoveCursor
  <1>6. \A v \in DOMAIN e.workbenches[k].walks :
           f.workbenches[k].walks[v] = IF v = w THEN [walk EXCEPT !.cursor = @ + delta]
                                       ELSE e.workbenches[k].walks[v]
        BY <1>1 DEF IsState, IsWorkbench, EditorFields, MoveCursor
  <1> HIDE DEF f, next
  <1>7. IsState(f)
        BY <1>1, <1>5 DEF IsState
  <1>8. SameWindows(e, f) /\ SamePlaces(e, f) /\ Keeps(e, f)
        BY <1>5 DEF SameWindows, SamePlaces, Keeps
  <1>9. WindowInv(f, {}, surface) /\ AnchorInv(f)
        BY <1>1, <1>8, WindowsStay, AnchorsStay
  <1>10. JumpInv(f)
    <2> HIDE DEF walk
    <2>1. ASSUME NEW j \in DOMAIN e.workbenches
          PROVE  /\ GraphInv(f.workbenches[j].graph)
                 /\ \A v \in DOMAIN f.workbenches[j].walks :
                       IsWalk(f.workbenches[j].walks[v], DOMAIN f.workbenches[j].graph.nodes)
      <3>1. /\ GraphInv(e.workbenches[j].graph)
            /\ \A v \in DOMAIN e.workbenches[j].walks :
                  IsWalk(e.workbenches[j].walks[v], DOMAIN e.workbenches[j].graph.nodes)
            BY <1>1 DEF JumpInv
      <3>2. CASE j = k
            BY <1>3, <1>4, <1>5, <1>6, <3>1, <3>2
      <3>3. CASE j # k
            BY <1>5, <3>1, <3>3
      <3> QED BY <3>2, <3>3
    <2> QED BY <1>5, <2>1 DEF JumpInv
  <1>11. CaretInv(f)
        BY <1>1, <1>5 DEF CaretInv
  <1> QED BY <1>5, <1>7, <1>8, <1>9, <1>10, <1>11 DEF EditorInv, f

\* A node has another line.
LEMMA NodeMovesKeeps ==
  ASSUME NEW e, NEW surface, EditorInv(e, surface), NEW k \in DOMAIN e.workbenches,
         NEW n \in DOMAIN e.workbenches[k].graph.nodes, NEW line \in Nat
  PROVE  LET f == MoveJump(e, k, n, line) IN
         /\ EditorInv(f, surface) /\ Keeps(e, f)
         /\ DOMAIN f.workbenches[k].graph.nodes = DOMAIN e.workbenches[k].graph.nodes
  <1> DEFINE f == MoveJump(e, k, n, line)
             old == e.workbenches[k].graph.nodes
             nodes == f.workbenches[k].graph.nodes
  <1>1. IsState(e) /\ WindowInv(e, {}, surface) /\ JumpInv(e) /\ AnchorInv(e) /\ CaretInv(e)
        BY DEF EditorInv
  <1>2. /\ DOMAIN f = EditorFields /\ f.buffers = e.buffers /\ f.windows = e.windows
        /\ f.carets = e.carets /\ f.active = e.active /\ f.placeholder = e.placeholder
        /\ f.saving = e.saving /\ f.bufferSlots = e.bufferSlots
        /\ f.windowSlots = e.windowSlots /\ f.workbenchSlots = e.workbenchSlots
        /\ DOMAIN f.workbenches = DOMAIN e.workbenches
        /\ \A j \in DOMAIN e.workbenches :
            /\ IsWorkbench(f.workbenches[j])
            /\ f.workbenches[j].walks = e.workbenches[j].walks
            /\ f.workbenches[j].locations = e.workbenches[j].locations
            /\ f.workbenches[j].layout = e.workbenches[j].layout
            /\ f.workbenches[j].active = e.workbenches[j].active
            /\ f.workbenches[j].recent = e.workbenches[j].recent
            /\ j # k => f.workbenches[j].graph = e.workbenches[j].graph
        BY <1>1 DEF IsState, IsWorkbench, EditorFields, MoveJump
  <1>3. /\ f.workbenches[k].graph.order = e.workbenches[k].graph.order
        /\ f.workbenches[k].graph.edges = e.workbenches[k].graph.edges
        /\ f.workbenches[k].graph.last = e.workbenches[k].graph.last
        /\ DOMAIN nodes = DOMAIN old
        /\ \A m \in DOMAIN old : m # n => nodes[m] = old[m]
        /\ nodes[n] = [old[n] EXCEPT !.line = line]
        BY <1>1 DEF IsState, IsWorkbench, EditorFields, MoveJump
  <1> HIDE DEF f
  <1>4. IsState(f)
        BY <1>1, <1>2 DEF IsState
  <1>5. SameWindows(e, f) /\ Keeps(e, f)
        BY <1>2 DEF SameWindows, Keeps
  <1>6. WindowInv(f, {}, surface)
        BY <1>1, <1>5, WindowsStay
  <1>7. JumpInv(f)
    <2>1. GraphInv(f.workbenches[k].graph)
          BY <1>1, <1>3 DEF JumpInv, GraphInv
    <2>2. ASSUME NEW j \in DOMAIN e.workbenches
          PROVE  /\ GraphInv(f.workbenches[j].graph)
                 /\ \A v \in DOMAIN f.workbenches[j].walks :
                       IsWalk(f.workbenches[j].walks[v], DOMAIN f.workbenches[j].graph.nodes)
      <3>1. /\ GraphInv(e.workbenches[j].graph)
            /\ \A v \in DOMAIN e.workbenches[j].walks :
                  IsWalk(e.workbenches[j].walks[v], DOMAIN e.workbenches[j].graph.nodes)
            BY <1>1 DEF JumpInv
      <3>2. CASE j = k
            BY <1>2, <1>3, <2>1, <3>1, <3>2
      <3>3. CASE j # k
            BY <1>2, <3>1, <3>3
      <3> QED BY <3>2, <3>3
    <2> QED BY <1>2, <2>2 DEF JumpInv
  <1>8. CaretInv(f)
        BY <1>1, <1>2 DEF CaretInv
  <1>9. AnchorInv(f)
    <2> DEFINE more == {}
    <2>1. \A m \in DOMAIN old : /\ IsPlace(old[m]) /\ IsPlace(nodes[m])
                                /\ nodes[m].buffer = old[m].buffer /\ nodes[m].anchor = old[m].anchor
      <3>1. \A m \in DOMAIN old : IsPlace(old[m])
            BY <1>1, PlacesAre DEF AnchorInv, PlaceInv
      <3> HIDE DEF old, nodes
      <3>2. IsPlace(nodes[n]) /\ n \in DOMAIN old
            /\ nodes[n].buffer = old[n].buffer /\ nodes[n].anchor = old[n].anchor
        <4>1. n \in DOMAIN old
              BY DEF old
        <4> QED BY <1>3, <3>1, <4>1 DEF IsPlace
      <3> QED BY <1>3, <3>1, <3>2
    <2>2. \A j \in DOMAIN e.workbenches :
            DOMAIN f.workbenches[j].graph.nodes = DOMAIN e.workbenches[j].graph.nodes
          BY <1>2, <1>3
    <2>3. Places(f) = Places(e)
      <3>1. ASSUME NEW p
            PROVE  p \in Places(f) <=>
                    \E j \in DOMAIN e.workbenches :
                    \/ \E m \in DOMAIN e.workbenches[j].graph.nodes : p = NodePlace(j, m)
                    \/ \E i \in DOMAIN e.workbenches[j].locations : p = ItemPlace(j, i)
        <4>1. p \in Places(f) <=>
                    \E j \in DOMAIN f.workbenches :
                    \/ \E m \in DOMAIN f.workbenches[j].graph.nodes : p = NodePlace(j, m)
                    \/ \E i \in DOMAIN f.workbenches[j].locations : p = ItemPlace(j, i)
              BY PlacesAre
        <4> QED BY <1>2, <2>2, <4>1
      <3>2. \A p : p \in Places(f) <=> p \in Places(e)
            BY <3>1, PlacesAre
      <3> QED BY <3>2
    <2>4. ASSUME NEW p \in Places(e)
          PROVE  /\ IsPlace(PlaceAt(f, p))
                 /\ PlaceAt(f, p).buffer = PlaceAt(e, p).buffer
                 /\ PlaceAt(f, p).anchor = PlaceAt(e, p).anchor
      <3>1. PICK j \in DOMAIN e.workbenches :
                    \/ \E m \in DOMAIN e.workbenches[j].graph.nodes : p = NodePlace(j, m)
                    \/ \E i \in DOMAIN e.workbenches[j].locations : p = ItemPlace(j, i)
            BY PlacesAre
      <3>2. CASE j = k /\ \E m \in DOMAIN e.workbenches[j].graph.nodes : p = NodePlace(j, m)
        <4>1. PICK m \in DOMAIN old : p = NodePlace(k, m)
              BY <3>2
        <4>2. PlaceAt(f, p) = nodes[m] /\ PlaceAt(e, p) = old[m]
              BY <4>1, PlacesAre
        <4> QED BY <2>1, <4>2
      <3>3. CASE ~(j = k /\ \E m \in DOMAIN e.workbenches[j].graph.nodes : p = NodePlace(j, m))
        <4>1. PlaceAt(f, p) = PlaceAt(e, p)
              BY <1>2, <3>1, <3>3, PlacesAre
        <4> QED BY <1>1, <4>1 DEF AnchorInv, PlaceInv
      <3> QED BY <3>2, <3>3
    <2>5. RangeInv(f) /\ ListInv(f)
          BY <1>1, <1>2 DEF AnchorInv, RangeInv, ListInv
    <2>6. Places(f) = Places(e) \cup more /\ \A p : p \notin more
          BY <2>3
    <2> HIDE DEF more
    <2> QED BY <1>1, <1>2, <2>4, <2>5, <2>6, HoldersStay
  <1> QED BY <1>3, <1>4, <1>5, <1>6, <1>7, <1>8, <1>9 DEF EditorInv, f

\* TouchJump: of a node of the graph.
LEMMA TouchJumpKeeps ==
  ASSUME NEW e, NEW surface, EditorInv(e, surface), NEW k \in DOMAIN e.workbenches,
         NEW n \in DOMAIN e.workbenches[k].graph.nodes
  PROVE  LET f == TouchJump(e, k, n) IN
         /\ EditorInv(f, surface) /\ Keeps(e, f) /\ Grows(e, f)
  <1> DEFINE old == e.workbenches[k].graph
             g == Touch(old, n)
             f == [e EXCEPT !.workbenches[k].graph = g]
  <1>1. DOMAIN old = GraphFields /\ GraphInv(old)
        BY DEF EditorInv, JumpInv, IsState, IsWorkbench, GraphFields
  <1>2. DOMAIN g = GraphFields /\ GraphInv(g) /\ g.nodes = old.nodes
    <2> HIDE DEF old
    <2>1. n \in DOMAIN old.nodes
          BY DEF old
    <2> QED BY <1>1, <2>1, TouchKeeps
  <1> HIDE DEF g
  <1>3. EditorInv(f, surface) /\ Keeps(e, f) /\ Grows(e, f)
        BY <1>2, GraphChanges
  <1>4. f = TouchJump(e, k, n)
        BY DEF g, EditorInv, IsState, IsWorkbench, EditorFields, TouchJump
  <1> HIDE DEF f
  <1> QED BY <1>3, <1>4

\* restore_jump() of a place in an open buffer.
LEMMA ShowPlaceKeeps ==
  ASSUME NEW e, NEW surface, EditorInv(e, surface), NEW k \in DOMAIN e.workbenches,
         NEW w \in ToSet(e.workbenches[k].layout),
         NEW n \in DOMAIN e.workbenches[k].graph.nodes, Attached(e.workbenches[k].graph.nodes[n])
  PROVE  LET f == ShowPlace(e, k, w, n) IN
         /\ EditorInv(f, surface) /\ Keeps(e, f)
         /\ n \in DOMAIN f.workbenches[k].graph.nodes
  <1> DEFINE node == e.workbenches[k].graph.nodes[n]
             b == node.buffer
             line == e.buffers[b].anchors[node.anchor]
             s == ShowBuffer(e, w, b)
             c == FocusWindow(s, k, w)
             m == MoveCaret(c, w, line)
             u == MoveJump(m, k, n, line)
             v == TouchJump(u, k, n)
             f == ShowPlace(e, k, w, n)
  <1>1. AnchorInv(e) /\ w \in DOMAIN e.windows
        BY LayoutsAreOpen DEF EditorInv
  <1>2. b \in DOMAIN e.buffers /\ node.anchor \in DOMAIN e.buffers[b].anchors
    <2>1. NodePlace(k, n) \in Places(e) /\ PlaceAt(e, NodePlace(k, n)) = node
          BY PlacesAre
    <2> HIDE DEF node
    <2> QED BY <1>1, <2>1 DEF AnchorInv, PlaceInv, node
  <1>3. line \in Nat
    <2> HIDE DEF b, node
    <2>1. line \in 0..(e.buffers[b].lines - 1) /\ e.buffers[b].lines \in Nat
          BY <1>1, <1>2 DEF AnchorInv, RangeInv
    <2> HIDE DEF line
    <2> QED BY <2>1
  <1>4. f = v
        BY DEF ShowPlace
  <1> HIDE DEF node, b, line, s, c, m, f
  <1>5. /\ EditorInv(s, surface) /\ Keeps(e, s) /\ SamePlaces(e, s)
        /\ w \in ToSet(s.workbenches[k].layout)
        BY <1>1, <1>2, ShowBufferKeeps DEF s
  <1>6. k \in DOMAIN s.workbenches
        BY <1>5 DEF Keeps
  <1>7. EditorInv(c, surface) /\ Keeps(s, c) /\ SamePlaces(s, c)
        BY <1>5, <1>6, FocusWindowKeeps DEF c
  <1>8. Keeps(e, c)
        BY <1>5, <1>7, KeepsTwice
  <1>9. w \in DOMAIN c.windows
        BY <1>1, <1>8 DEF Keeps
  <1>10. EditorInv(m, surface) /\ Keeps(c, m) /\ SamePlaces(c, m)
        BY <1>3, <1>7, <1>9, MoveCaretKeeps DEF m
  <1>11. Keeps(e, m)
        BY <1>8, <1>10, KeepsTwice
  <1>12. k \in DOMAIN m.workbenches /\ n \in DOMAIN m.workbenches[k].graph.nodes
        BY <1>5, <1>7, <1>10 DEF SamePlaces
  <1>13. /\ EditorInv(u, surface) /\ Keeps(m, u)
         /\ DOMAIN u.workbenches[k].graph.nodes = DOMAIN m.workbenches[k].graph.nodes
        BY <1>3, <1>10, <1>12, NodeMovesKeeps
  <1> HIDE DEF u
  <1>14. k \in DOMAIN u.workbenches /\ n \in DOMAIN u.workbenches[k].graph.nodes
        BY <1>12, <1>13 DEF Keeps
  <1>15. EditorInv(v, surface) /\ Keeps(u, v) /\ Grows(u, v)
        BY <1>13, <1>14, TouchJumpKeeps
  <1> HIDE DEF v
  <1>16. Keeps(e, v)
        BY <1>11, <1>13, <1>15, KeepsTwice
  <1>17. n \in DOMAIN v.workbenches[k].graph.nodes
        BY <1>14, <1>15 DEF Grows
  <1> QED BY <1>4, <1>15, <1>16, <1>17 DEF f

-----------------------------------------------------------------------------
(* Files: what is opened, and where jumps lead.                            *)

\* A command that does nothing keeps what it relies on.
LEMMA KeepsItself ==
  ASSUME NEW e
  PROVE  Keeps(e, e)
  BY DEF Keeps

\* Visited: whether the walk records it or not.
LEMMA VisitedKeeps ==
  ASSUME NEW e, NEW surface, EditorInv(e, surface), NEW k \in DOMAIN e.workbenches, NEW w,
         NEW n, NEW visit
  PROVE  LET f == Visited(e, k, w, n, visit) IN EditorInv(f, surface) /\ Keeps(e, f)
  <1> DEFINE f == Visited(e, k, w, n, TRUE)
             nodes == DOMAIN e.workbenches[k].graph.nodes
  <1>1. IsState(e) /\ WindowInv(e, {}, surface) /\ JumpInv(e) /\ AnchorInv(e) /\ CaretInv(e) /\ ShownInv(e)
        BY DEF EditorInv, WindowInv
  <1>2. IsState(f)
        BY <1>1 DEF IsState, IsWorkbench, EditorFields, RecordJump, Visited
  <1>3. SameWindows(e, f)
        BY <1>1 DEF IsState, IsWorkbench, EditorFields, SameWindows, RecordJump, Visited
  <1>4. Keeps(e, f)
        BY <1>1 DEF IsState, IsWorkbench, EditorFields, Keeps, RecordJump, Visited
  <1>5. SamePlaces(e, f)
        BY <1>1 DEF IsState, IsWorkbench, EditorFields, SamePlaces, RecordJump, Visited
  <1>6. /\ DOMAIN f.workbenches = DOMAIN e.workbenches
        /\ \A j \in DOMAIN e.workbenches : /\ f.workbenches[j].graph = e.workbenches[j].graph
                                           /\ DOMAIN f.workbenches[j].walks = DOMAIN e.workbenches[j].walks
        /\ \A j \in DOMAIN e.workbenches \ {k} : f.workbenches[j].walks = e.workbenches[j].walks
        /\ \A v \in DOMAIN e.workbenches[k].walks :
              f.workbenches[k].walks[v] =
                  IF v = w THEN [Record(e.workbenches[k].walks[w], n) EXCEPT !.lost = @ \cup ({n} \ nodes)]
                  ELSE e.workbenches[k].walks[v]
        BY <1>1 DEF IsState, IsWorkbench, EditorFields, RecordJump, Visited
  <1>7. f.carets = e.carets /\ f.buffers = e.buffers
        BY <1>1 DEF IsState, EditorFields, RecordJump, Visited
  <1>8. ~visit => Visited(e, k, w, n, visit) = e
        BY DEF Visited
  <1>9. visit => Visited(e, k, w, n, visit) = f
        BY DEF Visited
  <1> HIDE DEF f
  <1>10. JumpInv(f)
    <2>1. ASSUME NEW j \in DOMAIN e.workbenches, NEW v \in DOMAIN e.workbenches[j].walks
          PROVE  IsWalk(f.workbenches[j].walks[v], DOMAIN e.workbenches[j].graph.nodes)
      <3>1. IsWalk(e.workbenches[j].walks[v], DOMAIN e.workbenches[j].graph.nodes)
            BY <1>1 DEF JumpInv
      <3>2. CASE j = k /\ v = w
            BY <1>6, <3>1, <3>2, WalkVisits
      <3>3. CASE ~(j = k /\ v = w)
            BY <1>6, <3>1, <3>3
      <3> QED BY <3>2, <3>3
    <2> QED BY <1>1, <1>6, <2>1 DEF JumpInv
  <1>11. AnchorInv(f) /\ WindowInv(f, {}, surface)
        BY <1>1, <1>3, <1>5, AnchorsStay, WindowsStay
  <1>12. CaretInv(f)
        BY <1>1, <1>7, CaretsStay
  <1>13. EditorInv(f, surface)
        BY <1>2, <1>10, <1>11, <1>12 DEF EditorInv
  <1> QED BY <1>4, <1>8, <1>9, <1>13, KeepsItself

\* AwaitFile: the file will be displayed.
LEMMA AwaitFileKeeps ==
  ASSUME NEW e, OpensInv, NEW w, NEW r \in Resources,
         NEW line \in Nat \cup {NoLine}, NEW tracked, AwaitFile(e, w, r, line, tracked)
  PROVE  editor' = e /\ OpensInv' /\ UNCHANGED disk
  <1> DEFINE open == [resource |-> r, window |-> w, tracked |-> tracked, line |-> line]
  <1>1. editor' = e /\ opens' = {o \in opens : o.resource # r} \cup {open} /\ UNCHANGED disk
        BY DEF AwaitFile
  <1>2. open.resource = r /\ open.line = line
        OBVIOUS
  <1> HIDE DEF open
  <1> QED BY <1>1, <1>2 DEF OpensInv

\* OpenResource: the file is displayed, or will be.
LEMMA OpenResourceKeeps ==
  ASSUME NEW e, NEW surface, EditorInv(e, surface), OpensInv, NEW w, NEW r \in Resources,
         NEW line \in Nat \cup {NoLine}, NEW tracked, OpenResource(e, w, r, line, tracked)
  PROVE  /\ EditorInv(editor', surface) /\ Keeps(e, editor') /\ OpensInv' /\ UNCHANGED disk
  <1>2. CASE \E b \in Visiting(e, r), plan \in Plans(e, w) :
                    Becomes(Display(e, w, b, tracked, line, plan))
    <2>1. PICK b \in Visiting(e, r), plan \in Plans(e, w) :
                    Becomes(Display(e, w, b, tracked, line, plan))
          BY <1>2
    <2>2. b \in DOMAIN e.buffers
          BY DEF Visiting
    <2>3. EditorInv(Display(e, w, b, tracked, line, plan), surface)
          /\ Keeps(e, Display(e, w, b, tracked, line, plan))
          BY <2>2, DisplayKeeps
    <2>4. EditorInv(editor', surface) /\ Keeps(e, editor')
          BY <2>1, <2>3 DEF Becomes
    <2>5. OpensInv' /\ UNCHANGED disk
          BY <2>1 DEF OpensInv, Becomes
    <2> QED BY <2>4, <2>5
  <1>3. CASE AwaitFile(e, w, r, line, tracked)
        BY <1>3, AwaitFileKeeps, KeepsItself
  <1> QED BY <1>2, <1>3 DEF OpenResource

\* RestoreJump: the buffer of an attached node is open and its anchor is on a line.
LEMMA RestoreJumpKeeps ==
  ASSUME NEW e, NEW surface, EditorInv(e, surface), OpensInv, NEW k \in DOMAIN e.workbenches,
         NEW w \in ToSet(e.workbenches[k].layout), NEW n, NEW visit,
         RestoreJump(e, k, w, n, visit)
  PROVE  /\ EditorInv(editor', surface) /\ Keeps(e, editor') /\ OpensInv' /\ UNCHANGED disk
  <1> DEFINE node == e.workbenches[k].graph.nodes[n]
  <1>0. n \in DOMAIN e.workbenches[k].graph.nodes
        BY DEF RestoreJump
  <1>1. CASE Attached(node)
    <2> DEFINE s == ShowPlace(e, k, w, n)
               f == Visited(s, k, w, n, visit)
    <2>1. editor' = f /\ UNCHANGED <<opens, disk>>
          BY <1>1 DEF RestoreJump, Becomes, disk
    <2>2. EditorInv(s, surface) /\ Keeps(e, s)
          BY <1>0, <1>1, ShowPlaceKeeps
    <2>3. k \in DOMAIN s.workbenches
          BY <2>2 DEF Keeps
    <2> HIDE DEF s
    <2>4. EditorInv(f, surface) /\ Keeps(s, f)
          BY <2>2, <2>3, VisitedKeeps
    <2> HIDE DEF f
    <2>5. Keeps(e, f)
          BY <2>2, <2>4, KeepsTwice
    <2>6. OpensInv'
          BY <2>1 DEF OpensInv
    <2> QED BY <2>1, <2>4, <2>5, <2>6
  <1>2. CASE ~Attached(node)
    <2> DEFINE s == TouchJump(e, k, n)
               r == node.resource
               line == node.line
               shown(b, plan) == Visited(Display(s, w, b, FALSE, line, plan), k, w, n, visit)
    <2>1. /\ r # NoResource
          /\ \/ \E b \in Visiting(e, r), plan \in Plans(e, w) : Becomes(shown(b, plan))
             \/ AwaitFile(Visited(s, k, w, n, visit), w, r, line, FALSE)
          BY <1>2 DEF RestoreJump
    <2>2. r \in Resources /\ line \in Nat
      <3>1. NodePlace(k, n) \in Places(e) /\ PlaceAt(e, NodePlace(k, n)) = node
            BY <1>0, PlacesAre
      <3>2. IsPlace(node)
            BY <3>1 DEF EditorInv, AnchorInv, PlaceInv
      <3> QED BY <2>1, <3>2 DEF IsPlace
    <2> HIDE DEF node, r, line
    <2>3. EditorInv(s, surface) /\ Keeps(e, s)
          BY <1>0, TouchJumpKeeps
    <2>4. k \in DOMAIN s.workbenches /\ DOMAIN s.buffers = DOMAIN e.buffers
          BY <2>3 DEF Keeps
    <2>5. \A plan \in Plans(e, w) : plan \in Plans(s, w)
          BY DEF TouchJump, Plans, DisplayOrigin, Owner, Owners, ActiveWindow
    <2> HIDE DEF s
    <2>6. CASE \E b \in Visiting(e, r), plan \in Plans(e, w) : Becomes(shown(b, plan))
      <3>1. PICK b \in Visiting(e, r), plan \in Plans(e, w) : Becomes(shown(b, plan))
            BY <2>6
      <3> DEFINE d == Display(s, w, b, FALSE, line, plan)
                 f == Visited(d, k, w, n, visit)
      <3>2. b \in DOMAIN s.buffers /\ plan \in Plans(s, w)
            BY <2>4, <2>5 DEF Visiting
      <3>3. EditorInv(d, surface) /\ Keeps(s, d)
            BY <2>2, <2>3, <3>2, DisplayKeeps
      <3>4. editor' = f /\ UNCHANGED <<opens, disk>>
            BY <3>1 DEF Becomes, disk
      <3> HIDE DEF d
      <3>5. k \in DOMAIN d.workbenches
            BY <2>4, <3>3 DEF Keeps
      <3>6. EditorInv(f, surface) /\ Keeps(d, f)
            BY <3>3, <3>5, VisitedKeeps
      <3> HIDE DEF f
      <3>7. Keeps(e, f)
        <4>1. Keeps(e, d)
              BY <2>3, <3>3, KeepsTwice
        <4> QED BY <3>6, <4>1, KeepsTwice
      <3>8. OpensInv'
            BY <3>4 DEF OpensInv
      <3> QED BY <3>4, <3>6, <3>7, <3>8
    <2>7. CASE AwaitFile(Visited(s, k, w, n, visit), w, r, line, FALSE)
      <3> DEFINE f == Visited(s, k, w, n, visit)
      <3>1. EditorInv(f, surface) /\ Keeps(s, f)
            BY <2>3, <2>4, VisitedKeeps
      <3> HIDE DEF f
      <3>2. Keeps(e, f)
            BY <2>3, <3>1, KeepsTwice
      <3>3. AwaitFile(f, w, r, line, FALSE)
            BY <2>7 DEF f
      <3>4. editor' = f /\ OpensInv' /\ UNCHANGED disk
            BY <2>2, <3>3, AwaitFileKeeps
      <3> QED BY <3>1, <3>2, <3>4
    <2> QED BY <2>1, <2>6, <2>7
  <1> QED BY <1>1, <1>2

\* The placeholder goes when a file is there to show instead.
LEMMA WithoutPlaceholderIsFine ==
  ASSUME NEW e, NEW surface, Fine(e, surface), NEW b \in DOMAIN e.buffers
  PROVE  Fine(WithoutPlaceholder(e, b), surface)
  <1> DEFINE p == e.placeholder
             f == ReleaseBuffer(e, p, b)
  <1>1. CASE p # NoHandle /\ p # b /\ ~Modified(e, p)
    <2>1. p \in DOMAIN e.buffers /\ b \in DOMAIN e.buffers \ {p}
          BY <1>1 DEF Fine, EditorInv, WindowInv, ShownInv
    <2>2. WithoutPlaceholder(e, b) = f
          BY <1>1 DEF WithoutPlaceholder
    <2> HIDE DEF p
    <2>3. EditorInv(f, surface) /\ Closes(e, f, p)
          BY <2>1, ReleaseBufferKeeps DEF Fine
    <2> HIDE DEF f
    <2>4. SaveInv(f)
          BY <2>1, <2>3, ClosedSaves
    <2> QED BY <2>2, <2>3, <2>4 DEF Fine
  <1>2. CASE ~(p # NoHandle /\ p # b /\ ~Modified(e, p))
        BY <1>2 DEF WithoutPlaceholder
  <1> QED BY <1>1, <1>2

\* A display touches no save and closes no buffer.
LEMMA DisplayIsFine ==
  ASSUME NEW e, NEW surface, Fine(e, surface), NEW w, NEW b \in DOMAIN e.buffers, NEW tracked,
         NEW line \in Nat \cup {NoLine}, NEW plan \in Plans(e, w)
  PROVE  LET f == Display(e, w, b, tracked, line, plan) IN Fine(f, surface) /\ b \in DOMAIN f.buffers
  <1> DEFINE f == Display(e, w, b, tracked, line, plan)
  <1>1. EditorInv(f, surface) /\ Keeps(e, f)
        BY DisplayKeeps DEF Fine
  <1> HIDE DEF f
  <1>2. SaveInv(f) /\ b \in DOMAIN f.buffers
        BY <1>1, KeptSaves DEF Fine, Keeps
  <1> QED BY <1>1, <1>2 DEF Fine, f

\* A buffer starts unmodified, with a text that its file has held.
LEMMA CreateBufferIsFine ==
  ASSUME NEW e, NEW surface, Fine(e, surface), NEW resource \in Resources \cup {NoResource},
         NEW lines \in Nat \ {0}, lines \in {1} \cup UNION Range(files)
  PROVE  LET f == CreateBuffer(e, resource, lines) IN
         /\ Fine(f, surface) /\ Opens(e, f, CreatedBuffer(e), resource, lines)
  <1> DEFINE f == CreateBuffer(e, resource, lines)
  <1>1. EditorInv(f, surface) /\ Opens(e, f, CreatedBuffer(e), resource, lines)
        BY CreateBufferKeeps DEF Fine
  <1> HIDE DEF f
  <1>2. SaveInv(f)
        BY <1>1, OpenedSaves
  <1> QED BY <1>1, <1>2 DEF Fine, f

\* The save of a buffer goes with it, and its write finds nobody.
LEMMA ReleaseBufferIsFine ==
  ASSUME NEW e, NEW surface, Fine(e, surface), NEW b \in DOMAIN e.buffers,
         NEW replacement \in DOMAIN e.buffers \ {b}
  PROVE  Fine(ReleaseBuffer(e, b, replacement), surface)
  <1> DEFINE f == ReleaseBuffer(e, b, replacement)
  <1>1. EditorInv(f, surface) /\ Closes(e, f, b)
        BY ReleaseBufferKeeps DEF Fine
  <1> HIDE DEF f
  <1>2. SaveInv(f)
        BY <1>1, ClosedSaves
  <1> QED BY <1>1, <1>2 DEF Fine, f

-----------------------------------------------------------------------------
(* Saves.                                                                   *)

\* The buffers marked as being saved are for SaveInv alone.
LEMMA SavingChanges ==
  ASSUME NEW e, NEW surface, EditorInv(e, surface), NEW saving
  PROVE  LET f == [e EXCEPT !.saving = saving] IN
         /\ EditorInv(f, surface) /\ f.buffers = e.buffers /\ f.saving = saving
         /\ f.bufferSlots = e.bufferSlots
  <1> DEFINE f == [e EXCEPT !.saving = saving]
  <1>1. IsState(e) /\ SlotInv(e, surface)
        BY DEF EditorInv, WindowInv
  <1>2. /\ DOMAIN f = EditorFields /\ f.buffers = e.buffers /\ f.windows = e.windows
        /\ f.carets = e.carets /\ f.workbenches = e.workbenches /\ f.active = e.active
        /\ f.placeholder = e.placeholder /\ f.saving = saving /\ f.bufferSlots = e.bufferSlots
        /\ f.windowSlots = e.windowSlots /\ f.workbenchSlots = e.workbenchSlots
        BY <1>1 DEF IsState, EditorFields
  <1> HIDE DEF f
  <1>3. SlotInv(f, surface)
        BY <1>1, <1>2 DEF SlotInv
  <1>4. EditorInv(f, surface)
        BY <1>2, <1>3, SlotsChange
  <1> QED BY <1>2, <1>4 DEF f

\* A save point is no more than the text it is compared with.
LEMMA SavePointChanges ==
  ASSUME NEW e, NEW surface, EditorInv(e, surface), NEW b \in DOMAIN e.buffers, NEW text
  PROVE  LET f == [e EXCEPT !.buffers[b].saved = text] IN
         /\ EditorInv(f, surface) /\ f.saving = e.saving /\ f.bufferSlots = e.bufferSlots
         /\ DOMAIN f.buffers = DOMAIN e.buffers
         /\ \A c \in DOMAIN e.buffers : f.buffers[c].saved = IF c = b THEN text ELSE e.buffers[c].saved
  <1> DEFINE f == [e EXCEPT !.buffers[b].saved = text]
  <1>1. IsState(e) /\ RangeInv(e) /\ CaretInv(e) /\ ShownInv(e)
        BY DEF EditorInv, AnchorInv, WindowInv
  <1>2. DOMAIN f = EditorFields /\ \A x \in EditorFields \ {"buffers", "carets"} : f[x] = e[x]
        BY <1>1 DEF IsState, EditorFields
  <1>3. /\ f.carets = e.carets /\ DOMAIN f.buffers = DOMAIN e.buffers
        /\ f.saving = e.saving /\ f.bufferSlots = e.bufferSlots
        /\ \A c \in DOMAIN e.buffers :
            /\ DOMAIN f.buffers[c] = {"resource", "lines", "saved", "anchors"}
            /\ f.buffers[c].lines = e.buffers[c].lines
            /\ f.buffers[c].resource = e.buffers[c].resource
            /\ f.buffers[c].anchors = e.buffers[c].anchors
            /\ f.buffers[c].saved = IF c = b THEN text ELSE e.buffers[c].saved
        BY <1>1 DEF IsState, EditorFields
  <1> HIDE DEF f
  <1>4. RangeInv(f)
        BY <1>1, <1>3 DEF RangeInv
  <1>5. CaretInv(f)
        BY <1>1, <1>3, CaretsStay
  <1>6. EditorInv(f, surface)
        BY <1>2, <1>3, <1>4, <1>5, BuffersChange
  <1> QED BY <1>3, <1>6 DEF f

\* The write of a save that begins is the only one of its buffer.
LEMMA BeginSaveIsFine ==
  ASSUME NEW e, NEW surface, Fine(e, surface), NEW b \in DOMAIN e.buffers,
         e.buffers[b].resource \in Resources, BeginSave(e, b)
  PROVE  EditorInv(editor', surface) /\ SaveInv(editor)' /\ UNCHANGED <<opens, files>>
  <1> DEFINE text == e.buffers[b].lines
             new == [buffer |-> b, resource |-> e.buffers[b].resource, text |-> text, written |-> FALSE]
             saving == Put(e.saving, b, text)
             f == [e EXCEPT !.saving = saving]
  <1>1. EditorInv(e, surface) /\ SaveInv(e) /\ IsState(e) /\ RangeInv(e) /\ SlotInv(e, surface)
        BY DEF Fine, EditorInv, AnchorInv, WindowInv
  <1>2. /\ b \notin DOMAIN e.saving /\ writes' = writes \cup {new} /\ UNCHANGED <<opens, files>>
        BY DEF BeginSave
  <1>3. editor' = f
        BY <1>1 DEF BeginSave, IsState, EditorFields
  <1>4. /\ DOMAIN new = {"buffer", "resource", "text", "written"} /\ new.buffer = b
        /\ new.resource \in Resources /\ new.text = text /\ new.written = FALSE
        /\ text \in Nat \ {0}
        BY <1>1 DEF RangeInv
  <1>5. DOMAIN saving = DOMAIN e.saving \cup {b} /\ saving[b] = text
        /\ \A c \in DOMAIN e.saving : c # b => saving[c] = e.saving[c]
        BY DEF Put
  <1> HIDE DEF saving, new, text
  <1>6. /\ EditorInv(f, surface) /\ f.buffers = e.buffers /\ f.saving = saving
        /\ f.bufferSlots = e.bufferSlots
        BY <1>1, SavingChanges
  <1> HIDE DEF f
  <1>7. \A w \in writes' : WriteInv(editor, w)'
    <2>1. Live(e.bufferSlots, b)
          BY <1>1 DEF SlotInv
    <2>2. \A w \in writes : WriteInv(e, w)
          BY <1>1 DEF SaveInv
    <2> QED BY <1>2, <1>3, <1>4, <1>6, <2>1, <2>2 DEF WriteInv
  <1>8. \A w \in writes : w.buffer # b
        BY <1>1, <1>2 DEF SaveInv, OwnWrite
  <1>9. ASSUME NEW c \in DOMAIN e.buffers
        PROVE  OwnWrite(editor, c)'
    <2>1. OwnWrite(e, c)
          BY <1>1 DEF SaveInv
    <2>2. CASE c = b
      <3>1. new \in writes' /\ \A v \in writes' : v.buffer = b <=> v = new
            BY <1>2, <1>4, <1>8
      <3> QED BY <1>3, <1>4, <1>5, <1>6, <2>2, <3>1 DEF OwnWrite
    <2>3. CASE c # b /\ c \in DOMAIN e.saving
      <3>1. PICK w \in writes : w.text = e.saving[c] /\ \A v \in writes : v.buffer = c <=> v = w
            BY <2>1, <2>3 DEF OwnWrite
      <3>2. w \in writes' /\ \A v \in writes' : v.buffer = c <=> v = w
            BY <1>2, <1>4, <1>8, <2>3, <3>1
      <3> QED BY <1>3, <1>5, <1>6, <2>3, <3>1, <3>2 DEF OwnWrite
    <2>4. CASE c # b /\ c \notin DOMAIN e.saving
      <3>1. \A v \in writes' : v.buffer # c
            BY <1>2, <1>4, <2>1, <2>4 DEF OwnWrite
      <3> QED BY <1>3, <1>5, <1>6, <2>4, <3>1 DEF OwnWrite
    <2> QED BY <2>2, <2>3, <2>4
  <1>10. SaveInv(editor)'
    <2>1. /\ DOMAIN editor'.buffers = DOMAIN e.buffers
          /\ DOMAIN editor'.saving \subseteq DOMAIN editor'.buffers
          BY <1>1, <1>3, <1>5, <1>6 DEF SaveInv
    <2>2. \A c \in DOMAIN e.buffers : editor'.buffers[c].saved \in {1} \cup UNION Range(files')
          BY <1>1, <1>2, <1>3, <1>6 DEF SaveInv
    <2> QED BY <1>7, <1>9, <2>1, <2>2 DEF SaveInv
  <1> QED BY <1>2, <1>3, <1>6, <1>10

\* A file gets the text of a write.
LEMMA WriteFileIsFine ==
  ASSUME FilesInv, SaveInv(editor), WriteFile
  PROVE  FilesInv' /\ SaveInv(editor)'
  <1>1. PICK w \in writes :
            /\ ~w.written
            /\ files' = [files EXCEPT ![w.resource] = @ \cup {w.text}]
            /\ writes' = (writes \ {w}) \cup {[w EXCEPT !.written = TRUE]}
            /\ UNCHANGED editor
        BY DEF WriteFile
  <1> DEFINE new == [w EXCEPT !.written = TRUE]
  <1>2. WriteInv(editor, w)
        BY DEF SaveInv
  <1>3. /\ DOMAIN new = {"buffer", "resource", "text", "written"} /\ new.buffer = w.buffer
        /\ new.resource = w.resource /\ new.text = w.text
        BY <1>2 DEF WriteInv
  <1>4. writes' = (writes \ {w}) \cup {new}
        BY <1>1
  <1> HIDE DEF new
  <1>5. /\ DOMAIN files' = Resources /\ w.text \in files'[w.resource] /\ w.resource \in Resources
        /\ \A r \in Resources : files[r] \subseteq files'[r]
        /\ \A r \in Resources : \A t \in files'[r] : t \in files[r] \/ t = w.text
        BY <1>1, <1>2 DEF FilesInv, WriteInv
  <1>6. FilesInv'
    <2>1. w.text \in Nat \ {0}
          BY <1>2 DEF WriteInv
    <2>2. \A r \in Resources : files[r] \subseteq Nat \ {0}
          BY DEF FilesInv
    <2> QED BY <1>5, <2>1, <2>2 DEF FilesInv
  <1>7. \A v \in writes' : WriteInv(editor, v)'
    <2>1. ASSUME NEW v \in writes
          PROVE  WriteInv(editor, v)'
          BY <1>1, <1>5 DEF SaveInv, WriteInv
    <2>2. WriteInv(editor, new)'
          BY <1>1, <1>2, <1>3, <1>5 DEF WriteInv
    <2> QED BY <1>4, <2>1, <2>2
  <1>8. ASSUME NEW b \in DOMAIN editor.buffers
        PROVE  OwnWrite(editor, b)'
    <2>1. OwnWrite(editor, b)
          BY DEF SaveInv
    <2>2. CASE b \in DOMAIN editor.saving
      <3>1. PICK u \in writes : u.text = editor.saving[b] /\ \A v \in writes : v.buffer = b <=> v = u
            BY <2>1, <2>2 DEF OwnWrite
      <3>2. CASE u = w
        <4>1. new \in writes' /\ new.text = editor.saving[b]
              BY <1>3, <1>4, <3>1, <3>2
        <4>2. \A v \in writes' : v.buffer = b <=> v = new
              BY <1>3, <1>4, <3>1, <3>2
        <4> QED BY <1>1, <2>2, <4>1, <4>2 DEF OwnWrite
      <3>3. CASE u # w
        <4>1. u \in writes' /\ \A v \in writes' : v.buffer = b <=> v = u
              BY <1>3, <1>4, <3>1, <3>3
        <4> QED BY <1>1, <2>2, <3>1, <4>1 DEF OwnWrite
      <3> QED BY <3>2, <3>3
    <2>3. CASE b \notin DOMAIN editor.saving
      <3>1. \A v \in writes' : v.buffer # b
            BY <1>3, <1>4, <2>1, <2>3 DEF OwnWrite
      <3> QED BY <1>1, <2>3, <3>1 DEF OwnWrite
    <2> QED BY <2>2, <2>3
  <1>9. \A t \in UNION Range(files) : t \in UNION Range(files')
        BY <1>5 DEF Range, FilesInv
  <1>10. SaveInv(editor)'
    <2>1. \A b \in DOMAIN editor.buffers : editor.buffers[b].saved \in {1} \cup UNION Range(files')
          BY <1>9 DEF SaveInv
    <2>2. DOMAIN editor.saving \subseteq DOMAIN editor.buffers
          BY DEF SaveInv
    <2> QED BY <1>1, <1>7, <1>8, <2>1, <2>2 DEF SaveInv
  <1> QED BY <1>6, <1>10

\* What is left of a save that ended, however it did.
LEMMA SaveEnds ==
  ASSUME NEW e, NEW f, SaveInv(e), NEW w \in writes, NEW writesLeft, writesLeft = writes \ {w},
         DOMAIN f.buffers = DOMAIN e.buffers, f.bufferSlots = e.bufferSlots,
         DOMAIN f.saving = DOMAIN e.saving \ {w.buffer},
         \A c \in DOMAIN f.saving : f.saving[c] = e.saving[c],
         \A c \in DOMAIN e.buffers :
            f.buffers[c].saved = e.buffers[c].saved \/ f.buffers[c].saved \in UNION Range(files),
         editor' = f, writes' = writesLeft, UNCHANGED files
  PROVE  SaveInv(editor)'
  <1> DEFINE b == w.buffer
  <1>1. DOMAIN f.saving = DOMAIN e.saving \ {b} /\ \A c \in DOMAIN f.saving : f.saving[c] = e.saving[c]
        OBVIOUS
  <1>2. \A v \in writes' : WriteInv(editor, v)'
        BY DEF SaveInv, WriteInv
  <1>3. ASSUME NEW c \in DOMAIN e.buffers
        PROVE  OwnWrite(editor, c)'
    <2>1. OwnWrite(e, c)
          BY DEF SaveInv
    <2>2. CASE c = b
      <3>1. \A v \in writes : v.buffer = b => v = w
            BY <2>1, <2>2 DEF OwnWrite
      <3>2. \A v \in writes' : v.buffer # c
            BY <2>2, <3>1
      <3> QED BY <1>1, <2>2, <3>2 DEF OwnWrite
    <2>3. CASE c # b /\ c \in DOMAIN e.saving
      <3>1. PICK u \in writes : u.text = e.saving[c] /\ \A v \in writes : v.buffer = c <=> v = u
            BY <2>1, <2>3 DEF OwnWrite
      <3>2. u \in writes' /\ \A v \in writes' : v.buffer = c <=> v = u
            BY <2>3, <3>1
      <3> QED BY <1>1, <2>3, <3>1, <3>2 DEF OwnWrite
    <2>4. CASE c # b /\ c \notin DOMAIN e.saving
          BY <1>1, <2>1, <2>4 DEF OwnWrite
    <2> QED BY <2>2, <2>3, <2>4
  <1>4. /\ DOMAIN editor'.saving \subseteq DOMAIN editor'.buffers /\ DOMAIN editor'.buffers = DOMAIN e.buffers
        /\ \A c \in DOMAIN e.buffers : editor'.buffers[c].saved \in {1} \cup UNION Range(files')
        BY <1>1 DEF SaveInv
  <1> QED BY <1>2, <1>3, <1>4 DEF SaveInv

\* FinishSave: the write that is answered is that of the save, or its buffer is gone.
LEMMA FinishSaveIsFine ==
  ASSUME NEW e, e = editor, NEW surface, FilesInv, Fine(e, surface), FinishSave
  PROVE  EditorInv(editor', surface) /\ SaveInv(editor)' /\ UNCHANGED <<opens, files>>
  <1>1. PICK w \in writes :
            /\ \/ w.written /\ editor' = SavedBuffer(e, w.buffer)
               \/ editor' = WithoutSave(e, w.buffer)
            /\ writes' = writes \ {w} /\ UNCHANGED <<opens, files>>
        BY DEF FinishSave
  <1> DEFINE b == w.buffer
             left == Restrict(e.saving, DOMAIN e.saving \ {b})
             s == [e EXCEPT !.buffers[b].saved = e.saving[b]]
             f == [e EXCEPT !.saving = left]
             g == [s EXCEPT !.saving = left]
  <1>2. EditorInv(e, surface) /\ SaveInv(e) /\ IsState(e)
        BY DEF Fine, EditorInv
  <1>3. CASE editor' = WithoutSave(e, b)
    <2>1. editor' = f
          BY <1>2, <1>3 DEF WithoutSave, IsState, EditorFields
    <2> HIDE DEF left
    <2>2. /\ EditorInv(f, surface) /\ f.buffers = e.buffers /\ f.saving = left
          /\ f.bufferSlots = e.bufferSlots
          BY <1>2, SavingChanges
    <2> HIDE DEF f
    <2>3. DOMAIN f.saving = DOMAIN e.saving \ {b} /\ \A c \in DOMAIN f.saving : f.saving[c] = e.saving[c]
          BY <2>2 DEF left, Restrict
    <2>4. SaveInv(editor)'
      <3>1. \A c \in DOMAIN e.buffers :
              f.buffers[c].saved = e.buffers[c].saved \/ f.buffers[c].saved \in UNION Range(files)
            BY <2>2
      <3>2. DOMAIN f.buffers = DOMAIN e.buffers /\ f.bufferSlots = e.bufferSlots
            BY <2>2
      <3> QED BY <1>1, <1>2, <2>1, <2>3, <3>1, <3>2, SaveEnds
    <2> QED BY <1>1, <2>1, <2>2, <2>4
  <1>4. CASE w.written /\ b \in DOMAIN e.saving /\ editor' = WithoutSave(s, b)
    <2>1. b \in DOMAIN e.buffers
          BY <1>2, <1>4 DEF SaveInv
    <2> DEFINE text == e.saving[b]
    <2>2. text \in UNION Range(files)
      <3>1. OwnWrite(e, b) /\ WriteInv(e, w)
            BY <1>2, <2>1 DEF SaveInv
      <3>2. text = w.text
            BY <1>4, <3>1 DEF OwnWrite
      <3>3. w.text \in files[w.resource] /\ w.resource \in DOMAIN files
            BY <1>4, <3>1 DEF WriteInv, FilesInv
      <3> QED BY <3>2, <3>3 DEF Range
    <2>3. /\ EditorInv(s, surface) /\ s.saving = e.saving /\ s.bufferSlots = e.bufferSlots
          /\ DOMAIN s.buffers = DOMAIN e.buffers
          /\ \A c \in DOMAIN e.buffers : s.buffers[c].saved = IF c = b THEN text ELSE e.buffers[c].saved
      <3> HIDE DEF text
      <3>1. s = [e EXCEPT !.buffers[b].saved = text]
            BY DEF text
      <3> HIDE DEF s, b
      <3> QED BY <1>2, <2>1, <3>1, SavePointChanges
    <2> HIDE DEF s, text
    <2>4. editor' = g
          BY <1>4, <2>3 DEF WithoutSave, EditorInv, IsState, EditorFields
    <2> HIDE DEF left
    <2>5. /\ EditorInv(g, surface) /\ g.buffers = s.buffers /\ g.saving = left
          /\ g.bufferSlots = s.bufferSlots
          BY <2>3, SavingChanges
    <2> HIDE DEF g
    <2>6. SaveInv(editor)'
      <3>1. \A c \in DOMAIN e.buffers :
              g.buffers[c].saved = e.buffers[c].saved \/ g.buffers[c].saved \in UNION Range(files)
            BY <2>2, <2>3, <2>5
      <3>2. DOMAIN g.buffers = DOMAIN e.buffers /\ g.bufferSlots = e.bufferSlots
            BY <2>3, <2>5
      <3>3. /\ DOMAIN g.saving = DOMAIN e.saving \ {b}
            /\ \A c \in DOMAIN g.saving : g.saving[c] = e.saving[c]
            BY <2>5 DEF left, Restrict
      <3> QED BY <1>1, <1>2, <2>4, <3>1, <3>2, <3>3, SaveEnds
    <2> QED BY <1>1, <2>4, <2>5, <2>6
  <1>5. CASE b \notin DOMAIN e.saving /\ editor' = e
    <2>1. DOMAIN e.saving = DOMAIN e.saving \ {b}
          BY <1>5
    <2>2. SaveInv(editor)'
          BY <1>1, <1>2, <1>5, <2>1, SaveEnds
    <2> QED BY <1>1, <1>2, <1>5, <2>2
  <1> QED BY <1>1, <1>3, <1>4, <1>5 DEF SavedBuffer

-----------------------------------------------------------------------------
(* The state of the editor is sound after every step.                      *)

Surface == IF minibuffer = Closed THEN {}
           ELSE {[buffer |-> minibuffer.buffer, window |-> minibuffer.window]}

StateInv == EditorInv(editor, Surface) /\ FilesInv /\ OpensInv /\ SaveInv(editor)

\* What a window shows: an open buffer, with the caret on one of its lines.
LEMMA WindowShows ==
  ASSUME NEW e, NEW surface, EditorInv(e, surface), NEW w \in DOMAIN e.windows
  PROVE  LET b == e.windows[w] IN
         /\ b \in DOMAIN e.buffers /\ e.buffers[b].lines \in Nat \ {0}
         /\ e.carets[<<w, b>>] \in 0..(e.buffers[b].lines - 1)
         /\ e.buffers[b].resource \in Resources \cup {NoResource}
         /\ e.active \in DOMAIN e.workbenches
  <1> DEFINE b == e.windows[w]
  <1>1. <<w, b>>[1] = w /\ <<w, b>>[2] = b
        OBVIOUS
  <1>2. <<w, b>> \in DOMAIN e.carets /\ b \in DOMAIN e.buffers
    <2>1. <<w, b>> \in DOMAIN e.carets
          BY DEF EditorInv, WindowInv, ShownInv
    <2> QED BY <1>1, <2>1 DEF EditorInv, WindowInv, ShownInv
  <1> HIDE DEF b
  <1>3. e.carets[<<w, b>>] \in 0..(e.buffers[b].lines - 1)
        BY <1>1, <1>2 DEF EditorInv, CaretInv
  <1>4. e.buffers[b].lines \in Nat \ {0} /\ e.buffers[b].resource \in Resources \cup {NoResource}
        BY <1>2 DEF EditorInv, AnchorInv, RangeInv
  <1>5. e.active \in DOMAIN e.workbenches
        BY DEF EditorInv, WindowInv, LayoutInv
  <1> QED BY <1>2, <1>3, <1>4, <1>5 DEF b

\* Without its surface the state of the editor is sound too.
LEMMA ReadyIsFine ==
  ASSUME StateInv
  PROVE  Fine(Ready, {}) /\ Ready.windows = editor.windows /\ Ready.workbenches = editor.workbenches
         /\ Ready.active = editor.active
  <1>1. Fine(editor, Surface) /\ IsState(editor)
        BY DEF StateInv, Fine, EditorInv
  <1>2. CASE minibuffer = Closed
        BY <1>1, <1>2 DEF Ready, WithoutSurface, Surface
  <1>3. CASE minibuffer # Closed
    <2> DEFINE s == [buffer |-> minibuffer.buffer, window |-> minibuffer.window]
               surface == {s}
               f == [editor EXCEPT !.bufferSlots = Freed(@, s.buffer), !.windowSlots = Freed(@, s.window)]
    <2>1. Surface = surface /\ Ready = f
          BY <1>3 DEF Surface, Ready, WithoutSurface
    <2>2. /\ f.windows = editor.windows /\ f.workbenches = editor.workbenches
          /\ f.active = editor.active
          BY <1>1 DEF IsState, EditorFields
    <2>3. Fine(f, {})
      <3> HIDE DEF s
      <3>1. surface = {s} /\ Fine(editor, surface)
            BY <1>1, <2>1
      <3> HIDE DEF surface
      <3> QED BY <3>1, FreedSurfaceIsFine
    <2> HIDE DEF f
    <2> QED BY <2>1, <2>2, <2>3
  <1> QED BY <1>2, <1>3

\* What a command runs on.
LEMMA CommandRuns ==
  ASSUME StateInv, NEW kind, Command(kind)
  PROVE  /\ Fine(Ready, {}) /\ FilesInv /\ OpensInv
         /\ Context \in DOMAIN Ready.windows /\ minibuffer' = Closed
  <1>1. Fine(Ready, {}) /\ Ready.windows = editor.windows /\ FilesInv /\ OpensInv
        BY ReadyIsFine DEF StateInv
  <1>2. minibuffer' = Closed
        BY DEF Command, Submit, prompt
  <1>3. CASE minibuffer = Closed
    <2>1. editor.active \in DOMAIN editor.workbenches
          BY DEF StateInv, EditorInv, WindowInv, LayoutInv
    <2>2. ActiveWindow(editor) \in DOMAIN editor.windows
          BY <2>1, LayoutsAreOpen DEF StateInv, ActiveWindow
    <2> QED BY <1>1, <1>2, <1>3, <2>2 DEF Context
  <1>4. CASE minibuffer # Closed
        BY <1>1, <1>2, <1>4 DEF Command, OriginIsDisplayed, Context
  <1> QED BY <1>3, <1>4

\* What is true of a state is true of the editor that becomes it.
LEMMA SavesCarryOver ==
  ASSUME NEW f, SaveInv(f), editor' = f, UNCHANGED disk
  PROVE  SaveInv(editor)'
  <1>1. writes' = writes /\ files' = files
        BY DEF disk
  <1>2. \A w \in writes' : WriteInv(editor, w)'
        BY <1>1 DEF SaveInv, WriteInv
  <1>3. \A b \in DOMAIN f.buffers : OwnWrite(editor, b)'
        BY <1>1 DEF SaveInv, OwnWrite
  <1> QED BY <1>1, <1>2, <1>3 DEF SaveInv

\* A command, or what else takes the surface down, leaves the editor like this.
LEMMA CommandEnds ==
  ASSUME NEW f, Fine(f, {}), editor' = f, FilesInv, OpensInv', UNCHANGED disk, minibuffer' = Closed
  PROVE  StateInv'
  <1>1. SaveInv(editor)' /\ EditorInv(editor', {})
        BY SavesCarryOver DEF Fine
  <1>2. Surface' = {}
        BY DEF Surface
  <1>3. FilesInv'
        BY DEF FilesInv, disk
  <1> QED BY <1>1, <1>2, <1>3 DEF StateInv

\* An answer to a task.
LEMMA AnswerEnds ==
  ASSUME NEW f, NEW surface, surface = Surface, Fine(f, surface), editor' = f, FilesInv, OpensInv',
         UNCHANGED disk, UNCHANGED prompt
  PROVE  StateInv'
  <1>1. SaveInv(editor)' /\ EditorInv(editor', surface)
        BY SavesCarryOver DEF Fine
  <1>2. Surface' = surface
        BY DEF Surface, prompt
  <1>3. FilesInv'
        BY DEF FilesInv, disk
  <1> QED BY <1>1, <1>2, <1>3 DEF StateInv

\* The whole of a command that displays, moves or changes something in the editor.
LEMMA CommandBecomes ==
  ASSUME NEW e, NEW f, Fine(e, {}), EditorInv(f, {}), Keeps(e, f) \/ SameSaves(e, f), Becomes(f),
         FilesInv, OpensInv, minibuffer' = Closed
  PROVE  StateInv'
  <1>1. SaveInv(f)
        BY KeptSaves, SavesStay DEF Fine
  <1>2. editor' = f /\ UNCHANGED opens /\ UNCHANGED disk
        BY DEF Becomes
  <1>3. OpensInv'
        BY <1>2 DEF OpensInv
  <1> QED BY <1>1, <1>2, <1>3, CommandEnds DEF Fine

-----------------------------------------------------------------------------
(* Files.                                                                  *)

\* One lemma per action follows, for those that act on the state of the editor.
LEMMA OpenFileStep ==
  ASSUME StateInv, OpenFile
  PROVE  StateInv'
  <1>1. /\ Fine(Ready, {}) /\ FilesInv /\ OpensInv /\ minibuffer' = Closed
        BY CommandRuns DEF OpenFile
  <1>2. PICK r \in Resources, line \in {NoLine, FileLines - 1} : OpenResource(Ready, Context, r, line, TRUE)
        BY DEF OpenFile
  <1>3. line \in Nat \cup {NoLine}
        BY EditorAssumption
  <1> DEFINE e == Ready
             g == editor'
  <1>4. EditorInv(e, {})
        BY <1>1 DEF Fine
  <1>5. EditorInv(editor', {}) /\ Keeps(e, editor') /\ OpensInv' /\ UNCHANGED disk
    <2> HIDE DEF e
    <2>1. OpenResource(e, Context, r, line, TRUE)
          BY <1>2 DEF e
    <2> QED BY <1>1, <1>3, <1>4, <2>1, OpenResourceKeeps
  <1> HIDE DEF g, e
  <1>6. SaveInv(e) /\ Keeps(e, g) /\ EditorInv(g, {})
        BY <1>1, <1>5 DEF Fine, g, e
  <1>7. Fine(g, {})
        BY <1>6, KeptSaves DEF Fine
  <1> QED BY <1>1, <1>5, <1>7, CommandEnds DEF g

\* The invariant through each action: the answers of opens and searches,
LEMMA FinishOpenStep ==
  ASSUME StateInv, FinishOpen
  PROVE  StateInv'
  <1>1. PICK o \in opens :
            /\ \E lines \in files[o.resource] :
               \E e \in {IF Visiting(editor, o.resource) # {} THEN editor
                         ELSE CreateBuffer(editor, o.resource, lines)} :
               \E b \in Visiting(e, o.resource), plan \in Plans(e, o.window) :
                  editor' = WithoutPlaceholder(Display(e, o.window, b, o.tracked, o.line, plan), b)
            /\ opens' = opens \ {o}
            /\ UNCHANGED <<disk, prompt>>
        BY DEF FinishOpen
  <1>2. PICK lines \in files[o.resource] :
          \E e \in {IF Visiting(editor, o.resource) # {} THEN editor
                    ELSE CreateBuffer(editor, o.resource, lines)} :
          \E b \in Visiting(e, o.resource), plan \in Plans(e, o.window) :
             editor' = WithoutPlaceholder(Display(e, o.window, b, o.tracked, o.line, plan), b)
        BY <1>1
  <1>3. PICK e : /\ e = IF Visiting(editor, o.resource) # {} THEN editor
                        ELSE CreateBuffer(editor, o.resource, lines)
                 /\ \E b \in Visiting(e, o.resource), plan \in Plans(e, o.window) :
                      editor' = WithoutPlaceholder(Display(e, o.window, b, o.tracked, o.line, plan), b)
        BY <1>2
  <1>4. PICK b \in Visiting(e, o.resource), plan \in Plans(e, o.window) :
             editor' = WithoutPlaceholder(Display(e, o.window, b, o.tracked, o.line, plan), b)
        BY <1>3
  <1>5. /\ o.resource \in Resources /\ o.line \in Nat \cup {NoLine} /\ OpensInv'
        /\ lines \in Nat \ {0} /\ lines \in UNION Range(files)
        BY <1>1, <1>2 DEF StateInv, OpensInv, FilesInv, Range
  <1> DEFINE surface == Surface
             d == Display(e, o.window, b, o.tracked, o.line, plan)
             f == WithoutPlaceholder(d, b)
  <1>6. Fine(editor, surface)
        BY DEF StateInv, Fine
  <1> HIDE DEF surface
  <1>7. Fine(e, surface)
    <2> DEFINE c == CreateBuffer(editor, o.resource, lines)
    <2>1. Fine(c, surface)
      <3> DEFINE r == o.resource
      <3>1. r \in Resources \cup {NoResource} /\ lines \in {1} \cup UNION Range(files)
            BY <1>5
      <3> HIDE DEF r
      <3>2. Fine(CreateBuffer(editor, r, lines), surface)
            BY <1>5, <1>6, <3>1, CreateBufferIsFine
      <3> QED BY <3>2 DEF r
    <2> HIDE DEF c
    <2>2. e = editor \/ e = c
          BY <1>3 DEF c
    <2> QED BY <1>6, <2>1, <2>2
  <1>8. b \in DOMAIN e.buffers
        BY DEF Visiting
  <1>9. Fine(d, surface) /\ b \in DOMAIN d.buffers
        BY <1>5, <1>7, <1>8, DisplayIsFine
  <1> HIDE DEF d
  <1>10. Fine(f, surface)
        BY <1>9, WithoutPlaceholderIsFine
  <1>11. editor' = f
        BY <1>4 DEF d
  <1> HIDE DEF f
  <1>12. FilesInv /\ UNCHANGED disk /\ UNCHANGED prompt
        BY <1>1 DEF StateInv
  <1> QED BY <1>5, <1>10, <1>11, <1>12, AnswerEnds DEF surface

LEMMA FinishSearchStep ==
  ASSUME StateInv, FinishSearch
  PROVE  StateInv'
  <1>1. PICK b : b = CreatedBuffer(editor) /\
          \E e \in {CreateBuffer(editor, NoResource, 1)} :
             IF Owners(e, search) = {}
             THEN editor' = e
             ELSE \E r \in Resources, line \in 0..(FileLines - 1), plan \in Plans(e, search) :
                  editor' = Display(PublishLocations(e, search, r, line), search, b, TRUE, NoLine, plan)
        BY DEF FinishSearch
  <1>2. PICK e : e = CreateBuffer(editor, NoResource, 1) /\
             IF Owners(e, search) = {}
             THEN editor' = e
             ELSE \E r \in Resources, line \in 0..(FileLines - 1), plan \in Plans(e, search) :
                  editor' = Display(PublishLocations(e, search, r, line), search, b, TRUE, NoLine, plan)
        BY <1>1
  <1> DEFINE surface == Surface
  <1>3. Fine(editor, surface)
        BY DEF StateInv, Fine
  <1>4. /\ FilesInv /\ OpensInv' /\ UNCHANGED disk /\ UNCHANGED prompt
        BY DEF FinishSearch, StateInv, OpensInv
  <1> HIDE DEF surface
  <1>5. Fine(e, surface) /\ b \in DOMAIN e.buffers
    <2> DEFINE c == CreateBuffer(editor, NoResource, 1)
    <2>1. NoResource \in Resources \cup {NoResource} /\ 1 \in Nat \ {0} /\ 1 \in {1} \cup UNION Range(files)
          OBVIOUS
    <2>2. Fine(c, surface) /\ Opens(editor, c, CreatedBuffer(editor), NoResource, 1)
          BY <1>3, <2>1, CreateBufferIsFine
    <2> HIDE DEF c
    <2>3. e = c
          BY <1>2 DEF c
    <2> QED BY <1>1, <2>2, <2>3 DEF Opens
  <1>6. CASE editor' = e
        BY <1>4, <1>5, <1>6, AnswerEnds DEF surface
  <1>7. CASE Owners(e, search) # {}
    <2>1. PICK r \in Resources, line \in 0..(FileLines - 1), plan \in Plans(e, search) :
             editor' = Display(PublishLocations(e, search, r, line), search, b, TRUE, NoLine, plan)
          BY <1>2, <1>7
    <2> DEFINE p == PublishLocations(e, search, r, line)
               f == Display(p, search, b, TRUE, NoLine, plan)
    <2>2. search \in DOMAIN e.windows
      <3>1. PICK k \in DOMAIN e.workbenches : search \in ToSet(e.workbenches[k].layout)
            BY <1>7 DEF Owners
      <3> QED BY <1>5, <3>1, LayoutsAreOpen DEF Fine
    <2>3. line \in Nat
          BY EditorAssumption
    <2>4. EditorInv(p, surface) /\ Keeps(e, p) /\ SameWindows(e, p)
          BY <1>5, <2>2, <2>3, PublishLocationsKeeps DEF Fine
    <2>5. plan \in Plans(p, search)
      <3> DEFINE k == Owner(e, search)
      <3> HIDE DEF p
      <3>1. k \in DOMAIN e.workbenches /\ search \in ToSet(e.workbenches[k].layout)
            BY <1>5, <2>2, OwnerOwns DEF Fine
      <3>2. /\ DOMAIN p.workbenches = DOMAIN e.workbenches
            /\ \A j \in DOMAIN e.workbenches : p.workbenches[j].layout = e.workbenches[j].layout
            BY <2>4 DEF SameWindows
      <3>3. Owners(p, search) = Owners(e, search)
            BY <3>2 DEF Owners
      <3>4. DisplayOrigin(p, search) = search /\ DisplayOrigin(e, search) = search
            BY <1>7, <3>3 DEF DisplayOrigin
      <3>5. Owner(p, search) = k
            BY <3>3 DEF Owner
      <3>6. plan.target \in ToSet(e.workbenches[k].layout) /\ plan \in Plans(e, search)
            BY <3>4 DEF Plans
      <3>7. p.workbenches[k].layout = e.workbenches[k].layout
            BY <3>1, <3>2
      <3> QED BY <3>4, <3>5, <3>6, <3>7 DEF Plans
    <2> HIDE DEF p
    <2>6. Fine(p, surface) /\ b \in DOMAIN p.buffers
          BY <1>5, <2>4, KeptSaves DEF Fine, Keeps
    <2>7. Fine(f, surface)
      <3>1. NoLine \in Nat \cup {NoLine}
            OBVIOUS
      <3> QED BY <2>5, <2>6, <3>1, DisplayIsFine
    <2>8. editor' = f
          BY <2>1 DEF p
    <2> HIDE DEF f
    <2> QED BY <1>4, <2>7, <2>8, AnswerEnds DEF surface
  <1> QED BY <1>2, <1>6, <1>7

\* commands on buffers and windows,
LEMMA KillBufferStep ==
  ASSUME StateInv, KillBuffer
  PROVE  StateInv'
  <1>1. /\ Fine(Ready, {}) /\ FilesInv /\ OpensInv /\ minibuffer' = Closed
        /\ Context \in DOMAIN Ready.windows
        BY CommandRuns DEF KillBuffer
  <1>2. PICK e : e = Ready /\ \E b \in {e.windows[Context]} :
           IF DOMAIN e.buffers = {b}
           THEN Becomes(ReleaseBuffer(CreateBuffer(e, NoResource, 1), b, CreatedBuffer(e)))
           ELSE \E other \in DOMAIN e.buffers \ {b} : Becomes(ReleaseBuffer(e, b, other))
        BY DEF KillBuffer
  <1>3. PICK b : b = e.windows[Context] /\
           IF DOMAIN e.buffers = {b}
           THEN Becomes(ReleaseBuffer(CreateBuffer(e, NoResource, 1), b, CreatedBuffer(e)))
           ELSE \E other \in DOMAIN e.buffers \ {b} : Becomes(ReleaseBuffer(e, b, other))
        BY <1>2
  <1>4. Fine(e, {}) /\ b \in DOMAIN e.buffers
        BY <1>1, <1>2, <1>3, WindowShows DEF Fine
  <1>5. ASSUME NEW f, Fine(f, {}), Becomes(f) PROVE StateInv'
    <2>1. editor' = f /\ UNCHANGED disk /\ OpensInv'
          BY <1>1, <1>5 DEF Becomes, OpensInv
    <2> QED BY <1>1, <1>5, <2>1, CommandEnds
  <1>6. CASE DOMAIN e.buffers = {b}
    <2> DEFINE n == CreatedBuffer(e)
               c == CreateBuffer(e, NoResource, 1)
               f == ReleaseBuffer(c, b, n)
    <2>1. NoResource \in Resources \cup {NoResource} /\ 1 \in Nat \ {0} /\ 1 \in {1} \cup UNION Range(files)
          OBVIOUS
    <2>2. Fine(c, {}) /\ Opens(e, c, n, NoResource, 1)
          BY <1>4, <2>1, CreateBufferIsFine
    <2> HIDE DEF c, n
    <2>3. b \in DOMAIN c.buffers /\ n \in DOMAIN c.buffers \ {b}
          BY <1>4, <2>2 DEF Opens
    <2>4. Fine(f, {})
          BY <2>2, <2>3, ReleaseBufferIsFine
    <2>5. Becomes(f)
          BY <1>3, <1>6 DEF c, n
    <2> HIDE DEF f
    <2> QED BY <1>5, <2>4, <2>5
  <1>7. ASSUME NEW other \in DOMAIN e.buffers \ {b}, Becomes(ReleaseBuffer(e, b, other)) PROVE StateInv'
    <2> DEFINE f == ReleaseBuffer(e, b, other)
    <2>1. Fine(f, {})
          BY <1>4, <1>7, ReleaseBufferIsFine
    <2>2. Becomes(f)
          BY <1>7
    <2> HIDE DEF f
    <2> QED BY <1>5, <2>1, <2>2
  <1> QED BY <1>3, <1>6, <1>7

LEMMA SwitchBufferStep ==
  ASSUME StateInv, SwitchBuffer
  PROVE  StateInv'
  <1>1. /\ Fine(Ready, {}) /\ FilesInv /\ OpensInv /\ minibuffer' = Closed
        BY CommandRuns DEF SwitchBuffer
  <1>2. PICK e, w : e = Ready /\ \E b \in DOMAIN e.buffers, plan \in Plans(e, w) :
                         Becomes(Display(e, w, b, TRUE, NoLine, plan))
        BY DEF SwitchBuffer
  <1>3. PICK b \in DOMAIN e.buffers, plan \in Plans(e, w) : Becomes(Display(e, w, b, TRUE, NoLine, plan))
        BY <1>2
  <1> DEFINE f == Display(e, w, b, TRUE, NoLine, plan)
  <1>4. EditorInv(f, {}) /\ Keeps(e, f)
    <2>1. NoLine \in Nat \cup {NoLine}
          OBVIOUS
    <2>2. EditorInv(e, {})
          BY <1>1, <1>2 DEF Fine
    <2> QED BY <1>3, <2>1, <2>2, DisplayKeeps
  <1>5. Becomes(f) /\ Fine(e, {})
        BY <1>1, <1>2, <1>3
  <1> HIDE DEF f
  <1> QED BY <1>1, <1>4, <1>5, CommandBecomes

-----------------------------------------------------------------------------
(* Windows and workbenches.                                                *)

\* Some windows of a workbench go, but not the one in use there.
LEMMA LayoutWindowsGo ==
  ASSUME NEW e, NEW surface, EditorInv(e, surface), NEW k \in DOMAIN e.workbenches,
         NEW hs \in Seq(ToSet(e.workbenches[k].layout)), IsInjective(hs),
         e.workbenches[k].active \notin ToSet(hs)
  PROVE  LET f == DestroyWindows(e, hs) IN EditorInv(f, surface) /\ SameSaves(e, f)
  <1> DEFINE S == ToSet(e.workbenches[k].layout)
             extra == {}
  <1>1. /\ IsState(e) /\ WindowInv(e, {}, surface) /\ JumpInv(e) /\ AnchorInv(e) /\ CaretInv(e)
        /\ LayoutInv(e, {})
        BY DEF EditorInv, WindowInv
  <1>2. ToSet(hs) \subseteq S
        BY DEF ToSet
  <1>3. S \subseteq DOMAIN e.windows
        BY LayoutsAreOpen
  <1>4. ASSUME NEW j \in DOMAIN e.workbenches PROVE e.workbenches[j].active \notin ToSet(hs)
    <2>1. CASE j = k
          BY <2>1
    <2>2. CASE j # k
      <3>1. /\ e.workbenches[j].active \in ToSet(e.workbenches[j].layout)
            /\ ToSet(e.workbenches[j].layout) \cap S = {}
            BY <1>1, <2>2 DEF LayoutInv
      <3> QED BY <1>2, <3>1
    <2> QED BY <2>1, <2>2
  <1>5. hs \in Seq(DOMAIN e.windows)
    <2> HIDE DEF S
    <2>1. hs \in Seq(S)
          BY DEF S
    <2> QED BY <1>3, <2>1, SubsetSeq
  <1>6. WindowInv(e, extra, surface) /\ extra \subseteq ToSet(hs)
        BY <1>1
  <1> HIDE DEF S, extra
  <1> QED BY <1>1, <1>4, <1>5, <1>6, DestroyWindowsKeeps

LEMMA SplitWindowStep ==
  ASSUME StateInv, SplitWindow
  PROVE  StateInv'
  <1>1. /\ Fine(Ready, {}) /\ FilesInv /\ OpensInv /\ minibuffer' = Closed
        /\ Context \in DOMAIN Ready.windows
        BY CommandRuns DEF SplitWindow
  <1>2. PICK e, w : /\ e = Ready /\ w = Context
           /\ \E b \in {e.windows[w]}, new \in {CreatedWindow(e)} :
              /\ w \in ToSet(ActiveLayout(e))
              /\ Becomes(StartWalk(SplitLayout(CreateWindow(e, b, e.carets[<<w, b>>]), e.active, w, new),
                                   e.active, new))
        BY DEF SplitWindow
  <1> DEFINE b == e.windows[w]
             k == e.active
             new == CreatedWindow(e)
             line == e.carets[<<w, b>>]
             s == SplitLayout(CreateWindow(e, b, line), k, w, new)
             f == StartWalk(s, k, new)
  <1>3. w \in ToSet(e.workbenches[k].layout) /\ Becomes(f)
        BY <1>2 DEF ActiveLayout
  <1>4. Fine(e, {}) /\ EditorInv(e, {}) /\ w \in DOMAIN e.windows
        BY <1>1, <1>2 DEF Fine
  <1>5. b \in DOMAIN e.buffers /\ line \in 0..(e.buffers[b].lines - 1) /\ k \in DOMAIN e.workbenches
        BY <1>4, WindowShows
  <1> HIDE DEF b, k, line
  <1>6. EditorInv(s, {}) /\ Keeps(e, s) /\ new \in DOMAIN s.windows
        BY <1>3, <1>4, <1>5, SplitKeeps
  <1>7. k \in DOMAIN s.workbenches
        BY <1>5, <1>6 DEF Keeps
  <1> HIDE DEF s, new
  <1>8. EditorInv(f, {}) /\ Keeps(s, f)
        BY <1>6, <1>7, StartWalkKeeps
  <1> HIDE DEF f
  <1>9. Keeps(e, f)
        BY <1>6, <1>8, KeepsTwice
  <1> QED BY <1>1, <1>3, <1>4, <1>8, <1>9, CommandBecomes

LEMMA DeleteWindowStep ==
  ASSUME StateInv, DeleteWindow
  PROVE  StateInv'
  <1>1. /\ Fine(Ready, {}) /\ FilesInv /\ OpensInv /\ minibuffer' = Closed
        BY CommandRuns DEF DeleteWindow
  <1>2. PICK e, w, layout : /\ e = Ready /\ layout = ActiveLayout(e)
           /\ LET next == layout[(IndexIn(layout, w) % Len(layout)) + 1]
              IN /\ w \in ToSet(layout) /\ Len(layout) > 1
                 /\ Becomes(DestroyWindows(IF ActiveWindow(e) = w THEN FocusWindow(e, e.active, next)
                                           ELSE e, <<w>>))
        BY DEF DeleteWindow
  <1> DEFINE k == e.active
             i == IndexIn(layout, w)
             next == layout[(i % Len(layout)) + 1]
             c == FocusWindow(e, k, next)
             d == IF ActiveWindow(e) = w THEN c ELSE e
             hs == <<w>>
             f == DestroyWindows(d, hs)
  <1>3. w \in ToSet(layout) /\ Len(layout) > 1 /\ Becomes(f) /\ layout = e.workbenches[k].layout
        BY <1>2 DEF ActiveLayout
  <1>4. Fine(e, {}) /\ EditorInv(e, {}) /\ LayoutInv(e, {}) /\ k \in DOMAIN e.workbenches
        BY <1>1, <1>2 DEF Fine, EditorInv, WindowInv, LayoutInv
  <1>5. layout \in Seq(DOMAIN e.windows) /\ IsInjective(layout) /\ Len(layout) \in Nat
    <2>1. \A j \in DOMAIN e.workbenches : /\ e.workbenches[j].layout \in Seq(DOMAIN e.windows)
                                          /\ IsInjective(e.workbenches[j].layout)
          BY <1>4 DEF LayoutInv
    <2>2. layout \in Seq(DOMAIN e.windows) /\ IsInjective(layout)
          BY <1>3, <1>4, <2>1
    <2> QED BY <2>2
  <1>6. i \in 1..Len(layout) /\ layout[i] = w
    <2>1. \E j \in DOMAIN layout : layout[j] = w
          BY <1>3, <1>5 DEF ToSet
    <2> QED BY <1>5, <2>1 DEF IndexIn
  <1> HIDE DEF i, k
  <1>7. (i % Len(layout)) + 1 \in 1..Len(layout) /\ (i % Len(layout)) + 1 # i
    <2> DEFINE n == Len(layout)
    <2>1. n \in Nat /\ n > 1 /\ i \in 1..n
          BY <1>3, <1>5, <1>6
    <2> HIDE DEF n
    <2>2. CASE i = n
      <3>1. n % n = 0
            BY <2>1
      <3> QED BY <2>1, <2>2, <3>1 DEF n
    <2>3. CASE i < n
      <3>1. i % n = i
            BY <2>1, <2>3
      <3> QED BY <2>1, <2>3, <3>1 DEF n
    <2> QED BY <2>1, <2>2, <2>3
  <1>8. next \in ToSet(layout) /\ next # w
    <2> DEFINE j == (i % Len(layout)) + 1
    <2>1. j \in DOMAIN layout /\ i \in DOMAIN layout /\ j # i
          BY <1>5, <1>6, <1>7
    <2> HIDE DEF j
    <2>2. layout[j] \in ToSet(layout) /\ layout[j] # layout[i]
          BY <1>5, <2>1 DEF ToSet, IsInjective
    <2> QED BY <1>6, <2>2 DEF j
  <1> HIDE DEF next
  <1>9. /\ EditorInv(d, {}) /\ Keeps(e, d) /\ k \in DOMAIN d.workbenches
        /\ d.workbenches[k].layout = layout /\ d.workbenches[k].active # w
    <2>1. next \in ToSet(e.workbenches[k].layout)
          BY <1>3, <1>8
    <2>2. /\ EditorInv(c, {}) /\ Keeps(e, c) /\ c.workbenches[k].active = next
          /\ c.workbenches[k].layout = e.workbenches[k].layout
          BY <1>4, <2>1, FocusWindowKeeps
    <2> HIDE DEF c
    <2>3. k \in DOMAIN c.workbenches
          BY <1>4, <2>2 DEF Keeps
    <2>4. ActiveWindow(e) = e.workbenches[k].active
          BY DEF ActiveWindow, k
    <2> QED BY <1>3, <1>4, <1>8, <2>2, <2>3, <2>4, KeepsItself
  <1> HIDE DEF d
  <1>10. hs \in Seq(ToSet(d.workbenches[k].layout)) /\ IsInjective(hs) /\ ToSet(hs) = {w}
    <2>1. \A S : w \in S => <<w>> \in Seq(S)
          OBVIOUS
    <2> QED BY <1>3, <1>9, <2>1 DEF ToSet, IsInjective
  <1> HIDE DEF hs
  <1>11. EditorInv(f, {}) /\ SameSaves(d, f)
    <2>1. d.workbenches[k].active \notin ToSet(hs)
          BY <1>9, <1>10
    <2> QED BY <1>9, <1>10, <2>1, LayoutWindowsGo
  <1> HIDE DEF f
  <1>12. SameSaves(e, f)
        BY <1>9, <1>11 DEF SameSaves, Keeps
  <1> QED BY <1>1, <1>3, <1>4, <1>11, <1>12, CommandBecomes

LEMMA DeleteOtherWindowsStep ==
  ASSUME StateInv, DeleteOtherWindows
  PROVE  StateInv'
  <1>1. /\ Fine(Ready, {}) /\ FilesInv /\ OpensInv /\ minibuffer' = Closed
        BY CommandRuns DEF DeleteOtherWindows
  <1>2. PICK e, w, others : /\ e = Ready /\ others = Without(ActiveLayout(e), {w})
           /\ w \in ToSet(ActiveLayout(e))
           /\ Becomes(DestroyWindows(FocusWindow(e, e.active, w), others))
        BY DEF DeleteOtherWindows
  <1> DEFINE k == e.active
             layout == e.workbenches[k].layout
             S == ToSet(layout)
             d == FocusWindow(e, k, w)
             f == DestroyWindows(d, others)
  <1>3. w \in S /\ Becomes(f) /\ others = Without(layout, {w})
        BY <1>2 DEF ActiveLayout
  <1>4. Fine(e, {}) /\ EditorInv(e, {}) /\ LayoutInv(e, {}) /\ k \in DOMAIN e.workbenches
        BY <1>1, <1>2 DEF Fine, EditorInv, WindowInv, LayoutInv
  <1>5. layout \in Seq(S) /\ IsInjective(layout)
    <2>1. layout \in Seq(DOMAIN e.windows) /\ IsInjective(layout)
          BY <1>4 DEF LayoutInv
    <2> HIDE DEF layout
    <2> QED BY <2>1 DEF ToSet
  <1> HIDE DEF S, layout, k
  <1>6. others \in Seq(S) /\ IsInjective(others) /\ w \notin ToSet(others)
    <2> DEFINE gone == {w}
    <2>1. others = Without(layout, gone) /\ w \in gone
          BY <1>3
    <2> HIDE DEF gone
    <2>2. /\ Without(layout, gone) \in Seq(S \ gone)
          /\ ToSet(Without(layout, gone)) = ToSet(layout) \ gone
          /\ IsInjective(Without(layout, gone))
          BY <1>5, WithoutErases
    <2>3. S \ gone \subseteq S
          OBVIOUS
    <2> QED BY <2>1, <2>2, <2>3, SubsetSeq
  <1>7. /\ EditorInv(d, {}) /\ Keeps(e, d) /\ d.workbenches[k].active = w
        /\ d.workbenches[k].layout = layout
        BY <1>3, <1>4, FocusWindowKeeps DEF layout, S
  <1> HIDE DEF d
  <1>8. k \in DOMAIN d.workbenches
        BY <1>4, <1>7 DEF Keeps
  <1>9. EditorInv(f, {}) /\ SameSaves(d, f)
    <2>1. d.workbenches[k].active \notin ToSet(others) /\ others \in Seq(ToSet(d.workbenches[k].layout))
          BY <1>6, <1>7 DEF S
    <2> QED BY <1>6, <1>7, <1>8, <2>1, LayoutWindowsGo
  <1> HIDE DEF f
  <1>10. SameSaves(e, f)
        BY <1>7, <1>9 DEF SameSaves, Keeps
  <1> QED BY <1>1, <1>3, <1>4, <1>9, <1>10, CommandBecomes DEF d

\* The pointer focuses a window whether an interaction is open or not.
LEMMA SelectWindowStep ==
  ASSUME StateInv, SelectWindow
  PROVE  StateInv'
  <1>1. PICK w \in ToSet(ActiveLayout(editor)) : Becomes(FocusWindow(editor, editor.active, w))
        BY DEF SelectWindow
  <1> DEFINE surface == Surface
             k == editor.active
             f == FocusWindow(editor, k, w)
  <1>2. Fine(editor, surface) /\ EditorInv(editor, surface) /\ k \in DOMAIN editor.workbenches
        BY DEF StateInv, Fine, EditorInv, WindowInv, LayoutInv
  <1>3. w \in ToSet(editor.workbenches[k].layout)
        BY DEF ActiveLayout
  <1> HIDE DEF surface, k
  <1>4. EditorInv(f, surface) /\ Keeps(editor, f)
        BY <1>2, <1>3, FocusWindowKeeps
  <1>5. editor' = f /\ UNCHANGED disk /\ UNCHANGED prompt /\ OpensInv' /\ FilesInv
        BY <1>1 DEF Becomes, SelectWindow, StateInv, OpensInv, k
  <1> HIDE DEF f
  <1>6. Fine(f, surface)
        BY <1>2, <1>4, KeptSaves DEF Fine
  <1> QED BY <1>5, <1>6, AnswerEnds DEF surface

\* commands on workbenches,
LEMMA CreateWorkbenchStep ==
  ASSUME StateInv, CreateWorkbench
  PROVE  StateInv'
  <1>1. /\ Fine(Ready, {}) /\ FilesInv /\ OpensInv /\ minibuffer' = Closed
        BY CommandRuns DEF CreateWorkbench
  <1>2. PICK e, from : /\ e = Ready /\ from = ActiveWindow(e)
           /\ \E b \in {e.windows[from]} :
              Becomes(Activate(AddWorkbench(CreateWindow(e, b, e.carets[<<from, b>>]), CreatedWindow(e), b),
                               NextHandle(e.workbenchSlots)))
        BY DEF CreateWorkbench
  <1> DEFINE b == e.windows[from]
             line == e.carets[<<from, b>>]
             f == Activate(AddWorkbench(CreateWindow(e, b, line), CreatedWindow(e), b),
                           NextHandle(e.workbenchSlots))
  <1>3. Becomes(f)
        BY <1>2
  <1>4. Fine(e, {}) /\ EditorInv(e, {}) /\ from \in DOMAIN e.windows
    <2>1. EditorInv(e, {}) /\ e.active \in DOMAIN e.workbenches
          BY <1>1, <1>2 DEF Fine, EditorInv, WindowInv, LayoutInv
    <2> QED BY <1>1, <1>2, <2>1, LayoutsAreOpen DEF ActiveWindow
  <1>5. b \in DOMAIN e.buffers /\ line \in 0..(e.buffers[b].lines - 1)
        BY <1>4, WindowShows
  <1> HIDE DEF b, line
  <1>6. EditorInv(f, {}) /\ SameSaves(e, f)
        BY <1>4, <1>5, CreateWorkbenchKeeps
  <1> HIDE DEF f
  <1> QED BY <1>1, <1>3, <1>4, <1>6, CommandBecomes

LEMMA SwitchWorkbenchStep ==
  ASSUME StateInv, SwitchWorkbench
  PROVE  StateInv'
  <1>1. /\ Fine(Ready, {}) /\ FilesInv /\ OpensInv /\ minibuffer' = Closed
        BY CommandRuns DEF SwitchWorkbench
  <1>2. PICK e : e = Ready /\ \E k \in DOMAIN e.workbenches \ {e.active} : Becomes(Activate(e, k))
        BY DEF SwitchWorkbench
  <1>3. PICK k \in DOMAIN e.workbenches : Becomes(Activate(e, k))
        BY <1>2
  <1> DEFINE f == Activate(e, k)
  <1>4. EditorInv(f, {}) /\ SameSaves(e, f)
        BY <1>1, <1>2, ActivateKeeps DEF Fine
  <1>5. Becomes(f) /\ Fine(e, {})
        BY <1>1, <1>2, <1>3
  <1> HIDE DEF f
  <1> QED BY <1>1, <1>4, <1>5, CommandBecomes

LEMMA CloseWorkbenchStep ==
  ASSUME StateInv, CloseWorkbench
  PROVE  StateInv'
  <1>1. /\ Fine(Ready, {}) /\ FilesInv /\ OpensInv /\ minibuffer' = Closed
        BY CommandRuns DEF CloseWorkbench
  <1>2. PICK e, closing : /\ e = Ready /\ closing = e.workbenches[e.active]
           /\ \E next \in DOMAIN e.workbenches \ {e.active} :
              LET released == DropAnchors(DropAnchors(e, closing.graph.nodes), closing.locations)
              IN Becomes(Activate(DestroyWindows(EraseWorkbench(released, e.active, next),
                                                 closing.layout), next))
        BY DEF CloseWorkbench
  <1>3. PICK next \in DOMAIN e.workbenches \ {e.active} :
              LET released == DropAnchors(DropAnchors(e, closing.graph.nodes), closing.locations)
              IN Becomes(Activate(DestroyWindows(EraseWorkbench(released, e.active, next),
                                                 closing.layout), next))
        BY <1>2
  <1> DEFINE released == DropAnchors(DropAnchors(e, e.workbenches[e.active].graph.nodes),
                                     e.workbenches[e.active].locations)
             f == Activate(DestroyWindows(EraseWorkbench(released, e.active, next),
                                          e.workbenches[e.active].layout), next)
  <1>4. Fine(e, {}) /\ EditorInv(e, {})
        BY <1>1, <1>2 DEF Fine
  <1>5. Becomes(f)
        BY <1>2, <1>3
  <1>6. EditorInv(f, {}) /\ SameSaves(e, f)
        BY <1>4, CloseWorkbenchKeeps
  <1> HIDE DEF f
  <1> QED BY <1>1, <1>4, <1>5, <1>6, CommandBecomes

-----------------------------------------------------------------------------
(* Texts, saves and jumps.                                                 *)

\* editing and moving,
LEMMA EditStep ==
  ASSUME StateInv, Edit
  PROVE  StateInv'
  <1>1. /\ Fine(Ready, {}) /\ FilesInv /\ OpensInv /\ minibuffer' = Closed
        /\ Context \in DOMAIN Ready.windows
        BY CommandRuns DEF Edit
  <1>2. PICK e : e = Ready /\ \E b \in {e.windows[Context]} : Becomes(InsertLine(e, b))
        BY DEF Edit
  <1>3. PICK b : b = e.windows[Context] /\ Becomes(InsertLine(e, b))
        BY <1>2
  <1> DEFINE f == InsertLine(e, b)
  <1>4. Fine(e, {}) /\ EditorInv(e, {}) /\ b \in DOMAIN e.buffers
        BY <1>1, <1>2, <1>3, WindowShows DEF Fine
  <1>5. EditorInv(f, {}) /\ SameSaves(e, f) /\ Becomes(f)
        BY <1>3, <1>4, EditKeeps
  <1> HIDE DEF f
  <1> QED BY <1>1, <1>4, <1>5, CommandBecomes

LEMMA GoToLineStep ==
  ASSUME StateInv, GoToLine
  PROVE  StateInv'
  <1>1. /\ Fine(Ready, {}) /\ FilesInv /\ OpensInv /\ minibuffer' = Closed
        /\ Context \in DOMAIN Ready.windows
        BY CommandRuns DEF GoToLine
  <1>2. PICK e : e = Ready /\ \E b \in {e.windows[Context]} :
           \E line \in 0..(e.buffers[b].lines - 1) \ {e.carets[<<Context, b>>]} :
              Becomes(MoveCaret(e, Context, line))
        BY DEF GoToLine
  <1>3. PICK line \in 0..(e.buffers[e.windows[Context]].lines - 1) : Becomes(MoveCaret(e, Context, line))
        BY <1>2
  <1> DEFINE f == MoveCaret(e, Context, line)
  <1>4. Fine(e, {}) /\ EditorInv(e, {}) /\ Context \in DOMAIN e.windows /\ line \in Nat
        BY <1>1, <1>2, <1>3 DEF Fine
  <1>5. EditorInv(f, {}) /\ Keeps(e, f) /\ Becomes(f)
        BY <1>3, <1>4, MoveCaretKeeps
  <1> HIDE DEF f
  <1> QED BY <1>1, <1>4, <1>5, CommandBecomes

\* A save that begins.
LEMMA SaveBegins ==
  ASSUME NEW e, Fine(e, {}), NEW b \in DOMAIN e.buffers, e.buffers[b].resource \in Resources,
         BeginSave(e, b), FilesInv, OpensInv, minibuffer' = Closed
  PROVE  StateInv'
  <1>1. EditorInv(editor', {}) /\ SaveInv(editor)' /\ UNCHANGED <<opens, files>>
        BY BeginSaveIsFine
  <1>2. FilesInv' /\ OpensInv' /\ Surface' = {}
        BY <1>1 DEF FilesInv, OpensInv, Surface
  <1> QED BY <1>1, <1>2 DEF StateInv

\* saves and what comes of them,
LEMMA SaveStep ==
  ASSUME StateInv, Save
  PROVE  StateInv'
  <1>1. /\ Fine(Ready, {}) /\ FilesInv /\ OpensInv /\ minibuffer' = Closed
        /\ Context \in DOMAIN Ready.windows
        BY CommandRuns DEF Save
  <1>2. PICK e : e = Ready /\ \E b \in {e.windows[Context]} :
           e.buffers[b].resource # NoResource /\ BeginSave(e, b)
        BY DEF Save
  <1>3. PICK b : b = e.windows[Context] /\ e.buffers[b].resource # NoResource /\ BeginSave(e, b)
        BY <1>2
  <1>4. Fine(e, {}) /\ b \in DOMAIN e.buffers /\ e.buffers[b].resource \in Resources
        BY <1>1, <1>2, <1>3, WindowShows DEF Fine
  <1> QED BY <1>1, <1>3, <1>4, SaveBegins

LEMMA SaveAsStep ==
  ASSUME StateInv, SaveAs
  PROVE  StateInv'
  <1>1. /\ Fine(Ready, {}) /\ FilesInv /\ OpensInv /\ minibuffer' = Closed
        /\ Context \in DOMAIN Ready.windows
        BY CommandRuns DEF SaveAs
  <1>2. PICK e \in {Ready}, r \in Resources : \E b \in {e.windows[Context]} :
           \E visiting \in {[e EXCEPT !.buffers[b].resource = r]} :
              IF b \in DOMAIN e.saving THEN Becomes(visiting) ELSE BeginSave(visiting, b)
        BY DEF SaveAs
  <1>3. PICK b : b = e.windows[Context] /\
           \E visiting \in {[e EXCEPT !.buffers[b].resource = r]} :
              IF b \in DOMAIN e.saving THEN Becomes(visiting) ELSE BeginSave(visiting, b)
        BY <1>2
  <1> DEFINE f == [e EXCEPT !.buffers[b].resource = r]
  <1>4. Fine(e, {}) /\ EditorInv(e, {}) /\ b \in DOMAIN e.buffers
        BY <1>1, <1>2, <1>3, WindowShows DEF Fine
  <1>5. EditorInv(f, {}) /\ SameSaves(e, f) /\ f.buffers[b].resource = r
        BY <1>4, VisitingKeeps
  <1>6. Becomes(f) \/ BeginSave(f, b)
        BY <1>3
  <1> HIDE DEF f
  <1>7. CASE Becomes(f)
        BY <1>1, <1>4, <1>5, <1>7, CommandBecomes
  <1>8. CASE BeginSave(f, b)
    <2>1. Fine(f, {}) /\ b \in DOMAIN f.buffers /\ f.buffers[b].resource \in Resources
          BY <1>4, <1>5, SavesStay DEF Fine, SameSaves
    <2> QED BY <1>1, <1>8, <2>1, SaveBegins
  <1> QED BY <1>6, <1>7, <1>8

LEMMA WriteFileStep ==
  ASSUME StateInv, WriteFile
  PROVE  StateInv'
  <1>1. editor' = editor /\ opens' = opens /\ UNCHANGED prompt
        BY DEF WriteFile
  <1>2. FilesInv' /\ SaveInv(editor)'
        BY WriteFileIsFine DEF StateInv
  <1>3. Surface' = Surface
        BY <1>1 DEF Surface, prompt
  <1> QED BY <1>1, <1>2, <1>3 DEF StateInv, OpensInv

LEMMA FinishSaveStep ==
  ASSUME StateInv, FinishSave
  PROVE  StateInv'
  <1> DEFINE e == editor
             surface == Surface
  <1>1. Fine(e, surface) /\ FilesInv
        BY DEF StateInv, Fine
  <1>2. Surface' = surface
        BY DEF FinishSave, Surface, prompt
  <1>3. EditorInv(editor', surface) /\ SaveInv(editor)' /\ UNCHANGED <<opens, files>>
    <2> e = editor
        OBVIOUS
    <2> HIDE DEF e, surface
    <2> QED BY <1>1, FinishSaveIsFine
  <1>4. FilesInv' /\ OpensInv'
        BY <1>3 DEF StateInv, FilesInv, OpensInv
  <1> QED BY <1>2, <1>3, <1>4 DEF StateInv

\* jumps,
LEMMA LinkJumpStep ==
  ASSUME StateInv, LinkJump
  PROVE  StateInv'
  <1>1. /\ Fine(Ready, {}) /\ FilesInv /\ OpensInv /\ minibuffer' = Closed
        /\ Context \in DOMAIN Ready.windows
        BY CommandRuns DEF LinkJump
  <1>2. PICK e, w : e = Ready /\ w = Context /\ \E k \in {Owner(e, w)} :
           \E n \in {Captured(e, k, w)} : Becomes(LinkMarks(StartWalk(e, k, w), k, w, n))
        BY DEF LinkJump
  <1>3. PICK k, n : k = Owner(e, w) /\ Becomes(LinkMarks(StartWalk(e, k, w), k, w, n))
        BY <1>2
  <1> DEFINE s == StartWalk(e, k, w)
             f == LinkMarks(s, k, w, n)
  <1>4. Fine(e, {}) /\ EditorInv(e, {}) /\ w \in DOMAIN e.windows
        BY <1>1, <1>2 DEF Fine
  <1>5. k \in DOMAIN e.workbenches
        BY <1>3, <1>4, OwnerOwns
  <1>6. EditorInv(s, {}) /\ Keeps(e, s)
        BY <1>4, <1>5, StartWalkKeeps
  <1>7. Becomes(f)
        BY <1>3
  <1> HIDE DEF s
  <1>8. k \in DOMAIN s.workbenches /\ Fine(s, {})
        BY <1>4, <1>5, <1>6, KeptSaves DEF Keeps, Fine
  <1>9. EditorInv(f, {}) /\ Keeps(s, f)
        BY <1>6, <1>8, LinkMarksKeeps
  <1> HIDE DEF f
  <1> QED BY <1>1, <1>7, <1>8, <1>9, CommandBecomes

\* A place that is restored, whatever the walk did before.
LEMMA RestoreEnds ==
  ASSUME NEW e, Fine(e, {}), FilesInv, OpensInv, minibuffer' = Closed, NEW k \in DOMAIN e.workbenches,
         NEW w \in ToSet(e.workbenches[k].layout), NEW n, NEW visit, RestoreJump(e, k, w, n, visit)
  PROVE  StateInv'
  <1> DEFINE f == editor'
  <1>1. EditorInv(e, {})
        BY DEF Fine
  <1>2. EditorInv(f, {}) /\ Keeps(e, f) /\ OpensInv' /\ UNCHANGED disk
        BY <1>1, RestoreJumpKeeps
  <1>3. editor' = f
        OBVIOUS
  <1> HIDE DEF f
  <1>4. Fine(f, {})
        BY <1>2, KeptSaves DEF Fine
  <1> QED BY <1>2, <1>3, <1>4, CommandEnds

LEMMA NavigateJumpStep ==
  ASSUME StateInv, NavigateJump
  PROVE  StateInv'
  <1>1. /\ Fine(Ready, {}) /\ FilesInv /\ OpensInv /\ minibuffer' = Closed
        /\ Context \in DOMAIN Ready.windows
        BY CommandRuns DEF NavigateJump
  <1>2. PICK e \in {Ready}, w \in {Context}, delta \in {-1, 1} : \E k \in {Owner(e, w)} :
           /\ CanMove(Walk(e, w), delta)
           /\ RestoreJump(MoveCursor(e, k, w, delta), k, w,
                          Walk(e, w).entries[Walk(e, w).cursor + delta], FALSE)
        BY DEF NavigateJump
  <1>3. PICK k : k = Owner(e, w) /\
           /\ CanMove(Walk(e, w), delta)
           /\ RestoreJump(MoveCursor(e, k, w, delta), k, w,
                          Walk(e, w).entries[Walk(e, w).cursor + delta], FALSE)
        BY <1>2
  <1> DEFINE walk == e.workbenches[k].walks[w]
             f == MoveCursor(e, k, w, delta)
             n == walk.entries[walk.cursor + delta]
  <1>4. Fine(e, {}) /\ EditorInv(e, {}) /\ w \in DOMAIN e.windows
        BY <1>1, <1>2 DEF Fine
  <1>5. k \in DOMAIN e.workbenches /\ w \in ToSet(e.workbenches[k].layout)
        BY <1>3, <1>4, OwnerOwns
  <1>6. w \in DOMAIN e.workbenches[k].walks /\ IsWalk(walk, DOMAIN e.workbenches[k].graph.nodes)
        BY <1>4, <1>5 DEF EditorInv, WindowInv, LayoutInv, JumpInv
  <1>7. CanMove(walk, delta) /\ RestoreJump(f, k, w, n, FALSE)
        BY <1>3 DEF Walk
  <1>8. EditorInv(f, {}) /\ Keeps(e, f) /\ SameWindows(e, f)
        /\ f.workbenches[k].graph = e.workbenches[k].graph
        BY <1>4, <1>5, <1>6, <1>7, CursorMovesKeeps
  <1> HIDE DEF f, n, walk
  <1>9. Fine(f, {}) /\ k \in DOMAIN f.workbenches /\ w \in ToSet(f.workbenches[k].layout)
        BY <1>4, <1>5, <1>8, KeptSaves DEF Fine, SameWindows
  <1> QED BY <1>1, <1>7, <1>9, RestoreEnds

LEMMA VisitJumpStep ==
  ASSUME StateInv, VisitJump
  PROVE  StateInv'
  <1>1. /\ Fine(Ready, {}) /\ FilesInv /\ OpensInv /\ minibuffer' = Closed
        /\ Context \in DOMAIN Ready.windows
        BY CommandRuns DEF VisitJump
  <1>2. PICK e, w : e = Ready /\ w = Context /\ \E k \in {Owner(e, w)} :
           \E edge \in Graph(e, w).edges : RestoreJump(e, k, w, edge.to, TRUE)
        BY DEF VisitJump
  <1>3. PICK k : k = Owner(e, w) /\ \E edge \in Graph(e, w).edges : RestoreJump(e, k, w, edge.to, TRUE)
        BY <1>2
  <1>4. PICK edge \in e.workbenches[k].graph.edges : RestoreJump(e, k, w, edge.to, TRUE)
        BY <1>3 DEF Graph
  <1>5. Fine(e, {}) /\ EditorInv(e, {}) /\ w \in DOMAIN e.windows
        BY <1>1, <1>2 DEF Fine
  <1>6. k \in DOMAIN e.workbenches /\ w \in ToSet(e.workbenches[k].layout)
        BY <1>3, <1>5, OwnerOwns
  <1> QED BY <1>1, <1>4, <1>5, <1>6, RestoreEnds

-----------------------------------------------------------------------------
(* What the interaction does to the editor.                                *)

\* While an interaction is refreshed it stays on its window and buffer.
LEMMA RefreshKeepsSurface ==
  ASSUME NEW m, IsInteraction(m), NEW askable, Refresh(m, askable)
  PROVE  minibuffer' # Closed /\ minibuffer'.buffer = m.buffer /\ minibuffer'.window = m.window
  <1>1. PICK g : LET fresh == [m EXCEPT !.generation = g, !.loading = FALSE, !.error = FALSE, !.pending = 0] IN
           \/ minibuffer' = Published(fresh, NoCandidates)
           \/ minibuffer' = Published(fresh, m.input)
           \/ minibuffer' = [fresh EXCEPT !.loading = TRUE, !.pending = g]
           \/ minibuffer' = [fresh EXCEPT !.error = TRUE]
        BY DEF Refresh
  <1> DEFINE fresh == [m EXCEPT !.generation = g, !.loading = FALSE, !.error = FALSE, !.pending = 0]
  <1>2. IsInteraction(fresh) /\ fresh.buffer = m.buffer /\ fresh.window = m.window
        BY DEF IsInteraction, Fields
  <1>3. \/ minibuffer' = Published(fresh, NoCandidates)
        \/ minibuffer' = Published(fresh, m.input)
        \/ minibuffer' = [fresh EXCEPT !.loading = TRUE, !.pending = g]
        \/ minibuffer' = [fresh EXCEPT !.error = TRUE]
        BY <1>1
  <1> HIDE DEF fresh
  <1>4. IsInteraction(minibuffer') /\ minibuffer'.buffer = m.buffer /\ minibuffer'.window = m.window
        BY <1>2, <1>3 DEF IsInteraction, Fields, Published
  <1> QED BY <1>4, InteractionIsOpen

\* An interaction moves on, on the surface it has.
LEMMA PromptMoves ==
  ASSUME StateInv, UNCHANGED <<editor, opens, files, writes>>,
         minibuffer = Closed => minibuffer' = Closed,
         minibuffer # Closed => /\ minibuffer' # Closed
                                /\ minibuffer'.buffer = minibuffer.buffer
                                /\ minibuffer'.window = minibuffer.window
  PROVE  StateInv'
  <1>1. Surface' = Surface
        BY DEF Surface
  <1>2. SaveInv(editor)' /\ FilesInv' /\ OpensInv'
        BY DEF StateInv, SaveInv, WriteInv, OwnWrite, FilesInv, OpensInv
  <1> QED BY <1>1, <1>2 DEF StateInv

\* An interaction that starts has a window and a buffer of its own.
LEMMA StartSurface ==
  ASSUME IInv, StateInv, NEW kind, NEW custom, Start(kind, custom)
  PROVE  StateInv'
  <1>1. PICK e : e = Ready /\ editor' = WithSurface(e) /\
           Refresh(Opened(kind, custom,
                          IF minibuffer = Closed
                          THEN <<ActiveWindow(editor), editor.windows[ActiveWindow(editor)]>>
                          ELSE minibuffer.origin,
                          [buffer |-> NextHandle(e.bufferSlots), window |-> NextHandle(e.windowSlots)]),
                   OriginIsDisplayed)
        BY DEF Start
  <1> DEFINE origin == IF minibuffer = Closed
                       THEN <<ActiveWindow(editor), editor.windows[ActiveWindow(editor)]>>
                       ELSE minibuffer.origin
             s == SurfaceOf(e)
             surface == {s}
             m == Opened(kind, custom, origin, s)
             f == WithSurface(e)
  <1>2. Refresh(m, OriginIsDisplayed)
        BY <1>1 DEF SurfaceOf
  <1>3. origin # <<>>
    <2>1. \A a, b : <<a, b>> # <<>>
          OBVIOUS
    <2>2. minibuffer # Closed => minibuffer.origin # <<>>
          BY DEF IInv, PendingInv, IsInteraction
    <2> QED BY <2>1, <2>2
  <1>4. IsInteraction(m) /\ m.buffer = s.buffer /\ m.window = s.window
    <2> HIDE DEF origin
    <2> QED BY <1>3 DEF IsInteraction, Opened, Fields
  <1> HIDE DEF m
  <1>5. minibuffer' # Closed /\ minibuffer'.buffer = s.buffer /\ minibuffer'.window = s.window
        BY <1>2, <1>4, RefreshKeepsSurface
  <1>6. Surface' = surface
        BY <1>5 DEF Surface, SurfaceOf
  <1>7. Fine(e, {}) /\ FilesInv /\ OpensInv' /\ UNCHANGED disk
        BY <1>1, ReadyIsFine DEF StateInv, OpensInv, Start
  <1>8. Fine(f, surface) /\ editor' = f
        BY <1>1, <1>7, WithSurfaceIsFine
  <1> HIDE DEF f, surface
  <1>9. SaveInv(editor)' /\ EditorInv(editor', surface)
        BY <1>7, <1>8, SavesCarryOver DEF Fine
  <1>10. FilesInv'
        BY <1>7 DEF FilesInv, disk
  <1> QED BY <1>6, <1>7, <1>9, <1>10 DEF StateInv

\* Keys of the minibuffer leave its surface and the editor alone.
LEMMA EditInputMoves ==
  ASSUME IInv, StateInv, EditInput
  PROVE  StateInv'
  <1>1. IsInteraction(minibuffer) /\ UNCHANGED <<editor, opens, files, writes>> /\ minibuffer # Closed
        BY DEF EditInput, IInv, PendingInv, disk
  <1>2. minibuffer' # Closed /\ minibuffer'.buffer = minibuffer.buffer /\ minibuffer'.window = minibuffer.window
    <2>1. ASSUME NEW text, TypeInto(minibuffer, text, OriginIsDisplayed)
          PROVE  minibuffer' # Closed /\ minibuffer'.buffer = minibuffer.buffer
                 /\ minibuffer'.window = minibuffer.window
      <3> DEFINE m == [minibuffer EXCEPT !.input = text, !.navigation = NotRecalled]
      <3>1. IsInteraction(m) /\ m.buffer = minibuffer.buffer /\ m.window = minibuffer.window
            BY <1>1 DEF IsInteraction, Fields
      <3>2. Refresh(m, OriginIsDisplayed)
            BY <2>1 DEF TypeInto
      <3> HIDE DEF m
      <3> QED BY <3>1, <3>2, RefreshKeepsSurface
    <2>2. CASE Refresh(minibuffer, OriginIsDisplayed)
          BY <1>1, <2>2, RefreshKeepsSurface
    <2>3. CASE MoveHistory(minibuffer)
      <3>1. PICK text, index, draft : minibuffer' = Recall(minibuffer, text, index, draft)
            BY <2>3 DEF MoveHistory, RecallOlder, RecallNewer
      <3>2. /\ IsInteraction(minibuffer') /\ minibuffer'.buffer = minibuffer.buffer
            /\ minibuffer'.window = minibuffer.window
            BY <1>1, <3>1 DEF Recall, IsInteraction, Fields
      <3> QED BY <3>2, InteractionIsOpen
    <2>4. CASE MoveCandidate(minibuffer)
      <3>1. PICK selection : minibuffer' = [minibuffer EXCEPT !.selection = selection]
            BY <2>4 DEF MoveCandidate
      <3>2. /\ IsInteraction(minibuffer') /\ minibuffer'.buffer = minibuffer.buffer
            /\ minibuffer'.window = minibuffer.window
            BY <1>1, <3>1 DEF IsInteraction, Fields
      <3> QED BY <3>2, InteractionIsOpen
    <2> QED BY <2>1, <2>2, <2>3, <2>4 DEF EditInput
  <1> QED BY <1>1, <1>2, PromptMoves

\* So does a submission that is refused.
LEMMA RefuseInputMoves ==
  ASSUME IInv, StateInv, RefuseInput
  PROVE  StateInv'
  <1>1. IsInteraction(minibuffer) /\ UNCHANGED <<editor, opens, files, writes>> /\ minibuffer # Closed
        /\ minibuffer' = [minibuffer EXCEPT !.error = TRUE]
        BY DEF RefuseInput, RefuseSubmission, IInv, PendingInv, disk
  <1>2. /\ IsInteraction(minibuffer') /\ minibuffer'.buffer = minibuffer.buffer
        /\ minibuffer'.window = minibuffer.window
        BY <1>1 DEF IsInteraction, Fields
  <1> QED BY <1>1, <1>2, InteractionIsOpen, PromptMoves

\* So do the callbacks of its provider.
LEMMA SettleLookupMoves ==
  ASSUME IInv, StateInv, SettleLookup
  PROVE  StateInv'
  <1>1. PICK l \in lookups :
           \/ Answer(l, IF minibuffer = Closed THEN Closed
                        ELSE [Published(Settled, l.input) EXCEPT !.error = FALSE])
           \/ Answer(l, IF minibuffer = Closed THEN Closed ELSE [Settled EXCEPT !.error = TRUE])
           \/ Answer(l, IF minibuffer = Closed THEN Closed ELSE Settled)
        BY DEF SettleLookup, Settle, CandidatesArrive, LookupFails, LookupCancelled
  <1>2. UNCHANGED <<editor, opens, files, writes>>
        BY DEF SettleLookup, disk
  <1>3. CASE ~IsForMinibuffer(l)
    <2>1. minibuffer' = minibuffer
          BY <1>1, <1>3 DEF Answer
    <2> QED BY <1>2, <2>1, PromptMoves
  <1>4. CASE IsForMinibuffer(l)
    <2>1. minibuffer # Closed /\ IsInteraction(minibuffer)
          BY <1>4 DEF IsForMinibuffer, IInv, PendingInv
    <2>2. /\ IsInteraction(Settled) /\ Settled.buffer = minibuffer.buffer
          /\ Settled.window = minibuffer.window
          BY <2>1 DEF Settled, IsInteraction, Fields
    <2>3. \/ minibuffer' = [Published(Settled, l.input) EXCEPT !.error = FALSE]
          \/ minibuffer' = [Settled EXCEPT !.error = TRUE]
          \/ minibuffer' = Settled
          BY <1>1, <1>4, <2>1 DEF Answer
    <2>4. /\ IsInteraction(minibuffer') /\ minibuffer'.buffer = minibuffer.buffer
          /\ minibuffer'.window = minibuffer.window
          BY <2>2, <2>3 DEF IsInteraction, Fields, Published
    <2> QED BY <1>2, <2>1, <2>4, InteractionIsOpen, PromptMoves
  <1> QED BY <1>3, <1>4

\* The surface of an interaction goes, and nothing else.
LEMMA SurfaceGoes ==
  ASSUME StateInv, editor' = Ready, minibuffer' = Closed, UNCHANGED <<opens, files, writes>>
  PROVE  StateInv'
  <1> DEFINE f == Ready
  <1>1. Fine(f, {}) /\ editor' = f /\ FilesInv
        BY ReadyIsFine DEF StateInv
  <1>2. OpensInv' /\ UNCHANGED disk
        BY DEF StateInv, OpensInv, disk
  <1> HIDE DEF f
  <1> QED BY <1>1, <1>2, CommandEnds

\* A search and an open that fails touch nothing but themselves.
LEMMA StartSearchStep ==
  ASSUME StateInv, StartSearch
  PROVE  StateInv'
  <1>1. minibuffer' = Closed
        BY CommandRuns DEF StartSearch
  <1>2. editor' = Ready /\ UNCHANGED <<opens, files, writes>>
        BY DEF StartSearch, disk
  <1> QED BY <1>1, <1>2, SurfaceGoes

\* and answers that fail.
LEMMA FailOpenStep ==
  ASSUME StateInv, FailOpen \/ FailSearch \/ UNCHANGED vars
  PROVE  StateInv'
  <1>1. /\ UNCHANGED <<editor, files, writes, minibuffer>> /\ opens' \subseteq opens
        BY DEF FailOpen, FailSearch, vars, disk, prompt
  <1>2. Surface' = Surface
        BY <1>1 DEF Surface
  <1>3. SaveInv(editor)' /\ FilesInv' /\ OpensInv'
        BY <1>1 DEF StateInv, SaveInv, WriteInv, OwnWrite, FilesInv, OpensInv
  <1> QED BY <1>1, <1>2, <1>3 DEF StateInv

-----------------------------------------------------------------------------
(* The beginning, and every step.                                          *)

\* The first handles.
LEMMA FirstSlots ==
  /\ IsSlots(Taken(NoSlots)) /\ Live(Taken(NoSlots), <<1, 1>>)
  /\ <<1, 1>> # NoHandle
  <1> DEFINE s == Taken(NoSlots)
  <1>1. s = [generations |-> <<1>>, free |-> <<>>]
        BY DEF Taken, NoSlots
  <1>2. DOMAIN s = {"generations", "free"} /\ s.generations = <<1>> /\ s.free = <<>>
        BY <1>1
  <1> HIDE DEF s
  <1>3. <<1>> \in Seq(Nat \ {0}) /\ DOMAIN <<1>> = {1} /\ <<1>>[1] = 1
        OBVIOUS
  <1>4. DOMAIN s.free = {} /\ s.free \in Seq(DOMAIN s.generations) /\ IsInjective(s.free)
        BY <1>2 DEF IsInjective
  <1>5. IsSlots(s)
        BY <1>2, <1>3, <1>4 DEF IsSlots
  <1>6. <<1, 1>> \in Handle /\ <<1, 1>>[1] = 1 /\ <<1, 1>>[2] = 1
        BY DEF Handle
  <1>7. Live(s, <<1, 1>>)
        BY <1>2, <1>3, <1>4, <1>6 DEF Live
  <1> QED BY <1>5, <1>7 DEF NoHandle, s

\* The editor starts with one window on one buffer in one workbench.
LEMMA InitState == Init => StateInv
  <1> SUFFICES ASSUME Init PROVE StateInv
      OBVIOUS
  <1> DEFINE h  == <<1, 1>>
             e  == editor
             wb == NewWorkbench(h, h)
             nb == NewBuffer(NoResource, 1)
             none == {}
  <1>1. /\ DOMAIN e = EditorFields
        /\ e.buffers = Put(<<>>, h, nb) /\ e.windows = Put(<<>>, h, h)
        /\ e.carets = Put(<<>>, <<h, h>>, 0) /\ e.workbenches = Put(<<>>, h, wb)
        /\ e.active = h /\ e.placeholder = h /\ e.saving = <<>>
        /\ e.bufferSlots = Taken(NoSlots) /\ e.windowSlots = Taken(NoSlots)
        /\ e.workbenchSlots = Taken(NoSlots)
        BY DEF Init, EditorFields, InitialBuffer, InitialWindow, InitialWorkbench
  <1>2. /\ DOMAIN wb = {"layout", "active", "recent", "walks", "graph", "locations"}
        /\ wb.layout = <<h>> /\ wb.active = h /\ wb.recent = {h} /\ wb.walks = Put(<<>>, h, NoWalk)
        /\ wb.graph = EmptyGraph /\ wb.locations = <<>>
        BY DEF NewWorkbench
  <1>3. /\ DOMAIN nb = {"resource", "lines", "saved", "anchors"} /\ nb.resource = NoResource
        /\ nb.lines = 1 /\ nb.saved = 1 /\ nb.anchors = <<>>
        BY DEF NewBuffer
  <1>4. h \notin none /\ IsSlots(Taken(NoSlots)) /\ Live(Taken(NoSlots), h) /\ h # NoHandle
        BY FirstSlots
  <1>5. minibuffer = Closed /\ writes = {}
        /\ files = [r \in Resources |-> {FileLines}]
        /\ \E r \in Resources :
             opens = {[resource |-> r, window |-> InitialWindow, tracked |-> TRUE, line |-> NoLine]}
        BY DEF Init, MinibufferInit
  <1>6. \A c : c = <<h, h>> => c[1] = h /\ c[2] = h /\ c = <<c[1], c[2]>>
        OBVIOUS
  <1> HIDE DEF h, e, wb, nb
  <1>7. /\ DOMAIN e.buffers = {h} /\ e.buffers[h] = nb
        /\ DOMAIN e.windows = {h} /\ e.windows[h] = h
        /\ DOMAIN e.carets = {<<h, h>>} /\ e.carets[<<h, h>>] = 0
        /\ DOMAIN e.workbenches = {h} /\ e.workbenches[h] = wb
        /\ DOMAIN wb.walks = {h} /\ wb.walks[h] = NoWalk
        BY <1>1, <1>2 DEF Put
  <1>8. IsState(e)
        BY <1>1, <1>2, <1>3, <1>7 DEF IsState, IsWorkbench, EmptyGraph
  <1>9. wb.layout \in Seq(DOMAIN e.windows) /\ IsInjective(wb.layout) /\ ToSet(wb.layout) = {h}
    <2>1. DOMAIN wb.layout = {1} /\ wb.layout[1] = h /\ wb.layout \in Seq({h})
          BY <1>2
    <2> QED BY <1>7, <2>1 DEF IsInjective, ToSet
  <1>10. LayoutInv(e, {})
    <2>1. e.active \in DOMAIN e.workbenches
          BY <1>1, <1>7
    <2>2. \A k \in DOMAIN e.workbenches :
            /\ e.workbenches[k].layout \in Seq(DOMAIN e.windows) /\ IsInjective(e.workbenches[k].layout)
            /\ DOMAIN e.workbenches[k].walks = ToSet(e.workbenches[k].layout)
            /\ e.workbenches[k].active \in ToSet(e.workbenches[k].layout)
            /\ e.workbenches[k].recent \subseteq DOMAIN e.buffers
          BY <1>2, <1>7, <1>9
    <2>3. \A k, l \in DOMAIN e.workbenches :
             k # l => ToSet(e.workbenches[k].layout) \cap ToSet(e.workbenches[l].layout) = {}
          BY <1>7
    <2>4. \A w \in DOMAIN e.windows : \E k \in DOMAIN e.workbenches : w \in ToSet(e.workbenches[k].layout)
          BY <1>7, <1>9
    <2> QED BY <2>1, <2>2, <2>3, <2>4 DEF LayoutInv
  <1>11. WindowInv(e, {}, none)
    <2>1. ShownInv(e)
          BY <1>1, <1>6, <1>7 DEF ShownInv
    <2>2. SlotInv(e, none)
          BY <1>1, <1>4, <1>7 DEF SlotInv
    <2> QED BY <1>10, <2>1, <2>2 DEF WindowInv
  <1>12. JumpInv(e)
    <2>1. GraphInv(EmptyGraph)
          BY DEF EmptyGraph, GraphInv, ToSet
    <2>2. IsWalk(NoWalk, DOMAIN EmptyGraph.nodes)
          BY NoWalkIsWalk
    <2> QED BY <1>2, <1>7, <2>1, <2>2 DEF JumpInv
  <1>13. DOMAIN EmptyGraph.nodes = {} /\ DOMAIN wb.locations = {} /\ DOMAIN nb.anchors = {}
         /\ wb.locations \in Seq(ToSet(wb.locations))
        BY <1>2, <1>3 DEF EmptyGraph
  <1>14. \A p : p \notin Places(e)
        BY <1>2, <1>7, <1>13, PlacesAre
  <1>15. AnchorInv(e)
    <2>1. PlaceInv(e) /\ OwnedInv(e)
          BY <1>7, <1>13, <1>14 DEF PlaceInv, OwnedInv
    <2>2. RangeInv(e)
      <3>1. IsFiniteSet(DOMAIN nb.anchors)
            BY <1>13, FS_EmptySet
      <3> QED BY <1>3, <1>4, <1>7, <1>13, <3>1 DEF RangeInv
    <2>3. ListInv(e)
      <3>1. IsFiniteSet(DOMAIN e.workbenches)
            BY <1>7, FS_Singleton
      <3> QED BY <1>7, <1>13, <3>1 DEF ListInv
    <2> QED BY <2>1, <2>2, <2>3 DEF AnchorInv
  <1>16. CaretInv(e)
        BY <1>3, <1>6, <1>7 DEF CaretInv
  <1>17. EditorInv(e, none)
        BY <1>8, <1>11, <1>12, <1>15, <1>16 DEF EditorInv
  <1>18. FilesInv
        BY <1>5, EditorAssumption DEF FilesInv
  <1>19. OpensInv
        BY <1>5 DEF OpensInv
  <1>20. SaveInv(e)
    <2>1. DOMAIN e.saving = {}
          BY <1>1
    <2> QED BY <1>3, <1>5, <1>7, <2>1 DEF SaveInv, OwnWrite
  <1>21. Surface = none
        BY <1>5 DEF Surface
  <1> QED BY <1>17, <1>18, <1>19, <1>20, <1>21 DEF StateInv, e

\* Each step keeps the invariant of the state.
LEMMA StateStep ==
  ASSUME IInv, StateInv, [Next]_vars
  PROVE  StateInv'
  <1>1. CASE Ask \/ Pick
        BY <1>1, StartSurface DEF Ask, Pick
  <1>2. CASE EditInput \/ RefuseInput \/ SettleLookup
        BY <1>2, EditInputMoves, RefuseInputMoves, SettleLookupMoves
  <1>3. CASE CancelInteraction
        BY <1>3, SurfaceGoes DEF CancelInteraction, Dismiss, disk
  <1>4. CASE SubmitToNowhere
        BY <1>4, SurfaceGoes DEF SubmitToNowhere, Submit, disk
  <1>5. CASE OpenFile \/ FinishOpen \/ FailOpen
        BY <1>5, OpenFileStep, FinishOpenStep, FailOpenStep
  <1>6. CASE StartSearch \/ FinishSearch \/ FailSearch
        BY <1>6, StartSearchStep, FinishSearchStep, FailOpenStep
  <1>7. CASE KillBuffer \/ SwitchBuffer \/ Edit \/ GoToLine
        BY <1>7, KillBufferStep, SwitchBufferStep, EditStep, GoToLineStep
  <1>8. CASE Save \/ SaveAs \/ WriteFile \/ FinishSave
        BY <1>8, SaveStep, SaveAsStep, WriteFileStep, FinishSaveStep
  <1>9. CASE SplitWindow \/ DeleteWindow \/ DeleteOtherWindows \/ SelectWindow
        BY <1>9, SplitWindowStep, DeleteWindowStep, DeleteOtherWindowsStep, SelectWindowStep
  <1>10. CASE CreateWorkbench \/ SwitchWorkbench \/ CloseWorkbench
        BY <1>10, CreateWorkbenchStep, SwitchWorkbenchStep, CloseWorkbenchStep
  <1>11. CASE LinkJump \/ NavigateJump \/ VisitJump
        BY <1>11, LinkJumpStep, NavigateJumpStep, VisitJumpStep
  <1>12. CASE UNCHANGED vars
        BY <1>12, FailOpenStep
  <1> QED BY <1>1, <1>2, <1>3, <1>4, <1>5, <1>6, <1>7, <1>8, <1>9, <1>10, <1>11, <1>12 DEF Next

-----------------------------------------------------------------------------
(* Theorems.                                                               *)

\* The inductive invariant: tasks of providers, the interaction that waits for one, and
\* what its candidates are for.
THEOREM PromptInvariant == Spec => []IInv
<1> QED BY InitInv, NextStep, PTL DEF Spec

\* Candidates are those of the input, whatever was typed, recalled, refreshed, submitted
\* or cancelled while providers were asked (editor/interaction.cpp, minibuffer.scm).
THEOREM CandidatesCurrent == Spec => []CandidatesAreCurrent
<1>1. ASSUME IInv
      PROVE  CandidatesAreCurrent
  <2>1. {l.generation : l \in {t \in lookups : ~t.cancelled}} =
            IF minibuffer # Closed /\ minibuffer.loading THEN {minibuffer.generation} ELSE {}
    BY <1>1 DEF IInv, PendingInv
  <2>2. minibuffer # Closed /\ minibuffer.kind = "picker" =>
            \/ minibuffer.loading \/ minibuffer.error \/ minibuffer.navigation # NotRecalled
            \/ minibuffer.candidates = minibuffer.input
    BY <1>1 DEF IInv, InputInv
  <2> QED BY <2>1, <2>2 DEF CandidatesAreCurrent
<1> QED BY <1>1, PromptInvariant, PTL

\* The inductive invariant of the rest: the windows, views and slots, the graphs and
\* walks, who holds which anchor, and the saves, with an interaction open or not.
THEOREM StateInvariant == Spec => []StateInv
<1> QED BY InitInv, NextStep, InitState, StateStep, PTL DEF Spec

\* No window is lost or in two layouts, the policy of Scheme knows the windows there
\* are, each shows a view of its own of an open buffer, and nothing remembers a closed
\* one, whatever was split, deleted, killed, closed or answered meanwhile
\* (editor_application.cpp, workbench.scm).
THEOREM WindowsAccounted == Spec => []WindowsAreAccounted
<1>1. ASSUME StateInv
      PROVE  WindowsAreAccounted
  <2>1. LayoutInv(editor, {}) /\ ShownInv(editor)
    BY <1>1 DEF StateInv, EditorInv, WindowInv
  <2>2. ASSUME NEW w
        PROVE  w \in DOMAIN editor.windows <=>
                 \E k \in DOMAIN editor.workbenches : w \in ToSet(editor.workbenches[k].layout)
    BY <1>1, <2>1, LayoutsAreOpen DEF LayoutInv, StateInv
  <2>3. Range(editor.workbenches) = {editor.workbenches[k] : k \in DOMAIN editor.workbenches}
    BY DEF Range
  <2>4. DOMAIN editor.windows = UNION {ToSet(wb.layout) : wb \in Range(editor.workbenches)}
    BY <2>2, <2>3
  <2>5. ASSUME NEW k \in DOMAIN editor.workbenches
        PROVE  LET wb == editor.workbenches[k] IN
               /\ DOMAIN wb.walks = ToSet(wb.layout) /\ IsInjective(wb.layout)
               /\ wb.active \in ToSet(wb.layout)
               /\ wb.recent \subseteq DOMAIN editor.buffers
               /\ \A l \in DOMAIN editor.workbenches \ {k} :
                   ToSet(wb.layout) \cap ToSet(editor.workbenches[l].layout) = {}
    BY <2>1 DEF LayoutInv
  <2>6. editor.active \in DOMAIN editor.workbenches
    BY <2>1 DEF LayoutInv
  <2>7. /\ \A w \in DOMAIN editor.windows : <<w, editor.windows[w]>> \in DOMAIN editor.carets
        /\ \A c \in DOMAIN editor.carets : c[1] \in DOMAIN editor.windows /\ c[2] \in DOMAIN editor.buffers
    BY <2>1 DEF ShownInv
  <2> QED BY <2>4, <2>5, <2>6, <2>7 DEF WindowsAreAccounted
<1> QED BY <1>1, StateInvariant, PTL

\* Every anchor of an open buffer is held by one place, and every attached place holds
\* one, across captures, evictions, closed buffers and workbenches, and files that open
\* again (editor_application.cpp: the functions that release and resolve anchors).
THEOREM AnchorsOwned == Spec => []AnchorsAreOwned
<1>1. ASSUME StateInv
      PROVE  AnchorsAreOwned
  <2>1. PlaceInv(editor) /\ OwnedInv(editor) /\ RangeInv(editor)
    BY <1>1 DEF StateInv, EditorInv, AnchorInv
  <2>2. ASSUME NEW b \in DOMAIN editor.buffers
        PROVE  /\ {PlaceAt(editor, p).anchor : p \in PlacesIn(editor, b)} = DOMAIN editor.buffers[b].anchors
               /\ \A p, q \in PlacesIn(editor, b) :
                    PlaceAt(editor, p).anchor = PlaceAt(editor, q).anchor => p = q
               /\ \A a \in DOMAIN editor.buffers[b].anchors :
                    editor.buffers[b].anchors[a] \in 0..(editor.buffers[b].lines - 1)
    <3>1. ASSUME NEW p \in PlacesIn(editor, b)
          PROVE  /\ p \in Places(editor) /\ Holds(editor, p, b, PlaceAt(editor, p).anchor)
                 /\ PlaceAt(editor, p).anchor \in DOMAIN editor.buffers[b].anchors
      <4>1. p \in Places(editor) /\ PlaceAt(editor, p).buffer = b
        BY DEF PlacesIn
      <4>2. Attached(PlaceAt(editor, p))
        BY <2>1, <4>1 DEF RangeInv, Attached
      <4> QED BY <2>1, <4>1, <4>2 DEF PlaceInv, Holds
    <3>2. ASSUME NEW a \in DOMAIN editor.buffers[b].anchors
          PROVE  \E p \in PlacesIn(editor, b) : PlaceAt(editor, p).anchor = a
      BY <2>1 DEF OwnedInv, Holds, PlacesIn
    <3>3. {PlaceAt(editor, p).anchor : p \in PlacesIn(editor, b)} = DOMAIN editor.buffers[b].anchors
      BY <3>1, <3>2
    <3>4. ASSUME NEW p \in PlacesIn(editor, b), NEW q \in PlacesIn(editor, b),
                 PlaceAt(editor, p).anchor = PlaceAt(editor, q).anchor
          PROVE  p = q
      BY <2>1, <3>1, <3>4 DEF OwnedInv
    <3>5. \A a \in DOMAIN editor.buffers[b].anchors :
             editor.buffers[b].anchors[a] \in 0..(editor.buffers[b].lines - 1)
      BY <2>1 DEF RangeInv
    <3> QED BY <3>3, <3>4, <3>5
  <2>3. \A p \in Places(editor) :
            Attached(PlaceAt(editor, p)) => PlaceAt(editor, p).buffer \in DOMAIN editor.buffers
    BY <2>1 DEF PlaceInv
  <2> QED BY <2>2, <2>3 DEF AnchorsAreOwned
<1> QED BY <1>1, StateInvariant, PTL

\* No edge leads to a node that was evicted, no walk but to one that was gone when
\* visit_jump() recorded it, and no cursor is beside its walk (editor/jump.cpp,
\* evict_jump_graph(), workbench.scm).
THEOREM WalksStay == Spec => []WalksStayInGraph
<1>1. ASSUME StateInv
      PROVE  WalksStayInGraph
  <2>1. ASSUME NEW wb \in Range(editor.workbenches)
        PROVE  /\ ToSet(wb.graph.order) = DOMAIN wb.graph.nodes
               /\ \A edge \in wb.graph.edges : {edge.from, edge.to} \subseteq DOMAIN wb.graph.nodes
               /\ \A walk \in Range(wb.walks) :
                   /\ ToSet(walk.entries) \subseteq DOMAIN wb.graph.nodes \cup walk.lost
                   /\ walk.cursor \in (IF walk.entries = <<>> THEN {0} ELSE 1..Len(walk.entries))
    <3>1. PICK k \in DOMAIN editor.workbenches : wb = editor.workbenches[k]
      BY DEF Range
    <3>2. /\ GraphInv(wb.graph)
          /\ \A w \in DOMAIN wb.walks : IsWalk(wb.walks[w], DOMAIN wb.graph.nodes)
      BY <1>1, <3>1 DEF StateInv, EditorInv, JumpInv
    <3>3. ASSUME NEW walk \in Range(wb.walks)
          PROVE  /\ ToSet(walk.entries) \subseteq DOMAIN wb.graph.nodes \cup walk.lost
                 /\ walk.cursor \in (IF walk.entries = <<>> THEN {0} ELSE 1..Len(walk.entries))
      <4>1. IsWalk(walk, DOMAIN wb.graph.nodes)
        BY <3>2 DEF Range
      <4> QED BY <4>1 DEF IsWalk, ToSet
    <3> QED BY <3>2, <3>3 DEF GraphInv
  <2> QED BY <2>1 DEF WalksStayInGraph
<1> QED BY <1>1, StateInvariant, PTL

\* A buffer is being saved as long as its one write is under way, and what it is
\* compared with was in a file: an edit made during a save is not lost from sight, and
\* a write of a buffer that was killed finds nobody (core.scm, lifecycle.scm).
THEOREM SavesTrue == Spec => []SavesAreTrue
<1>1. ASSUME StateInv
      PROVE  SavesAreTrue
  <2>1. ASSUME NEW b \in DOMAIN editor.buffers
        PROVE  /\ LET own == {w \in writes : w.buffer = b} IN
                  IF b \in DOMAIN editor.saving
                  THEN \E w \in own : own = {w} /\ w.text = editor.saving[b]
                  ELSE own = {}
               /\ editor.buffers[b].saved \in {1} \cup UNION Range(files)
    <3> DEFINE own == {w \in writes : w.buffer = b}
    <3>1. OwnWrite(editor, b) /\ editor.buffers[b].saved \in {1} \cup UNION Range(files)
      BY <1>1 DEF StateInv, SaveInv
    <3>2. CASE b \in DOMAIN editor.saving
      <4>1. PICK w \in writes : w.text = editor.saving[b] /\ \A v \in writes : v.buffer = b <=> v = w
        BY <3>1, <3>2 DEF OwnWrite
      <4>2. w \in own /\ own = {w}
        BY <4>1
      <4> QED BY <3>1, <3>2, <4>1, <4>2
    <3>3. CASE b \notin DOMAIN editor.saving
      BY <3>1, <3>3 DEF OwnWrite
    <3> QED BY <3>2, <3>3
  <2>2. DOMAIN editor.saving \subseteq DOMAIN editor.buffers
    BY <1>1 DEF StateInv, SaveInv
  <2> QED BY <2>1, <2>2 DEF SavesAreTrue
<1> QED BY <1>1, StateInvariant, PTL

=============================================================================
