---------------------------- MODULE ArrayProofs -----------------------------
(***************************************************************************)
(* What the operations of Arrays return, for every array.  The provers     *)
(* have no rule of induction over data; every set of naturals has a least  *)
(* element, which serves as one.                                           *)
(***************************************************************************)
EXTENDS Arrays, SequenceTheorems, WellFoundedInduction, TLAPS

LEMMA LeastElement ==
  ASSUME NEW T \in SUBSET Nat, T # {}
  PROVE  \E n \in T : \A m \in T : n <= m
<1>1. IsWellFoundedOn(OpToRel(<, Nat), Nat)
  BY NatLessThanWellFounded, Zenon
<1>2. PICK x \in T : \A y \in T : ~(<<y, x>> \in OpToRel(<, Nat))
  BY <1>1, WFMin, Zenon
<1>3. \A y \in T : ~(<<y, x>> \in {ss \in Nat \X Nat : ss[1] < ss[2]})
  BY <1>2, Zenon DEF OpToRel
<1>4. \A y \in T : ~(y < x)
  BY <1>3
<1> QED BY <1>4

\* One element more of the array.
Longer(g, array, passing, i) ==
  IF i = 0 THEN <<>>
  ELSE IF array[i] \in passing THEN Append(g[i - 1], array[i]) ELSE g[i - 1]

\* The recursive definition of Filtered is one: its equation has a solution.
LEMMA FilteredExists ==
  ASSUME NEW A, NEW array \in Seq(A), NEW passing
  PROVE  \E g : g = [i \in 0 .. Len(array) |-> Longer(g, array, passing, i)]
<1> DEFINE Solves(n, g) == g = [i \in 0 .. n |-> Longer(g, array, passing, i)]
<1> DEFINE T == {n \in 0 .. Len(array) : ~\E g \in [0 .. n -> Seq(A)] : Solves(n, g)}
<1>1. \E g \in [0 .. 0 -> Seq(A)] : Solves(0, g)
  <2> DEFINE g == [i \in 0 .. 0 |-> <<>>]
  <2>1. g \in [0 .. 0 -> Seq(A)]
    OBVIOUS
  <2>2. Solves(0, g)
    BY DEF Longer
  <2> QED BY <2>1, <2>2
<1>2. ASSUME NEW n \in 0 .. Len(array), n # 0, NEW g \in [0 .. n - 1 -> Seq(A)], Solves(n - 1, g)
      PROVE  \E h \in [0 .. n -> Seq(A)] : Solves(n, h)
  <2> DEFINE h == [i \in 0 .. n |-> IF i = n THEN Longer(g, array, passing, n) ELSE g[i]]
  <2>1. Longer(g, array, passing, n) \in Seq(A)
    BY <1>2 DEF Longer
  <2>2. h \in [0 .. n -> Seq(A)]
    BY <2>1
  <2>3. ASSUME NEW i \in 0 .. n PROVE h[i] = Longer(h, array, passing, i)
    <3>1. CASE i = n
      BY <1>2, <3>1 DEF Longer
    <3>2. CASE i # n
      <4>1. i \in 0 .. n - 1
        BY <3>2
      <4>2. g[i] = Longer(g, array, passing, i)
        BY <1>2, <4>1
      <4>3. i # 0 => h[i - 1] = g[i - 1]
        BY <4>1
      <4>4. Longer(g, array, passing, i) = Longer(h, array, passing, i)
        BY <4>3 DEF Longer
      <4> QED BY <4>1, <4>2, <4>4
    <3> QED BY <3>1, <3>2
  <2>4. Solves(n, h)
    BY <2>3
  <2> QED BY <2>2, <2>4
<1>3. T = {}
  <2> SUFFICES ASSUME T # {} PROVE FALSE
    OBVIOUS
  <2>0. T \in SUBSET Nat
    OBVIOUS
  <2>1. PICK n \in T : \A m \in T : n <= m
    <3> HIDE DEF T
    <3> QED BY <2>0, LeastElement
  <2>2. n # 0
    <3> SUFFICES ASSUME n = 0 PROVE FALSE
      OBVIOUS
    <3>1. ~\E g \in [0 .. n -> Seq(A)] : Solves(n, g)
      BY <2>1, Zenon
    <3> QED BY <1>1, <3>1, Zenon
  <2>3. n - 1 \in 0 .. Len(array) /\ n - 1 \notin T
    <3>1. n \in 0 .. Len(array)
      BY <2>1
    <3> HIDE DEF T
    <3> QED BY <3>1, <2>1, <2>2
  <2>4. \E g \in [0 .. n - 1 -> Seq(A)] : Solves(n - 1, g)
    BY <2>3, Zenon
  <2>5. \E h \in [0 .. n -> Seq(A)] : Solves(n, h)
    BY <1>2, <2>2, <2>4
  <2> QED BY <2>5
<1>4. Len(array) \in 0 .. Len(array)
  OBVIOUS
<1> QED BY <1>3, <1>4

\* What Filtered computes, element by element.
LEMMA FilteredEquation ==
  ASSUME NEW A, NEW array \in Seq(A), NEW passing
  PROVE  /\ Filtered(array, passing)[0] = <<>>
         /\ \A i \in 1 .. Len(array) :
              Filtered(array, passing)[i] =
                IF array[i] \in passing THEN Append(Filtered(array, passing)[i - 1], array[i])
                ELSE Filtered(array, passing)[i - 1]
<1> DEFINE F == Filtered(array, passing)
<1> DEFINE Sol(g) == g = [i \in 0 .. Len(array) |->
        IF i = 0 THEN <<>>
        ELSE IF array[i] \in passing THEN Append(g[i - 1], array[i]) ELSE g[i - 1]]
<1>1. F = CHOOSE g : Sol(g)
  BY DEF Filtered
<1>2. \E g : Sol(g)
  BY FilteredExists DEF Longer
<1>3. Sol(F)
  <2> HIDE DEF F, Sol
  <2> QED BY <1>1, <1>2, Zenon
<1> HIDE DEF F
<1>4. F[0] = <<>>
  BY <1>3
<1>5. ASSUME NEW i \in 1 .. Len(array)
      PROVE  F[i] = IF array[i] \in passing THEN Append(F[i - 1], array[i]) ELSE F[i - 1]
  <2>1. i \in 0 .. Len(array) /\ i # 0
    OBVIOUS
  <2> QED BY <1>3, <2>1
<1> QED BY <1>4, <1>5 DEF F

\* The elements of a sequence, and one without duplicates.
Elements(s) == {s[i] : i \in 1 .. Len(s)}
Distinct(s) == \A i, j \in 1 .. Len(s) : s[i] = s[j] => i = j

LEMMA AppendElements ==
  ASSUME NEW A, NEW s \in Seq(A), NEW x \in A
  PROVE  /\ Append(s, x) \in Seq(A) /\ Len(Append(s, x)) = Len(s) + 1
         /\ Elements(Append(s, x)) = Elements(s) \cup {x}
         /\ Distinct(s) /\ x \notin Elements(s) => Distinct(Append(s, x))
<1> DEFINE t == Append(s, x)
<1>1. t \in Seq(A) /\ Len(t) = Len(s) + 1 /\ Len(s) \in Nat
  OBVIOUS
<1>2. \A i \in 1 .. Len(s) : t[i] = s[i]
  OBVIOUS
<1>3. t[Len(s) + 1] = x
  OBVIOUS
<1> HIDE DEF t
<1>4. Elements(t) = Elements(s) \cup {x}
  <2>1. \A i \in 1 .. Len(t) : i \in 1 .. Len(s) \/ i = Len(s) + 1
    BY <1>1
  <2>2. \A i \in 1 .. Len(s) : i \in 1 .. Len(t)
    BY <1>1
  <2>3. Len(s) + 1 \in 1 .. Len(t)
    BY <1>1
  <2> QED BY <1>2, <1>3, <2>1, <2>2, <2>3 DEF Elements
<1>5. ASSUME Distinct(s), x \notin Elements(s) PROVE Distinct(t)
  <2> SUFFICES ASSUME NEW i \in 1 .. Len(t), NEW j \in 1 .. Len(t), t[i] = t[j] PROVE i = j
    BY DEF Distinct
  <2>1. (i \in 1 .. Len(s) \/ i = Len(s) + 1) /\ (j \in 1 .. Len(s) \/ j = Len(s) + 1)
    BY <1>1
  <2> QED BY <1>2, <1>3, <1>5, <2>1 DEF Elements, Distinct
<1> QED BY <1>1, <1>4, <1>5 DEF t

\* filter returns the elements that pass, and no duplicate that was not there.
LEMMA FilterKeeps ==
  ASSUME NEW A, NEW array \in Seq(A), NEW passing
  PROVE  /\ filter(array, passing) \in Seq(A)
         /\ Len(filter(array, passing)) <= Len(array)
         /\ Elements(filter(array, passing)) = Elements(array) \cap passing
         /\ Distinct(array) => Distinct(filter(array, passing))
<1> DEFINE F == Filtered(array, passing)
<1> DEFINE Before(i) == {array[j] : j \in 1 .. i}
<1> DEFINE Good(i) == /\ F[i] \in Seq(A) /\ Len(F[i]) <= i
                      /\ Elements(F[i]) = Before(i) \cap passing
                      /\ Distinct(array) => Distinct(F[i])
<1> DEFINE T == {i \in 0 .. Len(array) : ~Good(i)}
<1>1. Good(0)
  <2>1. F[0] = <<>>
    BY FilteredEquation
  <2>2. Before(0) = {} /\ Elements(<<>>) = {} /\ Distinct(<<>>) /\ <<>> \in Seq(A) /\ Len(<<>>) <= 0
    BY DEF Elements, Distinct
  <2> HIDE DEF F, Before
  <2> QED BY <2>1, <2>2
<1>2. ASSUME NEW i \in 1 .. Len(array), Good(i - 1) PROVE Good(i)
  <2>1. F[i] = IF array[i] \in passing THEN Append(F[i - 1], array[i]) ELSE F[i - 1]
    BY FilteredEquation
  <2>2. array[i] \in A
    OBVIOUS
  <2>3. Before(i) = Before(i - 1) \cup {array[i]}
    <3>1. \A j \in 1 .. i : j \in 1 .. i - 1 \/ j = i
      OBVIOUS
    <3>2. \A j \in 1 .. i - 1 : j \in 1 .. i
      OBVIOUS
    <3> QED BY <3>1, <3>2
  <2>4. Distinct(array) => array[i] \notin Before(i - 1)
    <3>1. \A j \in 1 .. i - 1 : j \in 1 .. Len(array) /\ j # i
      OBVIOUS
    <3> QED BY <3>1 DEF Distinct
  <2> HIDE DEF F, Before
  <2>5. CASE array[i] \in passing
    <3>1. F[i] = Append(F[i - 1], array[i])
      BY <2>1, <2>5
    <3>2. F[i] \in Seq(A) /\ Len(F[i]) = Len(F[i - 1]) + 1
      BY <3>1, <2>2, <1>2
    <3>3. Elements(F[i]) = Elements(F[i - 1]) \cup {array[i]}
      BY <3>1, <2>2, <1>2, AppendElements
    <3>4. Distinct(array) => Distinct(F[i])
      <4> SUFFICES ASSUME Distinct(array) PROVE Distinct(F[i])
        OBVIOUS
      <4>1. array[i] \notin Elements(F[i - 1])
        BY <2>4, <1>2
      <4> QED BY <3>1, <2>2, <1>2, <4>1, AppendElements
    <3>5. Len(F[i]) <= i
      <4>1. Len(F[i - 1]) \in Nat /\ Len(F[i - 1]) <= i - 1
        BY <1>2
      <4> QED BY <3>2, <4>1
    <3>6. Elements(F[i]) = Before(i) \cap passing
      BY <3>3, <1>2, <2>3, <2>5
    <3> QED BY <3>2, <3>4, <3>5, <3>6
  <2>6. CASE array[i] \notin passing
    <3>1. F[i] = F[i - 1]
      BY <2>1, <2>6
    <3>2. Before(i) \cap passing = Before(i - 1) \cap passing
      BY <2>3, <2>6
    <3>3. Len(F[i]) <= i
      <4>1. Len(F[i - 1]) \in Nat /\ Len(F[i - 1]) <= i - 1
        BY <1>2
      <4> QED BY <3>1, <4>1
    <3> QED BY <3>1, <3>2, <3>3, <1>2
  <2> QED BY <2>5, <2>6
<1> HIDE DEF Good
<1>3. T = {}
  <2> SUFFICES ASSUME T # {} PROVE FALSE
    OBVIOUS
  <2>1. T \in SUBSET Nat
    OBVIOUS
  <2>2. PICK n \in T : \A m \in T : n <= m
    BY <2>1, LeastElement
  <2>3. n # 0
    BY <1>1
  <2>4. n \in 1 .. Len(array) /\ n - 1 \in 0 .. Len(array)
    BY <2>3
  <2>5. Good(n - 1)
    BY <2>2, <2>4
  <2> QED BY <1>2, <2>4, <2>5
<1>4. Good(Len(array))
  BY <1>3
<1>5. Before(Len(array)) = Elements(array)
  BY DEF Elements
<1> QED BY <1>4, <1>5 DEF filter, Good

\* uniques returns every element of the array, once.
LEMMA UniquesKeeps ==
  ASSUME NEW A, NEW array \in Seq(A)
  PROVE  /\ uniques(array) \in Seq(A)
         /\ Elements(uniques(array)) = Elements(array)
         /\ Distinct(uniques(array))
<1> DEFINE D == 1 .. Len(array)
<1> DEFINE firsts == {i \in D : \A j \in 1 .. i - 1 : array[j] # array[i]}
<1> DEFINE places == [i \in D |-> i]
<1> DEFINE kept == filter(places, firsts)
<1> DEFINE u == [k \in 1 .. Len(kept) |-> array[kept[k]]]
<1>1. /\ Len(array) \in Nat /\ DOMAIN array = D
      /\ places \in Seq(D) /\ Len(places) = Len(array) /\ \A i \in D : places[i] = i
  OBVIOUS
<1>2. Elements(places) = D /\ Distinct(places)
  BY <1>1 DEF Elements, Distinct
<1>3. kept \in Seq(D) /\ Elements(kept) = D \cap firsts /\ Distinct(kept)
  <2> HIDE DEF places, firsts
  <2> QED BY <1>1, <1>2, FilterKeeps
<1>4. uniques(array) = u
  <2>1. DOMAIN kept = 1 .. Len(kept)
    <3> HIDE DEF kept
    <3> QED BY <1>3
  <2> QED BY <1>1, <2>1 DEF uniques
<1> HIDE DEF kept
<1>5. \A k \in 1 .. Len(kept) : kept[k] \in firsts /\ kept[k] \in D
  BY <1>3 DEF Elements
<1>6. u \in Seq(A) /\ Len(u) = Len(kept) /\ \A k \in 1 .. Len(kept) : u[k] = array[kept[k]]
  <2>1. \A k \in 1 .. Len(kept) : array[kept[k]] \in A
    BY <1>5
  <2>2. Len(kept) \in Nat
    BY <1>3
  <2> QED BY <2>1, <2>2
<1> HIDE DEF u
<1>7. ASSUME NEW i \in firsts, NEW j \in firsts, array[i] = array[j] PROVE i = j
  <2>1. i \in Nat /\ j \in Nat /\ i >= 1 /\ j >= 1
    OBVIOUS
  <2>2. ~(i < j)
    <3> SUFFICES ASSUME i < j PROVE FALSE
      OBVIOUS
    <3>1. i \in 1 .. j - 1
      BY <2>1
    <3> QED BY <1>7, <3>1
  <2>3. ~(j < i)
    <3> SUFFICES ASSUME j < i PROVE FALSE
      OBVIOUS
    <3>1. j \in 1 .. i - 1
      BY <2>1
    <3> QED BY <1>7, <3>1
  <2> QED BY <2>1, <2>2, <2>3
<1>8. Distinct(u)
  <2> SUFFICES ASSUME NEW k \in 1 .. Len(kept), NEW l \in 1 .. Len(kept), u[k] = u[l] PROVE k = l
    BY <1>6 DEF Distinct
  <2>1. array[kept[k]] = array[kept[l]]
    BY <1>6
  <2>2. kept[k] = kept[l]
    BY <1>5, <1>7, <2>1
  <2> QED BY <1>3, <2>2 DEF Distinct
<1>9. ASSUME NEW i \in D PROVE \E j \in firsts : array[j] = array[i]
  <2> DEFINE same == {j \in D : array[j] = array[i]}
  <2>1. same \in SUBSET Nat /\ same # {}
    OBVIOUS
  <2>2. PICK j \in same : \A m \in same : j <= m
    BY <2>1, LeastElement
  <2>3. j \in D /\ array[j] = array[i]
    OBVIOUS
  <2>4. ASSUME NEW m \in 1 .. j - 1, array[m] = array[j] PROVE FALSE
    <3>1. m \in D /\ m < j
      BY <1>1, <2>3
    <3>2. m \in same
      BY <2>3, <2>4, <3>1
    <3>3. j <= m
      BY <2>2, <3>2
    <3> QED BY <2>3, <3>1, <3>3
  <2> QED BY <2>3, <2>4
<1>10. Elements(u) = Elements(array)
  <2>1. ASSUME NEW x \in Elements(u) PROVE x \in Elements(array)
    <3>1. PICK k \in 1 .. Len(u) : x = u[k]
      BY DEF Elements
    <3> QED BY <1>5, <1>6, <3>1 DEF Elements
  <2>2. ASSUME NEW x \in Elements(array) PROVE x \in Elements(u)
    <3>1. PICK i \in D : x = array[i]
      BY DEF Elements
    <3>2. PICK j \in firsts : array[j] = array[i]
      BY <1>9
    <3>3. j \in D \cap firsts
      OBVIOUS
    <3>4. PICK k \in 1 .. Len(kept) : kept[k] = j
      BY <1>3, <3>3 DEF Elements
    <3> QED BY <1>6, <3>1, <3>2, <3>4 DEF Elements
  <2> QED BY <2>1, <2>2
<1> QED BY <1>4, <1>6, <1>8, <1>10
=============================================================================
