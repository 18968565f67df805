--------------------------- MODULE RecursionLemmas ---------------------------
(***************************************************************************)
(* Induction and recursion over an initial segment of the naturals, stated *)
(* with sets and functions only.  A recursive function f[k \in 0 .. n] of  *)
(* a model is a CHOOSE: that it satisfies its own equation is Walk, what   *)
(* it computes at every k is UpTo.                                         *)
(***************************************************************************)
EXTENDS Selection, WellFoundedInduction, TLAPS

(* Some number of a set is the least one.                                  *)
LEMMA Least ==
    ASSUME NEW P, P \subseteq Nat, P # {}
    PROVE  \E i \in P : \A j \in P : i <= j
<1> DEFINE Less == OpToRel(<, Nat)
<1>1. \A i, j \in Nat : <<i, j>> \in Less <=> i < j
  BY DEF OpToRel
<1>2. IsWellFoundedOn(Less, Nat)
  BY NatLessThanWellFounded
<1> HIDE DEF Less
<1>3. PICK m \in P : \A j \in P : ~(<<j, m>> \in Less)
  BY <1>2, WFMin, Zenon
<1>4. \A j \in P : ~(j < m)
  BY <1>1, <1>3
<1> QED
  BY <1>4

(* Induction: a set that holds 0, and k whenever it holds k - 1, holds all *)
(* of 0 .. n.                                                              *)
LEMMA UpTo ==
    ASSUME NEW n \in Nat, NEW S, 0 \in S,
           \A k \in 1 .. n : k - 1 \in S => k \in S
    PROVE  \A k \in 0 .. n : k \in S
<1> SUFFICES ASSUME NEW k \in 0 .. n, k \notin S PROVE FALSE
  OBVIOUS
<1> DEFINE Left == {j \in 0 .. n : j \notin S}
<1>1. Left \subseteq Nat /\ Left # {}
  OBVIOUS
<1>2. PICK m \in Left : \A j \in Left : m <= j
  <2> HIDE DEF Left
  <2> QED
    BY <1>1, Least
<1>3. m \in 1 .. n
  OBVIOUS
<1>4. m - 1 \in Left
  BY <1>3
<1> QED
  BY <1>2, <1>3, <1>4

(* n steps in T, and the functions that start at e and follow them.        *)
Steps(n, T) == [1 .. n -> [T -> T]]

Walks(n, T, e, step) ==
    {f \in [0 .. n -> T] : f[0] = e /\ \A k \in 1 .. n : f[k] = step[k][f[k - 1]]}

(* Recursion: some function starts at e and follows the steps.             *)
LEMMA Walk ==
    ASSUME NEW n \in Nat, NEW T, NEW e \in T, NEW step \in Steps(n, T)
    PROVE  \E f : f \in Walks(n, T, e, step)
<1> USE DEF Steps, Walks
<1> DEFINE Start(m) == {f \in [0 .. m -> T] :
                          f[0] = e /\ \A k \in 1 .. m : f[k] = step[k][f[k - 1]]}
           Reached == {m \in 0 .. n : Start(m) # {}}
<1>1. 0 \in Reached
  <2>1. [k \in 0 .. 0 |-> e] \in Start(0)
    OBVIOUS
  <2> QED
    BY <2>1
<1>2. ASSUME NEW m \in 1 .. n, m - 1 \in Reached
      PROVE  m \in Reached
  <2>1. PICK f \in [0 .. (m - 1) -> T] :
            f[0] = e /\ \A k \in 1 .. (m - 1) : f[k] = step[k][f[k - 1]]
    BY <1>2
  <2> DEFINE g == [k \in 0 .. m |-> IF k = m THEN step[m][f[m - 1]] ELSE f[k]]
  <2>2. f[m - 1] \in T /\ step[m] \in [T -> T]
    BY <2>1
  <2>3. \A k \in 0 .. m : g[k] \in T
    BY <2>1, <2>2
  <2>4. g \in [0 .. m -> T]
    BY <2>3
  <2>5. g[0] = e
    BY <2>1
  <2>6. \A k \in 1 .. m : g[k] = step[k][g[k - 1]]
    BY <2>1
  <2> HIDE DEF g
  <2>7. g \in Start(m)
    BY <2>4, <2>5, <2>6
  <2>8. m \in 0 .. n
    OBVIOUS
  <2> HIDE DEF Start
  <2> QED
    BY <2>7, <2>8
<1>3. n \in Reached
  <2> HIDE DEF Reached
  <2>1. \A k \in 1 .. n : k - 1 \in Reached => k \in Reached
    BY <1>2
  <2>2. \A k \in 0 .. n : k \in Reached
    BY <1>1, <2>1, UpTo, Zenon
  <2> QED
    BY <2>2
<1> QED
  BY <1>3

(* Picked returns one element for every position of I in the sequence, and *)
(* nothing else.                                                           *)
LEMMA PickedFrom ==
    ASSUME NEW X, NEW s \in Seq(X), NEW I
    PROVE  /\ Picked(s, I) \in Seq(X)
           /\ \E h \in [1 .. Len(Picked(s, I)) -> I \cap (1 .. Len(s))] :
                 /\ \A i, j \in 1 .. Len(Picked(s, I)) : h[i] = h[j] => i = j
                 /\ \A j \in 1 .. Len(Picked(s, I)) : Picked(s, I)[j] = s[h[j]]
                 /\ \A i \in I \cap (1 .. Len(s)) : \E j \in 1 .. Len(Picked(s, I)) : h[j] = i
<1> DEFINE n == Len(s)
           After(f) == [i \in 0 .. n |->
                          IF i = 0 THEN <<>>
                          ELSE IF i \in I THEN Append(f[i - 1], s[i]) ELSE f[i - 1]]
           step == [k \in 1 .. n |->
                      [q \in Seq(X) |-> IF k \in I THEN Append(q, s[k]) ELSE q]]
           p == CHOOSE f : f = After(f)
<1>1. n \in Nat /\ \A k \in 1 .. n : s[k] \in X
  OBVIOUS
<1>2. \E f : f = After(f)
  <2> DEFINE T == Seq(X)
             e == << >>
  <2>1. step \in [1 .. n -> [T -> T]]
    BY <1>1
  <2>2. e \in T
    OBVIOUS
  <2>3. PICK f : f \in Walks(n, T, e, step)
    <3>1. step \in Steps(n, T)
      BY <2>1 DEF Steps
    <3> HIDE DEF step, n, T, e
    <3> QED
      BY <1>1, <2>2, <3>1, Walk
  <2>4. /\ f \in [0 .. n -> T] /\ f[0] = e
        /\ \A k \in 1 .. n : f[k] = step[k][f[k - 1]]
    BY <2>3 DEF Walks
  <2> HIDE DEF n
  <2>5. \A k \in 0 .. n : k # 0 => k - 1 \in 0 .. n /\ k \in 1 .. n
    BY <1>1
  <2>6. \A k \in 0 .. n : f[k] \in Seq(X)
    BY <2>4
  <2>7. \A k \in 1 .. n : \A q \in Seq(X) :
            step[k][q] = IF k \in I THEN Append(q, s[k]) ELSE q
    OBVIOUS
  <2> HIDE DEF step
  <2>8. \A k \in 0 .. n : f[k]
                = (IF k = 0 THEN <<>>
                   ELSE IF k \in I THEN Append(f[k - 1], s[k]) ELSE f[k - 1])
    BY <2>4, <2>5, <2>6, <2>7
  <2>9. f = After(f)
    <3>1. f = [k \in 0 .. n |-> f[k]]
      BY <2>4
    <3> QED
      BY <2>8, <3>1
  <2> QED
    BY <2>9
<1>3. p = After(p)
  BY <1>2, Zenon
<1>4. Picked(s, I) = p[n]
  BY DEF Picked
<1> HIDE DEF p
<1>p. \A k \in 0 .. n : p[k] = IF k = 0 THEN <<>>
                                ELSE IF k \in I THEN Append(p[k - 1], s[k]) ELSE p[k - 1]
  <2> HIDE DEF n
  <2> QED
    BY <1>3, Zenon
<1> DEFINE Good(k) ==
             /\ p[k] \in Seq(X)
             /\ \E h \in [1 .. Len(p[k]) -> I \cap (1 .. k)] :
                   /\ \A i, j \in 1 .. Len(p[k]) : h[i] = h[j] => i = j
                   /\ \A j \in 1 .. Len(p[k]) : p[k][j] = s[h[j]]
                   /\ \A i \in I \cap (1 .. k) : \E j \in 1 .. Len(p[k]) : h[j] = i
           Reached == {k \in 0 .. n : Good(k)}
<1>5. 0 \in Reached
  <2>1. p[0] = <<>>
    <3>1. 0 \in 0 .. n
      BY <1>1
    <3> QED
      BY <1>p, <3>1, Zenon
  <2>2. Len(p[0]) = 0 /\ p[0] \in Seq(X)
    BY <2>1
  <2>3. Good(0)
    <3> DEFINE h == [j \in 1 .. Len(p[0]) |-> j]
    <3>1. h \in [1 .. Len(p[0]) -> I \cap (1 .. 0)] /\ \A j \in 1 .. Len(p[0]) : FALSE
      BY <2>2
    <3> HIDE DEF h
    <3> QED
      BY <2>2, <3>1
  <2> QED
    BY <1>1, <2>3
<1>6. ASSUME NEW k \in 1 .. n, k - 1 \in Reached
      PROVE  k \in Reached
  <2>1. p[k] = IF k \in I THEN Append(p[k - 1], s[k]) ELSE p[k - 1]
    <3>1. k \in 0 .. n /\ k # 0
      BY <1>1
    <3> QED
      BY <1>p, <3>1, Zenon
  <2>2. p[k - 1] \in Seq(X) /\ s[k] \in X
    BY <1>1, <1>6
  <2>3. PICK h \in [1 .. Len(p[k - 1]) -> I \cap (1 .. (k - 1))] :
              /\ \A i, j \in 1 .. Len(p[k - 1]) : h[i] = h[j] => i = j
              /\ \A j \in 1 .. Len(p[k - 1]) : p[k - 1][j] = s[h[j]]
              /\ \A i \in I \cap (1 .. (k - 1)) : \E j \in 1 .. Len(p[k - 1]) : h[j] = i
    BY <1>6
  <2>4. CASE k \notin I
    <3>1. p[k] = p[k - 1] /\ I \cap (1 .. k) = I \cap (1 .. (k - 1))
      BY <2>1, <2>4
    <3>2. Good(k)
      BY <2>2, <2>3, <3>1
    <3> HIDE DEF Good
    <3> QED
      BY <1>1, <3>2
  <2>5. CASE k \in I
    <3> DEFINE m == Len(p[k - 1])
               g == [j \in 1 .. m + 1 |-> IF j = m + 1 THEN k ELSE h[j]]
    <3>1. /\ m \in Nat /\ p[k] \in Seq(X) /\ Len(p[k]) = m + 1
          /\ p[k][m + 1] = s[k]
          /\ \A j \in 1 .. m : p[k][j] = p[k - 1][j]
      BY <2>1, <2>2, <2>5
    <3>2. \A j \in 1 .. m : h[j] \in I \cap (1 .. (k - 1))
      BY <2>3
    <3>3. g \in [1 .. m + 1 -> I \cap (1 .. k)]
      BY <2>5, <3>1, <3>2
    <3>4. \A i, j \in 1 .. m + 1 : g[i] = g[j] => i = j
      BY <2>3, <3>1, <3>2
    <3>5. \A j \in 1 .. m + 1 : p[k][j] = s[g[j]]
      BY <2>3, <3>1
    <3>6. \A i \in I \cap (1 .. k) : \E j \in 1 .. m + 1 : g[j] = i
      <4> SUFFICES ASSUME NEW i \in I \cap (1 .. k)
                   PROVE  \E j \in 1 .. m + 1 : g[j] = i
        OBVIOUS
      <4>1. CASE i = k
        <5>1. m + 1 \in 1 .. m + 1 /\ g[m + 1] = i
          BY <3>1, <4>1
        <5> QED
          BY <5>1
      <4>2. CASE i # k
        <5>1. PICK j \in 1 .. m : h[j] = i
          BY <2>3, <4>2
        <5>2. j \in 1 .. m + 1 /\ j # m + 1
          BY <3>1
        <5> QED
          BY <5>1, <5>2
      <4> QED
        BY <4>1, <4>2
    <3> HIDE DEF g
    <3>7. /\ g \in [1 .. Len(p[k]) -> I \cap (1 .. k)]
          /\ \A i, j \in 1 .. Len(p[k]) : g[i] = g[j] => i = j
          /\ \A j \in 1 .. Len(p[k]) : p[k][j] = s[g[j]]
          /\ \A i \in I \cap (1 .. k) : \E j \in 1 .. Len(p[k]) : g[j] = i
      <4> HIDE DEF m
      <4> QED
        BY <3>1, <3>3, <3>4, <3>5, <3>6
    <3>8. Good(k)
      BY <3>1, <3>7
    <3> HIDE DEF Good
    <3> QED
      BY <1>1, <3>8
  <2> QED
    BY <2>4, <2>5
<1>7. n \in Reached
  <2> HIDE DEF Reached
  <2>1. \A k \in 1 .. n : k - 1 \in Reached => k \in Reached
    BY <1>6
  <2>2. \A k \in 0 .. n : k \in Reached
    <3> HIDE DEF n
    <3> QED
      BY <1>1, <1>5, <2>1, UpTo, Zenon
  <2> QED
    BY <1>1, <2>2
<1> QED
  BY <1>4, <1>7
=============================================================================
