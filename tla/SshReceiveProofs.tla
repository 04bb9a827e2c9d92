--------------------------- MODULE SshReceiveProofs ---------------------------
(***************************************************************************)
(* Proofs about SshReceive, for texts of any length: expect() matches when *)
(* the prompt has arrived, what it returns shows all that stood before it  *)
(* (Inv), and the lines of a terminal come back as they were sent,         *)
(* wherever the chunks were cut (WholeLines).  The first half is about     *)
(* texts of which some places are kept: Filter, Lists, Picks, Agree.       *)
(***************************************************************************)
EXTENDS SshReceive, SequenceTheorems, WellFoundedInduction, TLAPS

-----------------------------------------------------------------------------
(* Induction, in the form the provers can use.                             *)

(* A set that has 0, and with a number its successor, has all numbers.     *)
LEMMA NatSetInduction ==
  ASSUME NEW T \in SUBSET Nat, 0 \in T, \A n \in T : n + 1 \in T
  PROVE  T = Nat
<1> DEFINE R == OpToRel(<, Nat)
           U == Nat \ T
<1>1. IsWellFoundedOn(R, Nat)
  BY NatLessThanWellFounded
<1>2. SUFFICES ASSUME U # {} PROVE FALSE
  OBVIOUS
<1>3. U \subseteq Nat
  OBVIOUS
<1> HIDE DEF U
<1>4. PICK x \in U : \A y \in U : ~(<<y, x>> \in R)
  <2> HIDE DEF R
  <2> QED BY <1>1, <1>2, <1>3, WFMin
<1>5. x \in Nat /\ x # 0 /\ x - 1 \in Nat /\ x - 1 < x
  BY DEF U
<1>6. <<x - 1, x>> \in R
  BY <1>5 DEF OpToRel
<1>7. x - 1 \in T
  BY <1>4, <1>5, <1>6 DEF U
<1> QED BY <1>5, <1>7 DEF U

(* A set of numbers that has any has a least one.                          *)
LEMMA LeastExists ==
  ASSUME NEW K \in SUBSET Nat, K # {}
  PROVE  \E x \in K : \A y \in K : x <= y
<1> DEFINE T == {n \in Nat : \A y \in K : n <= y}
<1>1. SUFFICES ASSUME \A x \in K : \E y \in K : ~(x <= y) PROVE FALSE
  OBVIOUS
<1>2. 0 \in T
  OBVIOUS
<1>3. ASSUME NEW n \in T PROVE n + 1 \in T
  <2>1. n \notin K
    BY <1>1
  <2> QED BY <2>1
<1>4. T = Nat
  <2>1. T \in SUBSET Nat
    OBVIOUS
  <2> HIDE DEF T
  <2> QED BY <1>2, <1>3, <2>1, NatSetInduction
<1>5. PICK x : x \in K
  OBVIOUS
<1>6. x + 1 \in T
  BY <1>4, <1>5
<1> QED BY <1>5, <1>6

-----------------------------------------------------------------------------
(* Places in order.                                                        *)

(* e lists the numbers in K from the smallest to the greatest.             *)
Lists(e, K) == /\ e \in Seq(K)
               /\ \A k, l \in 1 .. Len(e) : k < l => e[k] < e[l]
               /\ \A i \in K : \E k \in 1 .. Len(e) : e[k] = i

(* One list of a set agrees with any other, as far as it goes.             *)
LEMMA ListsAgree ==
  ASSUME NEW K \in SUBSET Nat, NEW d, NEW e, Lists(d, K), Lists(e, K)
  PROVE  \A k \in 1 .. Len(d) : k \in 1 .. Len(e) /\ d[k] = e[k]
<1> DEFINE T == {n \in Nat : \A k \in 1 .. n : k \in 1 .. Len(d) =>
                               k \in 1 .. Len(e) /\ d[k] = e[k]}
<1>1. Len(d) \in Nat /\ Len(e) \in Nat
  BY DEF Lists
<1>2. /\ \A k \in 1 .. Len(d) : d[k] \in K /\ d[k] \in Nat
      /\ \A k \in 1 .. Len(e) : e[k] \in K /\ e[k] \in Nat
  <2>1. d \in Seq(K) /\ e \in Seq(K)
    BY DEF Lists
  <2>2. \A k \in 1 .. Len(d) : d[k] \in K
    BY <2>1, ElementOfSeq
  <2>3. \A k \in 1 .. Len(e) : e[k] \in K
    BY <2>1, ElementOfSeq
  <2> QED BY <2>2, <2>3
<1>3. 0 \in T
  OBVIOUS
<1>4. ASSUME NEW n \in T PROVE n + 1 \in T
  <2>1. n \in Nat /\ \A k \in 1 .. n : k \in 1 .. Len(d) => k \in 1 .. Len(e) /\ d[k] = e[k]
    OBVIOUS
  <2> HIDE DEF T
  <2>2. ASSUME n + 1 \in 1 .. Len(d)
        PROVE  n + 1 \in 1 .. Len(e) /\ d[n + 1] = e[n + 1]
    <3>1. PICK l \in 1 .. Len(e) : e[l] = d[n + 1]
      BY <1>2, <2>2 DEF Lists
    <3>2. ~(l <= n)
      <4>1. ASSUME l <= n PROVE FALSE
        <5>1. l \in 1 .. n /\ l \in 1 .. Len(d) /\ l < n + 1
          BY <1>1, <2>1, <2>2, <4>1
        <5>2. d[l] = e[l] /\ d[l] < d[n + 1]
          BY <2>1, <2>2, <5>1 DEF Lists
        <5> QED BY <1>2, <2>2, <3>1, <5>1, <5>2
      <4> QED BY <4>1
    <3>3. n + 1 \in 1 .. Len(e) /\ n + 1 <= l
      BY <1>1, <2>1, <3>2
    <3>4. PICK j \in 1 .. Len(d) : d[j] = e[n + 1]
      BY <1>2, <3>3 DEF Lists
    <3>5. ~(j <= n)
      <4>1. ASSUME j <= n PROVE FALSE
        <5>1. j \in 1 .. n /\ j \in 1 .. Len(e) /\ j < n + 1
          BY <1>1, <2>1, <3>3, <4>1
        <5>2. d[j] = e[j] /\ e[j] < e[n + 1]
          BY <2>1, <3>3, <5>1 DEF Lists
        <5> QED BY <1>2, <3>3, <3>4, <5>1, <5>2
      <4> QED BY <4>1
    <3>6. d[n + 1] <= d[j]
      <4>1. n + 1 = j \/ n + 1 < j
        BY <1>1, <2>1, <3>5
      <4> QED BY <1>2, <2>2, <4>1 DEF Lists
    <3>7. e[n + 1] <= e[l]
      <4>1. n + 1 = l \/ n + 1 < l
        BY <1>1, <2>1, <3>3
      <4> QED BY <1>2, <3>3, <4>1 DEF Lists
    <3> QED BY <1>2, <2>2, <3>1, <3>3, <3>4, <3>6, <3>7
  <2>3. \A k \in 1 .. n + 1 : k \in 1 .. n \/ k = n + 1
    BY <2>1
  <2> QED BY <2>1, <2>2, <2>3 DEF T
<1>5. T = Nat
  <2>1. T \in SUBSET Nat
    OBVIOUS
  <2> HIDE DEF T
  <2> QED BY <1>3, <1>4, <2>1, NatSetInduction
<1>6. Len(d) \in T
  BY <1>1, <1>5
<1> QED BY <1>1, <1>6

(* So a set has one list only.                                             *)
LEMMA OneList ==
  ASSUME NEW K \in SUBSET Nat, NEW d, NEW e, Lists(d, K), Lists(e, K)
  PROVE  d = e
<1>1. d \in Seq(K) /\ e \in Seq(K) /\ Len(d) \in Nat /\ Len(e) \in Nat
  BY DEF Lists
<1>2. \A k \in 1 .. Len(d) : k \in 1 .. Len(e) /\ d[k] = e[k]
  BY ListsAgree
<1>3. \A k \in 1 .. Len(e) : k \in 1 .. Len(d)
  BY ListsAgree
<1>4. Len(d) = Len(e)
  <2>1. Len(d) # 0 => Len(d) \in 1 .. Len(d)
    BY <1>1
  <2>2. Len(e) # 0 => Len(e) \in 1 .. Len(e)
    BY <1>1
  <2> QED BY <1>1, <1>2, <1>3, <2>1, <2>2
<1> QED BY <1>1, <1>2, <1>4, SeqEqual

(* InOrder(K, n) unfolds to a function on 0 .. n.                          *)
LEMMA InOrderUnfolds ==
  ASSUME NEW K, NEW n \in Nat
  PROVE  \E u : /\ InOrder(K, n) = u[n]
                /\ u[0] = <<>>
                /\ \A i \in 1 .. n : u[i] = IF i \in K THEN Append(u[i - 1], i) ELSE u[i - 1]
<1> DEFINE F(g, i) == IF i = 0 THEN <<>>
                      ELSE IF i \in K THEN Append(g[i - 1], i)
                      ELSE g[i - 1]
           Eq(m, g) == g = [i \in 0 .. m |-> F(g, i)]
           T == {m \in Nat : \E g : Eq(m, g)}
<1>1. ASSUME NEW g, NEW h, NEW i \in Nat, i # 0 => g[i - 1] = h[i - 1]
      PROVE  F(g, i) = F(h, i)
  BY <1>1
<1>2. \A g : F(g, 0) = <<>>
  OBVIOUS
<1>3. \A g, i : i # 0 => F(g, i) = IF i \in K THEN Append(g[i - 1], i) ELSE g[i - 1]
  OBVIOUS
<1>4. InOrder(K, n) = (CHOOSE g : Eq(n, g))[n]
  BY DEF InOrder
<1> HIDE DEF F
<1>5. 0 \in T
  <2> DEFINE g == [i \in 0 .. 0 |-> <<>>]
  <2>1. \A i \in 0 .. 0 : F(g, i) = <<>>
    BY <1>2
  <2>2. Eq(0, g)
    BY <2>1
  <2> QED BY <2>2
<1>6. ASSUME NEW m \in T
      PROVE  m + 1 \in T
  <2>1. PICK g : Eq(m, g)
    OBVIOUS
  <2> DEFINE h == [i \in 0 .. (m + 1) |-> IF i = m + 1 THEN F(g, m + 1) ELSE g[i]]
  <2>2. m \in Nat
    OBVIOUS
  <2>3. ASSUME NEW i \in 0 .. (m + 1)
        PROVE  h[i] = F(h, i)
    <3>1. i # 0 => g[i - 1] = h[i - 1]
      BY <2>2
    <3>2. F(g, i) = F(h, i)
      <4> HIDE DEF h
      <4> QED BY <1>1, <3>1
    <3>3. h[i] = F(g, i)
      <4>1. CASE i = m + 1
        BY <4>1
      <4>2. CASE i # m + 1
        <5>1. i \in 0 .. m
          BY <2>2, <4>2
        <5>2. g[i] = F(g, i)
          BY <2>1, <5>1
        <5> QED BY <4>2, <5>2
      <4> QED BY <4>1, <4>2
    <3> QED BY <3>2, <3>3
  <2>4. h = [i \in 0 .. (m + 1) |-> h[i]]
    OBVIOUS
  <2> HIDE DEF h
  <2>5. Eq(m + 1, h)
    BY <2>3, <2>4
  <2> HIDE DEF Eq
  <2> QED BY <2>2, <2>5
<1>7. T \subseteq Nat
  OBVIOUS
<1> HIDE DEF T
<1>8. n \in T
  BY <1>5, <1>6, <1>7, NatSetInduction
<1> DEFINE u == CHOOSE g : Eq(n, g)
<1>9. Eq(n, u)
  <2>1. \E g : Eq(n, g)
    BY <1>8 DEF T
  <2> HIDE DEF Eq
  <2> QED BY <2>1
<1>10. InOrder(K, n) = u[n]
  BY <1>4
<1>11. \A i \in 0 .. n : u[i] = F(u, i)
  <2> HIDE DEF u
  <2> QED BY <1>9
<1> HIDE DEF u, Eq
<1>12. u[0] = <<>>
  BY <1>2, <1>11
<1>13. \A i \in 1 .. n : u[i] = IF i \in K THEN Append(u[i - 1], i) ELSE u[i - 1]
  <2>1. \A i \in 1 .. n : i \in 0 .. n /\ i # 0
    OBVIOUS
  <2> QED BY <1>3, <1>11, <2>1
<1> QED BY <1>10, <1>12, <1>13

(* It lists the places in K.                                               *)
LEMMA InOrderLists ==
  ASSUME NEW n \in Nat, NEW K \in SUBSET (1 .. n)
  PROVE  Lists(InOrder(K, n), K)
<1>1. PICK u : /\ InOrder(K, n) = u[n]
               /\ u[0] = <<>>
               /\ \A i \in 1 .. n : u[i] = IF i \in K THEN Append(u[i - 1], i) ELSE u[i - 1]
  BY InOrderUnfolds
<1> DEFINE Upto(m) == {i \in K : i <= m}
           T == {m \in Nat : m <= n => Lists(u[m], Upto(m))}
<1>0. \A i \in K : i \in Nat /\ 1 <= i /\ i <= n
  OBVIOUS
<1>2. 0 \in T
  <2>1. Upto(0) = {}
    <3>1. \A i \in K : ~(i <= 0)
      BY <1>0
    <3> QED BY <3>1
  <2>2. Lists(<<>>, {})
    BY DEF Lists
  <2> QED BY <1>1, <2>1, <2>2
<1>3. ASSUME NEW m \in T
      PROVE  m + 1 \in T
  <2>1. m \in Nat /\ m + 1 \in Nat
    OBVIOUS
  <2>2. SUFFICES ASSUME m + 1 <= n
                 PROVE  Lists(u[m + 1], Upto(m + 1))
    BY <2>1
  <2>3. Lists(u[m], Upto(m))
    BY <2>1, <2>2
  <2>4. u[m + 1] = IF m + 1 \in K THEN Append(u[m], m + 1) ELSE u[m]
    <3>1. m + 1 \in 1 .. n /\ (m + 1) - 1 = m
      BY <2>1, <2>2
    <3> QED BY <1>1, <3>1
  <2> HIDE DEF T
  <2>5. CASE m + 1 \notin K
    <3>1. Upto(m + 1) = Upto(m)
      <4>1. \A i \in K : i <= m + 1 <=> i <= m
        BY <1>0, <2>1, <2>5
      <4> QED BY <4>1
    <3> QED BY <2>3, <2>4, <2>5, <3>1
  <2>6. CASE m + 1 \in K
    <3> DEFINE A == Upto(m)
               B == Upto(m + 1)
               e == u[m]
               f == Append(e, m + 1)
    <3>1. /\ A \subseteq B /\ m + 1 \in B /\ \A i \in B : i \in A \/ i = m + 1
          /\ \A i \in A : i < m + 1 /\ i \in Nat
      <4>1. \A i \in K : /\ i \in Nat
                         /\ i <= m => i <= m + 1 /\ i < m + 1
                         /\ i <= m + 1 => i <= m \/ i = m + 1
        BY <1>0, <2>1
      <4>2. m + 1 \in B
        BY <2>1, <2>6
      <4>3. A \subseteq B
        <5>1. \A i \in A : i \in K /\ i <= m
          OBVIOUS
        <5>2. \A i \in A : i \in B
          BY <4>1, <5>1
        <5> HIDE DEF A, B
        <5> QED BY <5>2
      <4>4. \A i \in B : i \in A \/ i = m + 1
        BY <4>1
      <4>5. \A i \in A : i < m + 1 /\ i \in Nat
        BY <4>1
      <4> QED BY <4>2, <4>3, <4>4, <4>5
    <3> HIDE DEF A, B
    <3>2. e \in Seq(A) /\ Len(e) \in Nat
      BY <2>3 DEF Lists, A
    <3>3. e \in Seq(B)
      BY <3>1, <3>2, SeqMonotonic
    <3>4. /\ f \in Seq(B) /\ Len(f) = Len(e) + 1 /\ f[Len(e) + 1] = m + 1
          /\ \A k \in 1 .. Len(e) : f[k] = e[k]
      BY <3>1, <3>3, AppendProperties
    <3>5. \A k \in 1 .. Len(e) : e[k] \in A
      BY <3>2, ElementOfSeq
    <3>6. /\ \A k, l \in 1 .. Len(e) : k < l => e[k] < e[l]
          /\ \A i \in A : \E k \in 1 .. Len(e) : e[k] = i
      BY <2>3 DEF Lists, A
    <3> HIDE DEF e, f
    <3>7. \A k \in 1 .. Len(f) : k \in 1 .. Len(e) \/ k = Len(e) + 1
      BY <3>2, <3>4
    <3>8. ASSUME NEW k \in 1 .. Len(f), NEW l \in 1 .. Len(f), k < l
          PROVE  f[k] < f[l]
      <4>1. k \in 1 .. Len(e)
        BY <3>2, <3>4, <3>8
      <4>2. CASE l \in 1 .. Len(e)
        BY <3>4, <3>6, <3>8, <4>1, <4>2
      <4>3. CASE l = Len(e) + 1
        BY <3>1, <3>4, <3>5, <4>1, <4>3
      <4> QED BY <3>7, <4>2, <4>3
    <3>9. ASSUME NEW i \in B
          PROVE  \E k \in 1 .. Len(f) : f[k] = i
      <4>1. CASE i = m + 1
        BY <3>2, <3>4, <4>1
      <4>2. CASE i \in A
        <5>1. PICK k \in 1 .. Len(e) : e[k] = i
          BY <3>6, <4>2
        <5>2. k \in 1 .. Len(f) /\ f[k] = i
          BY <3>2, <3>4, <5>1
        <5> QED BY <5>2
      <4> QED BY <3>1, <4>1, <4>2
    <3>10. Lists(f, B)
      BY <3>4, <3>8, <3>9 DEF Lists
    <3> QED BY <2>4, <2>6, <3>10 DEF B, f, e
  <2> QED BY <2>5, <2>6
<1>4. T \subseteq Nat
  OBVIOUS
<1>5. n \in T
  <2> HIDE DEF T
  <2> QED BY <1>2, <1>3, <1>4, NatSetInduction
<1>6. Upto(n) = K
  BY <1>0
<1>7. Lists(u[n], Upto(n))
  BY <1>5
<1> QED BY <1>1, <1>6, <1>7

(* What it lists.                                                          *)
LEMMA ListFacts ==
  ASSUME NEW n \in Nat, NEW K \in SUBSET (1 .. n), NEW e, Lists(e, K)
  PROVE  /\ K \in SUBSET Nat
         /\ e \in Seq(K) /\ Len(e) \in Nat /\ DOMAIN e = 1 .. Len(e)
         /\ \A k \in 1 .. Len(e) : /\ e[k] \in K
                                   /\ e[k] \in Nat /\ e[k] \in 1 .. n
                                   /\ 1 <= e[k] /\ e[k] <= n
<1>1. e \in Seq(K)
  BY DEF Lists
<1>2. \A k \in 1 .. Len(e) : e[k] \in K
  BY <1>1, ElementOfSeq
<1>3. Len(e) \in Nat /\ DOMAIN e = 1 .. Len(e)
  BY <1>1, LenProperties
<1>4. \A i \in K : i \in Nat /\ i \in 1 .. n /\ 1 <= i /\ i <= n
  OBVIOUS
<1> QED BY <1>1, <1>2, <1>3, <1>4

(* The k-th place cannot be further left than k.                           *)
LEMMA ListGrows ==
  ASSUME NEW n \in Nat, NEW K \in SUBSET (1 .. n), NEW e, Lists(e, K)
  PROVE  /\ \A k \in 1 .. Len(e) : k <= e[k]
         /\ Len(e) <= n
<1> DEFINE T == {m \in Nat : \A k \in 1 .. Len(e) : k <= m => k <= e[k]}
<1>1. Len(e) \in Nat /\ \A k \in 1 .. Len(e) : e[k] \in Nat /\ 1 <= e[k] /\ e[k] <= n
  BY ListFacts
<1>2. 0 \in T
  OBVIOUS
<1>3. ASSUME NEW m \in T
      PROVE  m + 1 \in T
  <2>1. m \in Nat /\ \A k \in 1 .. Len(e) : k <= m => k <= e[k]
    OBVIOUS
  <2> HIDE DEF T
  <2>2. ASSUME NEW k \in 1 .. Len(e), k <= m + 1
        PROVE  k <= e[k]
    <3>1. CASE k <= m
      BY <2>1, <3>1
    <3>2. CASE k = m + 1 /\ m = 0
      BY <1>1, <3>2
    <3>3. CASE k = m + 1 /\ m # 0
      <4>1. m \in 1 .. Len(e) /\ m < k
        BY <1>1, <2>1, <3>3
      <4>2. e[m] < e[k] /\ m <= e[m]
        BY <2>1, <4>1 DEF Lists
      <4> QED BY <1>1, <2>1, <3>3, <4>1, <4>2
    <3> QED BY <2>1, <2>2, <3>1, <3>2, <3>3
  <2> QED BY <2>1, <2>2 DEF T
<1>4. T \in SUBSET Nat
  OBVIOUS
<1>5. Len(e) \in T
  <2> HIDE DEF T
  <2> QED BY <1>1, <1>2, <1>3, <1>4, NatSetInduction
<1>6. \A k \in 1 .. Len(e) : k <= e[k]
  BY <1>1, <1>5
<1>7. Len(e) <= n
  <2>1. CASE Len(e) = 0
    BY <2>1
  <2>2. CASE Len(e) # 0
    <3>1. Len(e) \in 1 .. Len(e)
      BY <1>1, <2>2
    <3> QED BY <1>1, <1>6, <3>1
  <2> QED BY <2>1, <2>2
<1> QED BY <1>6, <1>7

-----------------------------------------------------------------------------
(* Texts.                                                                  *)

Strings == Seq(Chars)

(* A text is a function on its places.                                     *)
LEMMA StringFacts ==
  ASSUME NEW s \in Strings
  PROVE  /\ Len(s) \in Nat /\ DOMAIN s = 1 .. Len(s) /\ s \in Seq(Chars)
         /\ \A i \in 1 .. Len(s) : s[i] \in Chars
BY LenProperties, ElementOfSeq DEF Strings

(* One text behind another.                                                *)
LEMMA ConcatFacts ==
  ASSUME NEW s \in Strings, NEW t \in Strings
  PROVE  /\ s \o t \in Strings /\ Len(s \o t) = Len(s) + Len(t)
         /\ \A i \in 1 .. Len(s) : (s \o t)[i] = s[i]
         /\ \A i \in 1 .. Len(t) : (s \o t)[Len(s) + i] = t[i]
         /\ DOMAIN (s \o t) = 1 .. Len(s) + Len(t)
<1>1. Len(s) \in Nat /\ Len(t) \in Nat
  BY StringFacts
<1>2. /\ s \o t \in Strings /\ Len(s \o t) = Len(s) + Len(t)
      /\ \A i \in 1 .. Len(s) + Len(t) : (s \o t)[i] = IF i <= Len(s) THEN s[i] ELSE t[i - Len(s)]
  BY ConcatProperties DEF Strings
<1>3. \A i \in 1 .. Len(s) : i \in 1 .. Len(s) + Len(t) /\ i <= Len(s)
  BY <1>1
<1>4. \A i \in 1 .. Len(t) : /\ Len(s) + i \in 1 .. Len(s) + Len(t)
                             /\ ~(Len(s) + i <= Len(s)) /\ (Len(s) + i) - Len(s) = i
  BY <1>1
<1>5. DOMAIN (s \o t) = 1 .. Len(s) + Len(t)
  BY <1>2, StringFacts
<1>6. \A i \in 1 .. Len(s) : (s \o t)[i] = s[i]
  BY <1>2, <1>3
<1>7. \A i \in 1 .. Len(t) : (s \o t)[Len(s) + i] = t[i]
  BY <1>2, <1>4
<1> QED BY <1>2, <1>5, <1>6, <1>7

(* A part of a text, which may be empty.                                   *)
LEMMA PartFacts ==
  ASSUME NEW s \in Strings, NEW m \in 1 .. Len(s) + 1, NEW n \in m - 1 .. Len(s)
  PROVE  /\ SubSeq(s, m, n) \in Strings /\ Len(SubSeq(s, m, n)) = n - m + 1
         /\ \A i \in 1 .. n - m + 1 : SubSeq(s, m, n)[i] = s[m + i - 1]
         /\ DOMAIN SubSeq(s, m, n) = 1 .. n - m + 1
<1>1. Len(s) \in Nat /\ m \in Int /\ n \in Int
  BY StringFacts
<1>2. \A i \in m .. n : s[i] \in Chars
  <2>1. \A i \in m .. n : i \in 1 .. Len(s)
    BY <1>1
  <2> QED BY <2>1, StringFacts
<1>3. /\ SubSeq(s, m, n) \in Strings
      /\ Len(SubSeq(s, m, n)) = IF m <= n THEN n - m + 1 ELSE 0
      /\ \A i \in 1 .. n - m + 1 : SubSeq(s, m, n)[i] = s[m + i - 1]
  BY <1>1, <1>2, SubSeqProperties DEF Strings
<1>4. (IF m <= n THEN n - m + 1 ELSE 0) = n - m + 1
  BY <1>1
<1> QED BY <1>3, <1>4, StringFacts

(* Texts are the same if their characters are.                             *)
LEMMA SameString ==
  ASSUME NEW s \in Strings, NEW t \in Strings,
         Len(s) = Len(t), \A i \in 1 .. Len(s) : s[i] = t[i]
  PROVE  s = t
BY SeqEqual DEF Strings

(* A text cut in two.                                                      *)
LEMMA CutInTwo ==
  ASSUME NEW s \in Strings, NEW n \in 0 .. Len(s)
  PROVE  s = SubSeq(s, 1, n) \o SubSeq(s, n + 1, Len(s))
<1>1. Len(s) \in Nat
  BY StringFacts
<1>2. 1 \in 1 .. Len(s) + 1 /\ n \in 1 - 1 .. Len(s) /\ n + 1 \in 1 .. Len(s) + 1 /\ Len(s) \in (n + 1) - 1 .. Len(s)
  BY <1>1
<1> DEFINE a == SubSeq(s, 1, n)
           b == SubSeq(s, n + 1, Len(s))
<1>3. a \in Strings /\ Len(a) = n /\ \A i \in 1 .. n : a[i] = s[i]
  <2>1. n - 1 + 1 = n /\ \A i \in 1 .. n : 1 + i - 1 = i
    BY <1>1
  <2> QED BY <1>2, <2>1, PartFacts
<1>4. b \in Strings /\ Len(b) = Len(s) - n /\ \A i \in 1 .. Len(s) - n : b[i] = s[n + i]
  <2>1. Len(s) - (n + 1) + 1 = Len(s) - n /\ \A i \in 1 .. Len(s) - n : (n + 1) + i - 1 = n + i
    BY <1>1
  <2> DEFINE m == n + 1
  <2>2. m \in 1 .. Len(s) + 1 /\ Len(s) \in m - 1 .. Len(s)
    BY <1>2
  <2>3. /\ b \in Strings /\ Len(b) = Len(s) - m + 1
        /\ \A i \in 1 .. Len(s) - m + 1 : b[i] = s[m + i - 1]
    <3> HIDE DEF m
    <3>1. /\ SubSeq(s, m, Len(s)) \in Strings /\ Len(SubSeq(s, m, Len(s))) = Len(s) - m + 1
          /\ \A i \in 1 .. Len(s) - m + 1 : SubSeq(s, m, Len(s))[i] = s[m + i - 1]
      BY <2>2, PartFacts
    <3> QED BY <3>1 DEF m
  <2> HIDE DEF b
  <2> QED BY <2>1, <2>3
<1> HIDE DEF a, b
<1>5. a \o b \in Strings /\ Len(a \o b) = Len(s)
  <2>1. n + (Len(s) - n) = Len(s)
    BY <1>1
  <2> QED BY <1>3, <1>4, <2>1, ConcatFacts
<1>6. ASSUME NEW i \in 1 .. Len(s)
      PROVE  s[i] = (a \o b)[i]
  <2>1. CASE i <= n
    <3>1. i \in 1 .. n
      BY <1>1, <2>1
    <3> QED BY <1>3, <1>4, <3>1, ConcatFacts
  <2>2. CASE ~(i <= n)
    <3>1. i - n \in 1 .. Len(s) - n /\ n + (i - n) = i
      BY <1>1, <2>2
    <3>2. (a \o b)[Len(a) + (i - n)] = b[i - n]
      BY <1>3, <1>4, <3>1, ConcatFacts
    <3>3. b[i - n] = s[i]
      BY <1>4, <3>1
    <3> QED BY <1>3, <3>1, <3>2, <3>3
  <2> QED BY <2>1, <2>2
<1> QED BY <1>5, <1>6, SameString DEF a, b

-----------------------------------------------------------------------------
(* Filters.                                                                *)

(* t has what s has at the places that e lists.                            *)
Picks(t, s, e) == /\ t \in Strings /\ Len(t) = Len(e)
                  /\ \A k \in 1 .. Len(e) : t[k] = s[e[k]]

(* Filter picks the characters at the places it is given,                  *)
LEMMA FilterPicks ==
  ASSUME NEW s \in Strings, NEW K \in SUBSET (1 .. Len(s)), NEW e, Lists(e, K)
  PROVE  Picks(Filter(s, K), s, e)
<1>1. Len(s) \in Nat
  BY StringFacts
<1>2. InOrder(K, Len(s)) = e
  BY <1>1, InOrderLists, ListFacts, OneList
<1>3. Filter(s, K) = [k \in 1 .. Len(e) |-> s[e[k]]]
  BY <1>1, <1>2, ListFacts DEF Filter
<1>4. \A k \in 1 .. Len(e) : s[e[k]] \in Chars
  BY <1>1, ListFacts, StringFacts
<1>5. Len(e) \in Nat
  BY <1>1, ListFacts
<1>6. [k \in 1 .. Len(e) |-> s[e[k]]] \in Seq(Chars)
  BY <1>4, <1>5
<1> QED BY <1>3, <1>5, <1>6 DEF Picks, Strings

(* It is the only such text.                                               *)
LEMMA PicksFilter ==
  ASSUME NEW s \in Strings, NEW K \in SUBSET (1 .. Len(s)), NEW e, Lists(e, K),
         NEW t, Picks(t, s, e)
  PROVE  t = Filter(s, K)
<1>1. Picks(Filter(s, K), s, e)
  BY FilterPicks
<1> QED BY <1>1, SameString DEF Picks

(* A text that keeps some of another's characters, in their order.         *)
LEMMA FilterFacts ==
  ASSUME NEW s \in Strings, NEW K \in SUBSET (1 .. Len(s))
  PROVE  /\ Filter(s, K) \in Strings /\ Len(Filter(s, K)) <= Len(s)
         /\ \E e : Lists(e, K) /\ Picks(Filter(s, K), s, e)
<1>1. Len(s) \in Nat
  BY StringFacts
<1>2. PICK e : Lists(e, K)
  BY <1>1, InOrderLists
<1>3. Picks(Filter(s, K), s, e)
  BY <1>2, FilterPicks
<1>4. Len(e) <= Len(s)
  BY <1>1, <1>2, ListGrows
<1> QED BY <1>2, <1>3, <1>4 DEF Picks

(* A list of places of a list.                                             *)
LEMMA ListOfList ==
  ASSUME NEW n \in Nat, NEW K \in SUBSET (1 .. n), NEW e, Lists(e, K),
         NEW J \in SUBSET (1 .. Len(e)), NEW d, Lists(d, J)
  PROVE  Lists([k \in 1 .. Len(d) |-> e[d[k]]], {e[j] : j \in J})
<1> DEFINE f == [k \in 1 .. Len(d) |-> e[d[k]]]
           L == {e[j] : j \in J}
<1>1. /\ Len(e) \in Nat
      /\ \A k \in 1 .. Len(e) : e[k] \in Nat
      /\ \A k, l \in 1 .. Len(e) : k < l => e[k] < e[l]
  BY ListFacts DEF Lists
<1>2. /\ Len(d) \in Nat
      /\ \A k \in 1 .. Len(d) : d[k] \in J /\ d[k] \in 1 .. Len(e)
      /\ \A k, l \in 1 .. Len(d) : k < l => d[k] < d[l]
      /\ \A j \in J : \E k \in 1 .. Len(d) : d[k] = j
  BY <1>1, ListFacts DEF Lists
<1>3. \A k \in 1 .. Len(d) : f[k] \in L /\ f[k] = e[d[k]]
  BY <1>2
<1>4. f \in Seq(L) /\ Len(f) = Len(d)
  BY <1>2, <1>3
<1>5. ASSUME NEW i \in L
      PROVE  \E k \in 1 .. Len(f) : f[k] = i
  <2>1. PICK j \in J : i = e[j]
    OBVIOUS
  <2>2. PICK k \in 1 .. Len(d) : d[k] = j
    BY <1>2
  <2> QED BY <1>3, <1>4, <2>1, <2>2
<1> HIDE DEF f, L
<1>6. \A k, l \in 1 .. Len(f) : k < l => f[k] < f[l]
  BY <1>1, <1>2, <1>3, <1>4
<1> QED BY <1>4, <1>5, <1>6 DEF Lists, f, L

(* The first places of a list.                                             *)
LEMMA ListPart ==
  ASSUME NEW n \in Nat, NEW K \in SUBSET (1 .. n), NEW e, Lists(e, K),
         NEW q \in 0 .. Len(e)
  PROVE  Lists([k \in 1 .. q |-> e[k]], {e[k] : k \in 1 .. q})
<1> DEFINE d == [k \in 1 .. q |-> k]
<1>1. Len(e) \in Nat /\ q \in Nat
  BY ListFacts
<1>2. Lists(d, 1 .. q)
  <2>1. d \in Seq(1 .. q) /\ Len(d) = q /\ \A k \in 1 .. q : d[k] = k
    BY <1>1
  <2> HIDE DEF d
  <2> QED BY <2>1 DEF Lists
<1>3. 1 .. q \in SUBSET (1 .. Len(e))
  BY <1>1
<1>4. Lists([k \in 1 .. Len(d) |-> e[d[k]]], {e[j] : j \in 1 .. q})
  <2> HIDE DEF d
  <2> QED BY <1>2, <1>3, ListOfList
<1>5. [k \in 1 .. Len(d) |-> e[d[k]]] = [k \in 1 .. q |-> e[k]]
  <2>1. Len(d) = q
    BY <1>1
  <2>2. \A k \in 1 .. q : d[k] = k
    OBVIOUS
  <2> HIDE DEF d
  <2> QED BY <2>1, <2>2
<1> QED BY <1>4, <1>5

-----------------------------------------------------------------------------
(* What is visible of a text.                                              *)
VisiblePlaces(s) == {i \in DOMAIN s : s[i] \notin {CR, LF}}

(* Visible(s) keeps what ends no line.                                     *)
LEMMA VisibleIs ==
  ASSUME NEW s \in Strings
  PROVE  /\ Visible(s) = Filter(s, VisiblePlaces(s))
         /\ VisiblePlaces(s) \in SUBSET (1 .. Len(s))
         /\ Visible(s) \in Strings
<1>1. Visible(s) = Filter(s, VisiblePlaces(s))
  BY DEF Visible, VisiblePlaces
<1>2. VisiblePlaces(s) \in SUBSET (1 .. Len(s))
  BY StringFacts DEF VisiblePlaces
<1> QED BY <1>1, <1>2, FilterFacts

(* t is s without some of its carriage returns and line feeds, namely with *)
(* what is at the places that e lists.                                     *)
Thins(s, t, e, K) == /\ K \in SUBSET (1 .. Len(s)) /\ Lists(e, K) /\ Picks(t, s, e)
                     /\ \A i \in 1 .. Len(s) : i \notin K => s[i] \in {CR, LF}

(* The same is visible of it.                                              *)
LEMMA ThinsVisible ==
  ASSUME NEW s \in Strings, NEW t, NEW e, NEW K, Thins(s, t, e, K)
  PROVE  Visible(t) = Visible(s)
<1>1. /\ t \in Strings /\ Len(t) = Len(e) /\ Len(s) \in Nat /\ Len(t) \in Nat
      /\ \A k \in 1 .. Len(e) : t[k] = s[e[k]]
      /\ K \in SUBSET (1 .. Len(s)) /\ Lists(e, K)
  BY StringFacts DEF Thins, Picks
<1> DEFINE J == VisiblePlaces(t)
<1>2. J \in SUBSET (1 .. Len(e)) /\ Visible(t) = Filter(t, J)
  BY <1>1, VisibleIs
<1>3. PICK d : Lists(d, J) /\ Picks(Visible(t), t, d)
  BY <1>1, <1>2, FilterFacts
<1> DEFINE f == [k \in 1 .. Len(d) |-> e[d[k]]]
<1>4. Lists(f, {e[j] : j \in J})
  <2> HIDE DEF J
  <2>1. Lists(d, J) /\ J \in SUBSET (1 .. Len(e)) /\ Len(s) \in Nat
        /\ K \in SUBSET (1 .. Len(s)) /\ Lists(e, K)
    BY <1>1, <1>2, <1>3
  <2> QED BY <2>1, ListOfList, Zenon
<1>5. {e[j] : j \in J} = VisiblePlaces(s)
  <2>1. ASSUME NEW j \in J
        PROVE  e[j] \in VisiblePlaces(s)
    <3>1. j \in 1 .. Len(e) /\ t[j] = s[e[j]] /\ t[j] \notin {CR, LF}
      BY <1>1, <1>2 DEF VisiblePlaces
    <3>2. e[j] \in 1 .. Len(s)
      BY <1>1, <3>1, ListFacts
    <3> QED BY <3>1, <3>2, StringFacts DEF VisiblePlaces
  <2>2. ASSUME NEW i \in VisiblePlaces(s)
        PROVE  \E j \in J : e[j] = i
    <3>1. i \in 1 .. Len(s) /\ s[i] \notin {CR, LF}
      BY StringFacts DEF VisiblePlaces
    <3>2. i \in K
      BY <3>1 DEF Thins
    <3>3. PICK j \in 1 .. Len(e) : e[j] = i
      BY <1>1, <3>2 DEF Lists
    <3>4. j \in J
      BY <1>1, <3>1, <3>3, StringFacts DEF VisiblePlaces
    <3> QED BY <3>3, <3>4
  <2> QED BY <2>1, <2>2
<1>6. Picks(Visible(t), s, f)
  <2>1. Len(d) \in Nat /\ \A k \in 1 .. Len(d) : d[k] \in 1 .. Len(e)
    BY <1>1, <1>2, <1>3, ListFacts
  <2>2. Len(f) = Len(d) /\ \A k \in 1 .. Len(d) : f[k] = e[d[k]]
    BY <2>1
  <2> HIDE DEF f, J
  <2>3. \A k \in 1 .. Len(d) : Visible(t)[k] = s[e[d[k]]]
    BY <1>1, <1>3, <2>1 DEF Picks
  <2> QED BY <1>3, <2>2, <2>3 DEF Picks
<1>7. Visible(t) = Filter(s, VisiblePlaces(s))
  <2> HIDE DEF f, J
  <2> QED BY <1>4, <1>5, <1>6, VisibleIs, PicksFilter
<1> QED BY <1>7, VisibleIs

(* The places of two texts, one behind the other, where the first has m.   *)
Behind(d, e, m) ==
  [k \in 1 .. Len(d) + Len(e) |-> IF k <= Len(d) THEN d[k] ELSE m + e[k - Len(d)]]

(* First those of one, then those of the other.                            *)
LEMMA BehindIs ==
  ASSUME NEW d, NEW e, NEW m, Len(d) \in Nat, Len(e) \in Nat
  PROVE  /\ Len(Behind(d, e, m)) = Len(d) + Len(e)
         /\ \A k \in 1 .. Len(d) + Len(e) :
              /\ k <= Len(d) => k \in 1 .. Len(d) /\ Behind(d, e, m)[k] = d[k]
              /\ ~(k <= Len(d)) => /\ k - Len(d) \in 1 .. Len(e)
                                   /\ Behind(d, e, m)[k] = m + e[k - Len(d)]
  BY DEF Behind

(* L has the places in J, of m, and behind them those in K, of n.          *)
Together(L, J, K, m, n) ==
  /\ J \in SUBSET (1 .. m) /\ K \in SUBSET (1 .. n) /\ L \in SUBSET (1 .. m + n)
  /\ \A i \in 1 .. m : i \in L <=> i \in J
  /\ \A i \in 1 .. n : m + i \in L <=> i \in K

(* They are in order.                                                      *)
LEMMA ListConcat ==
  ASSUME NEW m \in Nat, NEW n \in Nat, NEW J, NEW K, NEW L, Together(L, J, K, m, n),
         NEW d, Lists(d, J), NEW e, Lists(e, K)
  PROVE  Lists(Behind(d, e, m), L)
<1>1. m \in Nat /\ n \in Nat
  OBVIOUS
<1>2. /\ J \in SUBSET (1 .. m) /\ K \in SUBSET (1 .. n)
      /\ \A i \in L : i \in 1 .. m + n
      /\ \A i \in 1 .. m : i \in L <=> i \in J
      /\ \A i \in 1 .. n : m + i \in L <=> i \in K
  BY DEF Together
<1>5. /\ Len(d) \in Nat /\ \A k \in 1 .. Len(d) : d[k] \in J /\ d[k] \in Nat /\ d[k] \in 1 .. m
      /\ \A k, l \in 1 .. Len(d) : k < l => d[k] < d[l]
      /\ \A i \in J : \E k \in 1 .. Len(d) : d[k] = i
  <2>1. J \in SUBSET (1 .. m)
    BY <1>2
  <2> QED BY <1>1, <2>1, ListFacts DEF Lists
<1>6. /\ Len(e) \in Nat /\ \A k \in 1 .. Len(e) : e[k] \in K /\ e[k] \in Nat /\ e[k] \in 1 .. n
      /\ \A k, l \in 1 .. Len(e) : k < l => e[k] < e[l]
      /\ \A i \in K : \E k \in 1 .. Len(e) : e[k] = i
  <2>1. K \in SUBSET (1 .. n)
    BY <1>2
  <2> QED BY <1>1, <2>1, ListFacts DEF Lists
<1> DEFINE f == Behind(d, e, m)
<1>7. ASSUME NEW k \in 1 .. Len(d) + Len(e)
      PROVE  /\ k <= Len(d) => k \in 1 .. Len(d) /\ f[k] = d[k]
             /\ ~(k <= Len(d)) => k - Len(d) \in 1 .. Len(e) /\ f[k] = m + e[k - Len(d)]
  BY <1>5, <1>6 DEF Behind
<1>8. ASSUME NEW k \in 1 .. Len(d) + Len(e)
      PROVE  f[k] \in L /\ f[k] \in Nat
  <2> HIDE DEF f
  <2>1. CASE k <= Len(d)
    <3>1. k \in 1 .. Len(d) /\ f[k] = d[k]
      BY <1>7, <2>1
    <3>2. d[k] \in J /\ d[k] \in 1 .. m /\ d[k] \in 1 .. m + n /\ d[k] \in Nat
      BY <1>1, <1>5, <3>1
    <3> QED BY <1>2, <3>1, <3>2
  <2>2. CASE ~(k <= Len(d))
    <3> DEFINE l == k - Len(d)
    <3>1. l \in 1 .. Len(e) /\ f[k] = m + e[l]
      BY <1>7, <2>2
    <3>2. e[l] \in K /\ e[l] \in 1 .. n /\ m + e[l] \in 1 .. m + n /\ m + e[l] \in Nat
      BY <1>1, <1>6, <3>1
    <3> QED BY <1>2, <3>1, <3>2
  <2> QED BY <2>1, <2>2
<1>9. f \in Seq(L) /\ Len(f) = Len(d) + Len(e)
  <2>1. Len(d) + Len(e) \in Nat
    BY <1>5, <1>6
  <2>2. f = [k \in 1 .. Len(d) + Len(e) |-> f[k]]
    BY DEF Behind
  <2> HIDE DEF f
  <2> QED BY <1>8, <2>1, <2>2
<1> HIDE DEF f
<1>10. ASSUME NEW k \in 1 .. Len(f), NEW l \in 1 .. Len(f), k < l
       PROVE  f[k] < f[l]
  <2>1. k \in 1 .. Len(d) + Len(e) /\ l \in 1 .. Len(d) + Len(e)
    BY <1>9
  <2>2. CASE l <= Len(d)
    <3>1. k <= Len(d)
      BY <1>5, <1>10, <2>2
    <3> QED BY <1>5, <1>7, <1>10, <2>1, <2>2, <3>1
  <2>3. CASE k <= Len(d) /\ ~(l <= Len(d))
    <3>1. f[k] = d[k] /\ d[k] \in 1 .. m
      BY <1>5, <1>7, <2>1, <2>3
    <3>2. f[l] = m + e[l - Len(d)] /\ e[l - Len(d)] \in 1 .. n
      BY <1>6, <1>7, <2>1, <2>3
    <3> QED BY <1>1, <3>1, <3>2
  <2>4. CASE ~(k <= Len(d)) /\ ~(l <= Len(d))
    <3>1. f[k] = m + e[k - Len(d)] /\ k - Len(d) \in 1 .. Len(e)
      BY <1>7, <2>1, <2>4
    <3>2. f[l] = m + e[l - Len(d)] /\ l - Len(d) \in 1 .. Len(e)
      BY <1>7, <2>1, <2>4
    <3>3. k - Len(d) < l - Len(d)
      BY <1>5, <1>10, <2>1
    <3>4. e[k - Len(d)] < e[l - Len(d)]
      BY <1>6, <3>1, <3>2, <3>3
    <3>5. e[k - Len(d)] \in Nat /\ e[l - Len(d)] \in Nat
      BY <1>6, <3>1, <3>2
    <3> QED BY <1>1, <3>1, <3>2, <3>4, <3>5
  <2> QED BY <1>5, <1>10, <2>1, <2>2, <2>3, <2>4
<1>11. ASSUME NEW i \in L
       PROVE  \E k \in 1 .. Len(f) : f[k] = i
  <2>1. i \in 1 .. m + n
    BY <1>2
  <2>2. CASE i <= m
    <3>1. i \in 1 .. m
      BY <1>1, <2>1, <2>2
    <3>2. i \in J
      BY <1>1, <1>2, <2>1, <3>1
    <3>3. PICK k \in 1 .. Len(d) : d[k] = i
      BY <1>5, <3>2
    <3>4. k \in 1 .. Len(d) + Len(e) /\ k <= Len(d)
      BY <1>5, <1>6
    <3> QED BY <1>7, <1>9, <3>3, <3>4
  <2>3. CASE ~(i <= m)
    <3>1. i - m \in 1 .. n /\ m + (i - m) = i
      BY <1>1, <2>1, <2>3
    <3>2. i - m \in K
      BY <1>1, <1>2, <2>1, <3>1
    <3>3. PICK k \in 1 .. Len(e) : e[k] = i - m
      BY <1>6, <3>2
    <3>4. Len(d) + k \in 1 .. Len(d) + Len(e) /\ ~(Len(d) + k <= Len(d)) /\ (Len(d) + k) - Len(d) = k
      BY <1>5, <1>6
    <3> QED BY <1>7, <1>9, <3>1, <3>3, <3>4
  <2> QED BY <2>2, <2>3
<1>12. Lists(f, L)
  BY <1>9, <1>10, <1>11 DEF Lists
<1> QED BY <1>12 DEF f

(* What is kept of two texts, one behind the other.                        *)
LEMMA FilterConcat ==
  ASSUME NEW s \in Strings, NEW t \in Strings,
         NEW J, NEW K, NEW L, Together(L, J, K, Len(s), Len(t))
  PROVE  Filter(s \o t, L) = Filter(s, J) \o Filter(t, K)
<1> DEFINE m == Len(s)
<1>1. /\ m \in Nat /\ Len(t) \in Nat
      /\ s \o t \in Strings /\ Len(s \o t) = m + Len(t)
      /\ \A i \in 1 .. m : (s \o t)[i] = s[i]
      /\ \A i \in 1 .. Len(t) : (s \o t)[m + i] = t[i]
  BY StringFacts, ConcatFacts
<1>2. /\ J \in SUBSET (1 .. Len(s)) /\ K \in SUBSET (1 .. Len(t))
      /\ L \in SUBSET (1 .. m + Len(t))
  BY DEF Together
<1>3. PICK d : Lists(d, J) /\ Picks(Filter(s, J), s, d)
  BY <1>2, FilterFacts
<1>4. PICK e : Lists(e, K) /\ Picks(Filter(t, K), t, e)
  BY <1>2, FilterFacts
<1> DEFINE f == Behind(d, e, m)
<1>5. Lists(d, J) /\ Lists(e, K)
  BY <1>3, <1>4
<1>6. /\ \A k \in 1 .. Len(d) : d[k] \in 1 .. m
      /\ \A k \in 1 .. Len(e) : e[k] \in 1 .. Len(t)
  BY <1>1, <1>2, <1>5, ListFacts
<1>7. /\ Lists(f, L) /\ Len(f) = Len(d) + Len(e) /\ Len(d) \in Nat /\ Len(e) \in Nat
      /\ \A k \in 1 .. Len(d) + Len(e) :
              /\ k <= Len(d) => k \in 1 .. Len(d) /\ f[k] = d[k]
              /\ ~(k <= Len(d)) => k - Len(d) \in 1 .. Len(e) /\ f[k] = m + e[k - Len(d)]
  <2> DEFINE n == Len(t)
  <2>1. m \in Nat /\ n \in Nat /\ Together(L, J, K, m, n)
    BY <1>1
  <2>2. Lists(f, L)
    <3> HIDE DEF m, n
    <3> QED BY <1>5, <2>1, ListConcat
  <2>3. Len(d) \in Nat /\ Len(e) \in Nat
    BY <1>1, <1>2, <1>5, ListFacts
  <2> QED BY <2>2, <2>3, BehindIs
<1> HIDE DEF f, m
<1>13. Picks(Filter(s, J) \o Filter(t, K), s \o t, f)
  <2> DEFINE a == Filter(s, J)
             b == Filter(t, K)
  <2>1. /\ a \in Strings /\ Len(a) = Len(d) /\ b \in Strings /\ Len(b) = Len(e)
        /\ \A k \in 1 .. Len(d) : a[k] = s[d[k]]
        /\ \A k \in 1 .. Len(e) : b[k] = t[e[k]]
    BY <1>3, <1>4 DEF Picks
  <2> HIDE DEF a, b
  <2>2. /\ a \o b \in Strings /\ Len(a \o b) = Len(d) + Len(e)
        /\ \A k \in 1 .. Len(d) : (a \o b)[k] = a[k]
        /\ \A k \in 1 .. Len(e) : (a \o b)[Len(d) + k] = b[k]
    <3>1. /\ a \o b \in Strings /\ Len(a \o b) = Len(a) + Len(b)
          /\ \A k \in 1 .. Len(a) : (a \o b)[k] = a[k]
          /\ \A k \in 1 .. Len(b) : (a \o b)[Len(a) + k] = b[k]
      BY <2>1, ConcatFacts
    <3> QED BY <2>1, <3>1
  <2>3. ASSUME NEW k \in 1 .. Len(f)
        PROVE  (a \o b)[k] = (s \o t)[f[k]]
    <3>1. k \in 1 .. Len(d) + Len(e)
      BY <1>7
    <3>2. CASE k <= Len(d)
      <4>1. k \in 1 .. Len(d) /\ f[k] = d[k]
        BY <1>7, <3>1, <3>2
      <4> QED BY <1>1, <1>6, <2>1, <2>2, <4>1
    <3>3. CASE ~(k <= Len(d))
      <4>1. k - Len(d) \in 1 .. Len(e) /\ f[k] = m + e[k - Len(d)]
        BY <1>7, <3>1, <3>3
      <4>2. Len(d) + (k - Len(d)) = k
        BY <1>7, <3>1
      <4>3. (a \o b)[k] = t[e[k - Len(d)]]
        BY <2>1, <2>2, <4>1, <4>2
      <4> QED BY <1>1, <1>6, <4>1, <4>3
    <3> QED BY <3>2, <3>3
  <2>4. Picks(a \o b, s \o t, f)
    BY <1>7, <2>2, <2>3 DEF Picks
  <2> QED BY <2>4 DEF a, b
<1>14. L \in SUBSET (1 .. Len(s \o t))
  BY <1>1, <1>2
<1> QED BY <1>1, <1>7, <1>13, <1>14, PicksFilter

(* The visible of two texts, one behind the other.                         *)
LEMMA VisibleConcat ==
  ASSUME NEW s \in Strings, NEW t \in Strings
  PROVE  Visible(s \o t) = Visible(s) \o Visible(t)
<1> DEFINE J == VisiblePlaces(s)
           K == VisiblePlaces(t)
           L == VisiblePlaces(s \o t)
<1>1. /\ Len(s) \in Nat /\ Len(t) \in Nat
      /\ s \o t \in Strings /\ Len(s \o t) = Len(s) + Len(t)
      /\ \A i \in 1 .. Len(s) : (s \o t)[i] = s[i]
      /\ \A i \in 1 .. Len(t) : (s \o t)[Len(s) + i] = t[i]
  BY StringFacts, ConcatFacts
<1>2. /\ J = {i \in 1 .. Len(s) : s[i] \notin {CR, LF}}
      /\ K = {i \in 1 .. Len(t) : t[i] \notin {CR, LF}}
      /\ L = {i \in 1 .. Len(s) + Len(t) : (s \o t)[i] \notin {CR, LF}}
  BY <1>1, StringFacts DEF VisiblePlaces
<1> HIDE DEF J, K, L
<1>3. /\ \A i \in 1 .. Len(s) : i \in L <=> i \in J
      /\ \A i \in 1 .. Len(t) : Len(s) + i \in L <=> i \in K
  <2>1. /\ \A i \in 1 .. Len(s) : i \in 1 .. Len(s) + Len(t)
        /\ \A i \in 1 .. Len(t) : Len(s) + i \in 1 .. Len(s) + Len(t)
    BY <1>1
  <2> QED BY <1>1, <1>2, <2>1
<1>4. /\ J \in SUBSET (1 .. Len(s)) /\ K \in SUBSET (1 .. Len(t))
      /\ L \in SUBSET (1 .. Len(s) + Len(t))
  BY <1>2
<1>5. Together(L, J, K, Len(s), Len(t))
  BY <1>3, <1>4 DEF Together
<1>6. Filter(s \o t, L) = Filter(s, J) \o Filter(t, K)
  BY <1>5, FilterConcat
<1> QED BY <1>1, <1>6, VisibleIs DEF J, K, L

(* Line ends are not visible.                                              *)
LEMMA VisibleNone ==
  ASSUME NEW s \in Strings, \A i \in 1 .. Len(s) : s[i] \in {CR, LF}
  PROVE  Visible(s) = <<>>
<1>1. VisiblePlaces(s) = {}
  BY StringFacts DEF VisiblePlaces
<1>2. Lists(<<>>, {})
  BY DEF Lists
<1>3. Picks(<<>>, s, <<>>)
  BY DEF Picks, Strings
<1> QED BY <1>1, <1>2, <1>3, VisibleIs, PicksFilter

-----------------------------------------------------------------------------
(* Where the prompt is.                                                    *)

Prompt(s, i) == i \in 1 .. Len(s) /\ i + 1 \in 1 .. Len(s) /\ s[i] = "h" /\ s[i + 1] = "#"

(* What stands before the prompt, and a text that a "#" would complete.    *)
BeforePrompt(s) == SubSeq(s, 1, PromptAt(s) - 1)
EndsInH(s)      == Len(s) \in 1 .. Len(s) /\ s[Len(s)] = "h"
BeginsWithHash(s) == 1 \in 1 .. Len(s) /\ s[1] = "#"

(* The characters differ.                                                  *)
LEMMA CharFacts == /\ "h" \notin {CR, LF, "#"} /\ "#" \notin {CR, LF} /\ CR # LF
                   /\ CR \in Chars /\ LF \in Chars /\ "h" \in Chars /\ "#" \in Chars
BY DEF CR, LF, Chars

(* The least number of a set, and the greatest.                            *)
LEMMA LeastIs ==
  ASSUME NEW K \in SUBSET (Nat \ {0})
  PROVE  /\ Least(K) = 0 <=> K = {}
         /\ K # {} => Least(K) \in K /\ \A i \in K : Least(K) <= i
         /\ \A i \in K : (\A j \in K : i <= j) => Least(K) = i
<1>1. CASE K = {}
  BY <1>1 DEF Least
<1>2. CASE K # {}
  <2>1. Least(K) = Min(K)
    BY <1>2 DEF Least
  <2>2. \E x \in K : \A y \in K : x <= y
    BY <1>2, LeastExists
  <2>3. Min(K) \in K /\ \A y \in K : Min(K) <= y
    BY <2>2 DEF Min
  <2>4. ASSUME NEW i \in K, \A j \in K : i <= j
        PROVE  Min(K) = i
    <3>1. i \in Nat /\ Min(K) \in Nat /\ Min(K) <= i /\ i <= Min(K)
      BY <2>3, <2>4
    <3> QED BY <3>1
  <2> QED BY <1>2, <2>1, <2>3, <2>4
<1> QED BY <1>1, <1>2

(* What Greatest(K) is: the end of K, 0 if it has none.                    *)
LEMMA GreatestIs ==
  ASSUME NEW n \in Nat, NEW K \in SUBSET (1 .. n)
  PROVE  /\ Greatest(K) = 0 <=> K = {}
         /\ K # {} => Greatest(K) \in K /\ \A i \in K : i <= Greatest(K)
<1>1. CASE K = {}
  BY <1>1 DEF Greatest
<1>2. CASE K # {}
  <2>1. Greatest(K) = Max(K)
    BY <1>2 DEF Greatest
  <2> DEFINE D == {n - i : i \in K}
  <2>0. \A i \in K : i \in Nat /\ 1 <= i /\ i <= n /\ n - i \in Nat
    OBVIOUS
  <2>2. D \in SUBSET Nat /\ D # {}
    BY <1>2, <2>0
  <2>3. PICK d \in D : \A y \in D : d <= y
    <3> HIDE DEF D
    <3> QED BY <2>2, LeastExists
  <2>4. PICK m \in K : d = n - m
    OBVIOUS
  <2>5. \A i \in K : n - i \in D
    OBVIOUS
  <2>6. \A i \in K : i <= m
    <3> HIDE DEF D
    <3>1. \A i \in K : n - m <= n - i
      BY <2>3, <2>4, <2>5
    <3> QED BY <2>0, <2>4, <3>1
  <2>7. Max(K) \in K /\ \A i \in K : i <= Max(K)
    BY <2>6 DEF Max
  <2>8. Max(K) # 0
    BY <2>0, <2>7
  <2> QED BY <1>2, <2>1, <2>7, <2>8
<1> QED BY <1>1, <1>2

(* PromptAt finds the first prompt.                                        *)
LEMMA PromptAtIs ==
  ASSUME NEW s \in Strings
  PROVE  /\ PromptAt(s) = 0 <=> \A i : ~Prompt(s, i)
         /\ PromptAt(s) # 0 => /\ Prompt(s, PromptAt(s))
                               /\ \A i : Prompt(s, i) => PromptAt(s) <= i
         /\ \A i : Prompt(s, i) /\ (\A j : Prompt(s, j) => i <= j) => PromptAt(s) = i
         /\ PromptAt(s) \in 0 .. Len(s)
<1> DEFINE K == {i \in 1 .. Len(s) : Prompt(s, i)}
<1>1. {i \in DOMAIN s : s[i] = "h" /\ At(s, i + 1, {"#"})} = K
  BY StringFacts DEF At, Prompt
<1>2. PromptAt(s) = Least(K)
  BY <1>1 DEF PromptAt
<1>3. K \in SUBSET (Nat \ {0}) /\ \A i : Prompt(s, i) <=> i \in K
  BY StringFacts DEF Prompt
<1>4. \A i \in K : i \in 0 .. Len(s)
  BY StringFacts
<1>5. 0 \in 0 .. Len(s)
  BY StringFacts
<1> HIDE DEF K
<1>6. /\ Least(K) = 0 <=> K = {}
      /\ K # {} => Least(K) \in K /\ \A i \in K : Least(K) <= i
      /\ \A i \in K : (\A j \in K : i <= j) => Least(K) = i
  BY <1>3, LeastIs
<1>7. PromptAt(s) = 0 <=> \A i : ~Prompt(s, i)
  BY <1>2, <1>3, <1>6
<1>8. PromptAt(s) # 0 => /\ Prompt(s, PromptAt(s))
                         /\ \A i : Prompt(s, i) => PromptAt(s) <= i
  BY <1>2, <1>3, <1>6
<1>9. \A i : Prompt(s, i) /\ (\A j : Prompt(s, j) => i <= j) => PromptAt(s) = i
  BY <1>2, <1>3, <1>6
<1>10. PromptAt(s) \in 0 .. Len(s)
  BY <1>2, <1>4, <1>5, <1>6
<1> QED BY <1>7, <1>8, <1>9, <1>10

(* The prompts of two texts, one behind the other.                         *)
LEMMA PromptsOfConcat ==
  ASSUME NEW a \in Strings, NEW b \in Strings
  PROVE  \A i : Prompt(a \o b, i) <=>
           \/ Prompt(a, i)
           \/ i = Len(a) /\ EndsInH(a) /\ BeginsWithHash(b)
           \/ i \in Nat /\ Prompt(b, i - Len(a))
<1>1. Len(a) \in Nat /\ Len(b) \in Nat
  BY StringFacts
<1>2. /\ Len(a \o b) = Len(a) + Len(b)
      /\ \A i \in 1 .. Len(a) : (a \o b)[i] = a[i]
      /\ \A i \in 1 .. Len(b) : (a \o b)[Len(a) + i] = b[i]
  BY ConcatFacts
<1>3. ASSUME NEW i, Prompt(a, i)
      PROVE  Prompt(a \o b, i)
  <2>1. i \in 1 .. Len(a) /\ i + 1 \in 1 .. Len(a) /\ a[i] = "h" /\ a[i + 1] = "#"
    BY <1>3 DEF Prompt
  <2>2. i \in 1 .. Len(a) + Len(b) /\ i + 1 \in 1 .. Len(a) + Len(b)
    BY <1>1, <2>1
  <2> QED BY <1>2, <2>1, <2>2 DEF Prompt
<1>4. ASSUME EndsInH(a), BeginsWithHash(b)
      PROVE  Prompt(a \o b, Len(a))
  <2>1. Len(a) \in 1 .. Len(a) /\ 1 \in 1 .. Len(b) /\ a[Len(a)] = "h" /\ b[1] = "#"
    BY <1>4 DEF EndsInH, BeginsWithHash
  <2>2. Len(a) \in 1 .. Len(a) + Len(b) /\ Len(a) + 1 \in 1 .. Len(a) + Len(b)
    BY <1>1, <2>1
  <2> QED BY <1>2, <2>1, <2>2 DEF Prompt
<1>5. ASSUME NEW i \in Nat, Prompt(b, i - Len(a))
      PROVE  Prompt(a \o b, i)
  <2> DEFINE j == i - Len(a)
  <2>1. j \in 1 .. Len(b) /\ j + 1 \in 1 .. Len(b) /\ b[j] = "h" /\ b[j + 1] = "#"
    BY <1>5 DEF Prompt
  <2>2. Len(a) + j = i /\ Len(a) + (j + 1) = i + 1
    BY <1>1
  <2>3. i \in 1 .. Len(a) + Len(b) /\ i + 1 \in 1 .. Len(a) + Len(b)
    BY <1>1, <2>1
  <2> HIDE DEF j
  <2>4. (a \o b)[i] = b[j] /\ (a \o b)[i + 1] = b[j + 1]
    BY <1>2, <2>1, <2>2
  <2> QED BY <1>2, <2>1, <2>3, <2>4 DEF Prompt
<1>6. ASSUME NEW i, Prompt(a \o b, i)
      PROVE  \/ Prompt(a, i)
             \/ i = Len(a) /\ EndsInH(a) /\ BeginsWithHash(b)
             \/ i \in Nat /\ Prompt(b, i - Len(a))
  <2>1. /\ i \in 1 .. Len(a) + Len(b) /\ i + 1 \in 1 .. Len(a) + Len(b)
        /\ (a \o b)[i] = "h" /\ (a \o b)[i + 1] = "#"
    BY <1>2, <1>6 DEF Prompt
  <2>2. CASE i < Len(a)
    <3>1. i \in 1 .. Len(a) /\ i + 1 \in 1 .. Len(a)
      BY <1>1, <2>1, <2>2
    <3> QED BY <1>2, <2>1, <3>1 DEF Prompt
  <2>3. CASE i = Len(a)
    <3>1. Len(a) \in 1 .. Len(a) /\ 1 \in 1 .. Len(b)
      BY <1>1, <2>1, <2>3
    <3>2. a[Len(a)] = "h" /\ b[1] = "#"
      BY <1>2, <2>1, <2>3, <3>1
    <3> QED BY <2>3, <3>1, <3>2 DEF EndsInH, BeginsWithHash
  <2>4. CASE i > Len(a)
    <3> DEFINE j == i - Len(a)
    <3>1. j \in 1 .. Len(b) /\ j + 1 \in 1 .. Len(b) /\ Len(a) + j = i /\ Len(a) + (j + 1) = i + 1
      BY <1>1, <2>1, <2>4
    <3> HIDE DEF j
    <3>2. b[j] = "h" /\ b[j + 1] = "#"
      BY <1>2, <2>1, <3>1
    <3>3. Prompt(b, j) /\ i \in Nat
      BY <2>1, <3>1, <3>2 DEF Prompt
    <3> QED BY <3>3 DEF j
  <2> QED BY <1>1, <2>1, <2>2, <2>3, <2>4
<1> QED BY <1>3, <1>4, <1>5, <1>6

(* Where the first one is, if the first text has none.                     *)
LEMMA PromptBehind ==
  ASSUME NEW a \in Strings, NEW b \in Strings, PromptAt(a) = 0
  PROVE  /\ EndsInH(a) /\ BeginsWithHash(b) =>
              PromptAt(a \o b) = Len(a) /\ Len(a) # 0
         /\ ~(EndsInH(a) /\ BeginsWithHash(b)) /\ PromptAt(b) = 0 => PromptAt(a \o b) = 0
         /\ ~(EndsInH(a) /\ BeginsWithHash(b)) /\ PromptAt(b) # 0 =>
              PromptAt(a \o b) = Len(a) + PromptAt(b) /\ Len(a) + PromptAt(b) # 0
<1>1. Len(a) \in Nat /\ Len(b) \in Nat /\ a \o b \in Strings
  BY StringFacts, ConcatFacts
<1>2. \A i : ~Prompt(a, i)
  BY PromptAtIs
<1>3. \A i : Prompt(a \o b, i) <=>
           \/ i = Len(a) /\ EndsInH(a) /\ BeginsWithHash(b)
           \/ i \in Nat /\ Prompt(b, i - Len(a))
  BY <1>2, PromptsOfConcat
<1>4. \A j : Prompt(b, j) => j \in Nat /\ j >= 1
  BY <1>1 DEF Prompt
<1>5. ASSUME EndsInH(a), BeginsWithHash(b)
      PROVE  PromptAt(a \o b) = Len(a) /\ Len(a) # 0
  <2>1. Prompt(a \o b, Len(a))
    BY <1>3, <1>5
  <2>2. \A j : Prompt(a \o b, j) => Len(a) <= j
    BY <1>1, <1>3, <1>4
  <2>3. Len(a) # 0
    BY <1>5 DEF EndsInH
  <2> QED BY <1>1, <2>1, <2>2, <2>3, PromptAtIs
<1>6. ASSUME ~(EndsInH(a) /\ BeginsWithHash(b)), PromptAt(b) = 0
      PROVE  PromptAt(a \o b) = 0
  <2>1. \A i : ~Prompt(b, i)
    BY <1>6, PromptAtIs
  <2>2. \A i : ~Prompt(a \o b, i)
    BY <1>3, <1>6, <2>1
  <2> QED BY <1>1, <2>2, PromptAtIs
<1>7. ASSUME ~(EndsInH(a) /\ BeginsWithHash(b)), PromptAt(b) # 0
      PROVE  PromptAt(a \o b) = Len(a) + PromptAt(b) /\ Len(a) + PromptAt(b) # 0
  <2> DEFINE q == PromptAt(b)
  <2>1. Prompt(b, q) /\ q \in Nat /\ q >= 1 /\ \A j : Prompt(b, j) => q <= j
    BY <1>4, <1>7, PromptAtIs
  <2> HIDE DEF q
  <2>2. Prompt(a \o b, Len(a) + q)
    <3>1. (Len(a) + q) - Len(a) = q /\ Len(a) + q \in Nat
      BY <1>1, <2>1
    <3> QED BY <1>3, <2>1, <3>1
  <2>3. \A j : Prompt(a \o b, j) => Len(a) + q <= j
    <3>1. ASSUME NEW j, Prompt(a \o b, j)
          PROVE  Len(a) + q <= j
      <4>1. j \in Nat /\ Prompt(b, j - Len(a))
        BY <1>3, <1>7, <3>1
      <4>2. q <= j - Len(a)
        BY <2>1, <4>1
      <4> QED BY <1>1, <2>1, <4>1, <4>2
    <3> QED BY <3>1
  <2>4. PromptAt(a \o b) = Len(a) + q
    BY <1>1, <2>2, <2>3, PromptAtIs
  <2> QED BY <1>1, <2>1, <2>4 DEF q
<1> QED BY <1>5, <1>6, <1>7

(* ... and if it has one.                                                  *)
LEMMA PromptInFront ==
  ASSUME NEW a \in Strings, NEW b \in Strings, PromptAt(a) # 0
  PROVE  PromptAt(a \o b) = PromptAt(a)
<1>1. Len(a) \in Nat /\ Len(b) \in Nat /\ a \o b \in Strings
  BY StringFacts, ConcatFacts
<1> DEFINE q == PromptAt(a)
<1>2. Prompt(a, q) /\ \A j : Prompt(a, j) => q <= j
  BY PromptAtIs
<1> HIDE DEF q
<1>3. Prompt(a \o b, q) /\ q \in Nat /\ q <= Len(a)
  BY <1>1, <1>2, PromptsOfConcat DEF Prompt
<1>4. ASSUME NEW j, Prompt(a \o b, j)
      PROVE  q <= j
  <2>1. CASE Prompt(a, j)
    BY <1>2, <2>1
  <2>2. CASE j = Len(a)
    BY <1>3, <2>2
  <2>3. CASE j \in Nat /\ Prompt(b, j - Len(a))
    <3>1. j - Len(a) >= 1
      BY <1>1, <2>3 DEF Prompt
    <3> QED BY <1>1, <1>3, <2>3, <3>1
  <2> QED BY <1>4, <2>1, <2>2, <2>3, PromptsOfConcat
<1> QED BY <1>1, <1>3, <1>4, PromptAtIs DEF q

(* What ends in an "h".                                                    *)
LEMMA EndOfConcat ==
  ASSUME NEW a \in Strings, NEW b \in Strings
  PROVE  EndsInH(a \o b) <=> IF Len(b) = 0 THEN EndsInH(a) ELSE EndsInH(b)
<1>1. /\ Len(a) \in Nat /\ Len(b) \in Nat /\ Len(a \o b) = Len(a) + Len(b)
      /\ \A i \in 1 .. Len(a) : (a \o b)[i] = a[i]
      /\ \A i \in 1 .. Len(b) : (a \o b)[Len(a) + i] = b[i]
  BY StringFacts, ConcatFacts
<1>2. CASE Len(b) = 0
  <2>1. Len(a \o b) = Len(a)
    BY <1>1, <1>2
  <2>2. Len(a) \in 1 .. Len(a) => (a \o b)[Len(a)] = a[Len(a)]
    BY <1>1
  <2> QED BY <1>2, <2>1, <2>2 DEF EndsInH
<1>3. CASE Len(b) # 0
  <2>1. Len(b) \in 1 .. Len(b) /\ Len(a) + Len(b) \in 1 .. Len(a) + Len(b)
    BY <1>1, <1>3
  <2>2. (a \o b)[Len(a) + Len(b)] = b[Len(b)]
    BY <1>1, <2>1
  <2> QED BY <1>1, <1>3, <2>1, <2>2 DEF EndsInH
<1> QED BY <1>2, <1>3

-----------------------------------------------------------------------------
(* What cleaning the carriage returns up leaves as it is: all that is      *)
(* visible, whether there is a prompt, what is visible before it, and      *)
(* whether a "#" would complete one.                                       *)

Agree(s, t) == /\ Visible(s) = Visible(t)
               /\ EndsInH(s) <=> EndsInH(t)
               /\ PromptAt(s) = 0 <=> PromptAt(t) = 0
               /\ PromptAt(s) # 0 => Visible(BeforePrompt(s)) = Visible(BeforePrompt(t))

(* Agreement goes on.                                                      *)
LEMMA AgreeOn ==
  ASSUME NEW s, NEW t, NEW u, Agree(s, t), Agree(t, u)
  PROVE  Agree(s, u)
  BY DEF Agree

(* What each of the three substitutions does: t is s without carriage      *)
(* returns that stand behind a line end or before a line feed.             *)
Cleans(s, t, e, K) ==
  /\ Thins(s, t, e, K)
  /\ \A i \in 1 .. Len(s) :
       i \notin K => s[i] = CR /\ (At(s, i - 1, {CR, LF}) \/ At(s, i + 1, {LF}))

(* Behind a character that is kept and ends no line, the next one is kept. *)
LEMMA CleansKeeps ==
  ASSUME NEW s \in Strings, NEW t, NEW e, NEW K, Cleans(s, t, e, K),
         NEW p \in 1 .. Len(s), s[p] \notin {CR, LF}, p + 1 \in 1 .. Len(s),
         p + 1 \notin K
  PROVE  p + 2 \in K /\ p + 2 \in 1 .. Len(s) /\ s[p + 2] = LF
<1>1. Len(s) \in Nat /\ DOMAIN s = 1 .. Len(s)
  BY StringFacts
<1> DEFINE m == p + 1
<1>2. m \in 1 .. Len(s) /\ m \notin K /\ m - 1 = p /\ m + 1 = p + 2
  BY <1>1
<1> HIDE DEF m
<1>3. s[m] = CR /\ (At(s, m - 1, {CR, LF}) \/ At(s, m + 1, {LF}))
  BY <1>2 DEF Cleans
<1>4. p + 2 \in 1 .. Len(s) /\ s[p + 2] = LF
  BY <1>1, <1>2, <1>3 DEF At
<1>5. p + 2 \in K
  BY <1>4, CharFacts DEF Cleans
<1> QED BY <1>4, <1>5

(* A prompt is kept, and none comes about.                                 *)
LEMMA CleansPrompts ==
  ASSUME NEW s \in Strings, NEW t, NEW e, NEW K, Cleans(s, t, e, K)
  PROVE  /\ \A k \in 1 .. Len(e) : Prompt(t, k) <=> Prompt(s, e[k])
         /\ \A i : Prompt(s, i) => \E k \in 1 .. Len(e) : e[k] = i
<1>1. /\ Len(s) \in Nat /\ K \in SUBSET (1 .. Len(s)) /\ Lists(e, K)
      /\ t \in Strings /\ Len(t) = Len(e)
      /\ \A k \in 1 .. Len(e) : t[k] = s[e[k]]
  BY StringFacts DEF Cleans, Thins, Picks
<1>2. /\ Len(e) \in Nat
      /\ \A k \in 1 .. Len(e) : e[k] \in K /\ e[k] \in Nat /\ e[k] \in 1 .. Len(s)
      /\ \A k, l \in 1 .. Len(e) : k < l => e[k] < e[l]
      /\ \A i \in K : \E k \in 1 .. Len(e) : e[k] = i
  BY <1>1, ListFacts DEF Lists
<1>3. \A i \in 1 .. Len(s) : i \notin K => s[i] = CR
  BY DEF Cleans
<1>4. ASSUME NEW i, Prompt(s, i)
      PROVE  i \in K /\ i + 1 \in K /\ \E k \in 1 .. Len(e) : e[k] = i
  <2>1. i \in K /\ i + 1 \in K
    BY <1>3, <1>4, CharFacts DEF Prompt
  <2> QED BY <1>2, <2>1
<1>5. ASSUME NEW k \in 1 .. Len(e), Prompt(s, e[k])
      PROVE  Prompt(t, k)
  <2>1. s[e[k]] = "h" /\ s[e[k] + 1] = "#" /\ e[k] + 1 \in K
    BY <1>4, <1>5 DEF Prompt
  <2>2. PICK l \in 1 .. Len(e) : e[l] = e[k] + 1
    BY <1>2, <2>1
  <2>3. k < l
    <3>1. e[k] \in Nat
      BY <1>2
    <3>2. k # l /\ (l < k => e[l] < e[k])
      BY <1>2, <2>2, <3>1
    <3> QED BY <1>2, <2>2, <3>1, <3>2
  <2>4. k + 1 \in 1 .. Len(e)
    BY <1>2, <2>3
  <2>5. e[k + 1] = e[k] + 1
    <3>1. e[k] < e[k + 1] /\ e[k] \in Nat /\ e[k + 1] \in Nat
      BY <1>2, <2>4
    <3>2. e[k + 1] <= e[l]
      <4>1. CASE k + 1 = l
        BY <4>1, <3>1
      <4>2. CASE k + 1 < l
        BY <1>2, <2>4, <4>2
      <4> QED BY <2>3, <4>1, <4>2
    <3> QED BY <2>2, <3>1, <3>2
  <2> QED BY <1>1, <2>1, <2>4, <2>5 DEF Prompt
<1>6. ASSUME NEW k \in 1 .. Len(e), Prompt(t, k)
      PROVE  Prompt(s, e[k])
  <2>1. k + 1 \in 1 .. Len(e) /\ s[e[k]] = "h" /\ s[e[k + 1]] = "#"
    BY <1>1, <1>6 DEF Prompt
  <2>2. /\ e[k] \in Nat /\ e[k + 1] \in Nat /\ e[k] < e[k + 1]
        /\ e[k] \in 1 .. Len(s) /\ e[k + 1] \in 1 .. Len(s)
    BY <1>2, <2>1
  <2>3. e[k] + 1 \in 1 .. Len(s)
    BY <1>1, <2>2
  <2>4. \A i \in K : e[k] < i => e[k + 1] <= i
    <3>1. ASSUME NEW i \in K, e[k] < i
          PROVE  e[k + 1] <= i
      <4>1. PICK l \in 1 .. Len(e) : e[l] = i
        BY <1>2
      <4>2. k < l
        <5>1. k # l /\ (l < k => e[l] < e[k])
          BY <1>2, <2>2, <3>1, <4>1
        <5> QED BY <1>2, <2>2, <3>1, <4>1, <5>1
      <4>3. CASE k + 1 = l
        BY <4>1, <4>3, <2>2
      <4>4. CASE k + 1 < l
        BY <1>2, <2>1, <4>1, <4>4
      <4> QED BY <4>2, <4>3, <4>4
    <3> QED BY <3>1
  <2>5. e[k] + 1 \in K
    <3> SUFFICES ASSUME e[k] + 1 \notin K
                 PROVE  FALSE
      OBVIOUS
    <3> DEFINE p == e[k]
    <3>1. p \in 1 .. Len(s) /\ p + 1 \in 1 .. Len(s) /\ p + 1 \notin K /\ s[p] \notin {CR, LF}
      BY <2>1, <2>2, <2>3, CharFacts
    <3> HIDE DEF p
    <3>2. p + 2 \in K /\ s[p + 2] = LF
      BY <3>1, CleansKeeps
    <3>3. e[k + 1] <= p + 2 /\ p \in Nat /\ p < e[k + 1]
      BY <2>2, <2>4, <3>2 DEF p
    <3>4. e[k + 1] # p + 2
      BY <2>1, <3>2, CharFacts
    <3>5. e[k + 1] # p + 1
      <4>1. e[k + 1] \in K
        BY <1>2, <2>1
      <4> QED BY <3>1, <4>1
    <3> QED BY <2>2, <3>3, <3>4, <3>5
  <2>6. e[k + 1] = e[k] + 1
    BY <2>2, <2>4, <2>5
  <2> QED BY <2>1, <2>2, <2>3, <2>6 DEF Prompt
<1> QED BY <1>4, <1>5, <1>6

(* The end of the text is kept, unless it is a carriage return.            *)
LEMMA CleansEnd ==
  ASSUME NEW s \in Strings, NEW t, NEW e, NEW K, Cleans(s, t, e, K)
  PROVE  EndsInH(s) <=> EndsInH(t)
<1>1. /\ Len(s) \in Nat /\ K \in SUBSET (1 .. Len(s)) /\ Lists(e, K)
      /\ t \in Strings /\ Len(t) = Len(e)
      /\ \A k \in 1 .. Len(e) : t[k] = s[e[k]]
  BY StringFacts DEF Cleans, Thins, Picks
<1>2. /\ Len(e) \in Nat
      /\ \A k \in 1 .. Len(e) : e[k] \in K /\ e[k] \in Nat /\ e[k] \in 1 .. Len(s)
      /\ \A k, l \in 1 .. Len(e) : k < l => e[k] < e[l]
      /\ \A i \in K : \E k \in 1 .. Len(e) : e[k] = i
  BY <1>1, ListFacts DEF Lists
<1>3. \A i \in K : Len(e) \in 1 .. Len(e) /\ i <= e[Len(e)]
  <2>1. ASSUME NEW i \in K
        PROVE  Len(e) \in 1 .. Len(e) /\ i <= e[Len(e)]
    <3>1. PICK k \in 1 .. Len(e) : e[k] = i
      BY <1>2
    <3>2. Len(e) \in 1 .. Len(e)
      BY <1>2
    <3>3. CASE k = Len(e)
      BY <1>2, <3>1, <3>3
    <3>4. CASE k < Len(e)
      BY <1>2, <3>1, <3>2, <3>4
    <3> QED BY <1>2, <3>2, <3>3, <3>4
  <2> QED BY <2>1
<1>4. ASSUME EndsInH(s)
      PROVE  EndsInH(t)
  <2>1. Len(s) \in 1 .. Len(s) /\ s[Len(s)] = "h"
    BY <1>4 DEF EndsInH
  <2>2. Len(s) \in K
    BY <2>1, CharFacts DEF Cleans
  <2>3. Len(e) \in 1 .. Len(e) /\ Len(s) <= e[Len(e)]
    BY <1>3, <2>2
  <2>4. e[Len(e)] = Len(s)
    BY <1>1, <1>2, <2>3
  <2> QED BY <1>1, <2>1, <2>3, <2>4 DEF EndsInH
<1>5. ASSUME EndsInH(t)
      PROVE  EndsInH(s)
  <2> DEFINE p == e[Len(e)]
  <2>1. Len(e) \in 1 .. Len(e) /\ s[p] = "h" /\ p \in 1 .. Len(s) /\ p \in Nat
    BY <1>1, <1>2, <1>5 DEF EndsInH
  <2>2. \A i \in K : i <= p
    BY <1>3
  <2> HIDE DEF p
  <2>3. CASE p = Len(s)
    BY <2>1, <2>3 DEF EndsInH
  <2>4. CASE p < Len(s)
    <3>1. p + 1 \in 1 .. Len(s) /\ p + 1 \notin K
      BY <1>1, <2>1, <2>2, <2>4
    <3>2. p + 2 \in K
      BY <2>1, <3>1, CharFacts, CleansKeeps
    <3> QED BY <2>1, <2>2, <3>2
  <2> QED BY <1>1, <2>1, <2>3, <2>4
<1> QED BY <1>4, <1>5

(* So the two agree.                                                       *)
LEMMA CleansAgree ==
  ASSUME NEW s \in Strings, NEW t, NEW e, NEW K, Cleans(s, t, e, K)
  PROVE  Agree(s, t)
<1>1. /\ Len(s) \in Nat /\ K \in SUBSET (1 .. Len(s)) /\ Lists(e, K)
      /\ t \in Strings /\ Len(t) = Len(e) /\ DOMAIN t = 1 .. Len(e)
      /\ \A k \in 1 .. Len(e) : t[k] = s[e[k]]
      /\ \A i \in 1 .. Len(s) : i \notin K => s[i] \in {CR, LF}
  BY StringFacts DEF Cleans, Thins, Picks
<1>2. /\ Len(e) \in Nat
      /\ \A k \in 1 .. Len(e) : e[k] \in K /\ e[k] \in Nat /\ e[k] \in 1 .. Len(s)
      /\ \A k, l \in 1 .. Len(e) : k < l => e[k] < e[l]
      /\ \A i \in K : \E k \in 1 .. Len(e) : e[k] = i
  BY <1>1, ListFacts DEF Lists
<1>3. Visible(s) = Visible(t)
  BY ThinsVisible DEF Cleans
<1>4. /\ \A k \in 1 .. Len(e) : Prompt(t, k) <=> Prompt(s, e[k])
      /\ \A i : Prompt(s, i) => \E k \in 1 .. Len(e) : e[k] = i
  BY CleansPrompts
<1>5. \A k : Prompt(t, k) => k \in 1 .. Len(e)
  BY <1>1 DEF Prompt
<1>6. PromptAt(s) = 0 <=> PromptAt(t) = 0
  <2>1. (\A i : ~Prompt(s, i)) <=> (\A k : ~Prompt(t, k))
    BY <1>4, <1>5
  <2> QED BY <1>1, <2>1, PromptAtIs
<1>7. ASSUME PromptAt(s) # 0
      PROVE  Visible(BeforePrompt(s)) = Visible(BeforePrompt(t))
  <2> DEFINE p == PromptAt(s)
             q == PromptAt(t)
  <2>1. Prompt(s, p) /\ \A i : Prompt(s, i) => p <= i
    BY <1>7, PromptAtIs
  <2>2. Prompt(t, q) /\ \A k : Prompt(t, k) => q <= k
    BY <1>1, <1>6, <1>7, PromptAtIs
  <2>3. BeforePrompt(s) = SubSeq(s, 1, p - 1) /\ BeforePrompt(t) = SubSeq(t, 1, q - 1)
    BY DEF BeforePrompt
  <2> HIDE DEF p, q
  <2>4. q \in 1 .. Len(e) /\ p \in 1 .. Len(s)
    BY <1>5, <2>1, <2>2 DEF Prompt
  <2>5. e[q] = p
    <3>1. p <= e[q]
      BY <1>4, <2>1, <2>2, <2>4
    <3>2. PICK k \in 1 .. Len(e) : e[k] = p
      BY <1>4, <2>1
    <3>3. q <= k
      BY <1>4, <2>1, <2>2, <3>2
    <3>4. CASE q = k
      BY <3>2, <3>4
    <3>5. CASE q < k
      <4>1. e[q] < e[k] /\ e[q] \in Nat
        BY <1>2, <2>4, <3>5
      <4> QED BY <1>1, <2>4, <3>1, <3>2, <4>1
    <3> QED BY <1>2, <2>4, <3>3, <3>4, <3>5
  <2> DEFINE sp == SubSeq(s, 1, p - 1)
             tp == SubSeq(t, 1, q - 1)
             d  == [k \in 1 .. q - 1 |-> e[k]]
             J  == {e[k] : k \in 1 .. q - 1}
  <2>6. /\ sp \in Strings /\ Len(sp) = p - 1
        /\ \A i \in 1 .. p - 1 : sp[i] = s[i]
    <3>1. 1 \in 1 .. Len(s) + 1 /\ p - 1 \in 0 .. Len(s) /\ p - 1 \in 1 - 1 .. Len(s)
      BY <1>1, <2>4
    <3>2. /\ sp \in Strings /\ Len(sp) = (p - 1) - 1 + 1
          /\ \A i \in 1 .. (p - 1) - 1 + 1 : sp[i] = s[1 + i - 1]
      BY <3>1, PartFacts
    <3> HIDE DEF sp
    <3> QED BY <1>1, <2>4, <3>2
  <2>7. /\ tp \in Strings /\ Len(tp) = q - 1
        /\ \A i \in 1 .. q - 1 : tp[i] = t[i]
    <3>1. 1 \in 1 .. Len(t) + 1 /\ q - 1 \in 0 .. Len(t) /\ q - 1 \in 1 - 1 .. Len(t)
      BY <1>1, <1>2, <2>4
    <3>2. /\ tp \in Strings /\ Len(tp) = (q - 1) - 1 + 1
          /\ \A i \in 1 .. (q - 1) - 1 + 1 : tp[i] = t[1 + i - 1]
      BY <1>1, <3>1, PartFacts
    <3> HIDE DEF tp
    <3> QED BY <1>2, <2>4, <3>2
  <2>8. Lists(d, J)
    <3> DEFINE m == q - 1
    <3>1. m \in 0 .. Len(e) /\ Len(s) \in Nat /\ K \in SUBSET (1 .. Len(s)) /\ Lists(e, K)
      BY <1>1, <1>2, <2>4
    <3>2. Lists([k \in 1 .. m |-> e[k]], {e[k] : k \in 1 .. m})
      <4> HIDE DEF m
      <4> QED BY <3>1, ListPart, Zenon
    <3> QED BY <3>2
  <2>9. \A k \in 1 .. q - 1 : /\ k \in 1 .. Len(e) /\ e[k] \in 1 .. p - 1
                              /\ d[k] = e[k] /\ e[k] \in J
    <3>1. ASSUME NEW k \in 1 .. q - 1
          PROVE  k \in 1 .. Len(e) /\ e[k] \in 1 .. p - 1
      <4>1. k \in 1 .. Len(e) /\ k < q
        BY <1>2, <2>4
      <4>2. e[k] < e[q] /\ e[k] \in 1 .. Len(s)
        BY <1>2, <2>4, <4>1
      <4> QED BY <1>1, <2>4, <2>5, <4>1, <4>2
    <3> QED BY <3>1
  <2>10. Len(d) = q - 1
    BY <1>2, <2>4
  <2>11. \A j \in J : j \in 1 .. p - 1
    BY <2>9
  <2>12. ASSUME NEW i \in 1 .. p - 1, i \notin J
         PROVE  sp[i] \in {CR, LF}
    <3> HIDE DEF sp, tp, d, J
    <3>1. i \in 1 .. Len(s) /\ sp[i] = s[i]
      BY <1>1, <2>4, <2>6
    <3>2. i \notin K
      <4> SUFFICES ASSUME i \in K
                   PROVE  FALSE
        OBVIOUS
      <4>1. PICK k \in 1 .. Len(e) : e[k] = i
        BY <1>2
      <4>2. ~(k >= q)
        <5>1. k > q => e[q] < e[k]
          BY <1>2, <2>4
        <5>2. k = q => e[k] = p
          BY <2>5
        <5> QED BY <1>1, <1>2, <2>4, <2>5, <4>1, <5>1, <5>2
      <4>3. k \in 1 .. q - 1
        BY <1>2, <2>4, <4>2
      <4> QED BY <2>9, <2>12, <4>1, <4>3
    <3> QED BY <1>1, <3>1, <3>2
  <2>13. Picks(tp, sp, d)
    <3> HIDE DEF sp, tp, d, J
    <3>1. \A k \in 1 .. q - 1 : tp[k] = sp[d[k]]
      BY <1>1, <2>6, <2>7, <2>9
    <3> QED BY <2>7, <2>10, <3>1 DEF Picks
  <2>14. Thins(sp, tp, d, J)
    <3> HIDE DEF sp, tp, d, J
    <3> QED BY <2>6, <2>8, <2>11, <2>12, <2>13 DEF Thins
  <2>15. Visible(tp) = Visible(sp)
    <3> HIDE DEF sp, tp, d, J
    <3> QED BY <2>6, <2>14, ThinsVisible
  <2> QED BY <2>3, <2>15
<1> QED BY <1>3, <1>6, <1>7, CleansEnd DEF Agree

(* One substitution, by the places it keeps.                               *)
LEMMA FilterAgrees ==
  ASSUME NEW s \in Strings, NEW K \in SUBSET (1 .. Len(s)),
         \A i \in 1 .. Len(s) :
           i \notin K => s[i] = CR /\ (At(s, i - 1, {CR, LF}) \/ At(s, i + 1, {LF}))
  PROVE  /\ Filter(s, K) \in Strings /\ Len(Filter(s, K)) <= Len(s)
         /\ Agree(s, Filter(s, K))
<1>1. PICK e : Lists(e, K) /\ Picks(Filter(s, K), s, e)
  BY FilterFacts
<1>2. Cleans(s, Filter(s, K), e, K)
  <2>1. \A i \in 1 .. Len(s) : i \notin K => s[i] \in {CR, LF}
    OBVIOUS
  <2> QED BY <1>1, <2>1 DEF Cleans, Thins
<1>3. Agree(s, Filter(s, K))
  BY <1>2, CleansAgree
<1> QED BY <1>3, FilterFacts

(* Cleaning up agrees with the text it cleans, and makes none longer.      *)
LEMMA FixupAgrees ==
  ASSUME NEW s \in Strings
  PROVE  /\ FixupCarriageReturns(s) \in Strings
         /\ Len(FixupCarriageReturns(s)) <= Len(s)
         /\ Agree(s, FixupCarriageReturns(s))
<1>1. ASSUME NEW u \in Strings
      PROVE  /\ EatRepeated(u) \in Strings /\ Len(EatRepeated(u)) <= Len(u)
             /\ Agree(u, EatRepeated(u))
  <2> DEFINE K == {i \in DOMAIN u : ~Repeated(u, i)}
  <2>1. K \in SUBSET (1 .. Len(u)) /\ EatRepeated(u) = Filter(u, K)
    BY StringFacts DEF EatRepeated
  <2>2. \A i \in 1 .. Len(u) :
          i \notin K => u[i] = CR /\ (At(u, i - 1, {CR, LF}) \/ At(u, i + 1, {LF}))
    BY StringFacts DEF Repeated, At
  <2> HIDE DEF K
  <2> QED BY <2>1, <2>2, FilterAgrees
<1>2. ASSUME NEW u \in Strings
      PROVE  /\ EatBeforeLF(u) \in Strings /\ Len(EatBeforeLF(u)) <= Len(u)
             /\ Agree(u, EatBeforeLF(u))
  <2> DEFINE K == {i \in DOMAIN u : ~BeforeLF(u, i)}
  <2>1. K \in SUBSET (1 .. Len(u)) /\ EatBeforeLF(u) = Filter(u, K)
    BY StringFacts DEF EatBeforeLF
  <2>2. \A i \in 1 .. Len(u) :
          i \notin K => u[i] = CR /\ (At(u, i - 1, {CR, LF}) \/ At(u, i + 1, {LF}))
    BY StringFacts DEF BeforeLF, At
  <2> HIDE DEF K
  <2> QED BY <2>1, <2>2, FilterAgrees
<1>3. ASSUME NEW u \in Strings
      PROVE  /\ EatAfterLF(u) \in Strings /\ Len(EatAfterLF(u)) <= Len(u)
             /\ Agree(u, EatAfterLF(u))
  <2> DEFINE K == {i \in DOMAIN u : ~AfterLF(u, i)}
  <2>1. K \in SUBSET (1 .. Len(u)) /\ EatAfterLF(u) = Filter(u, K)
    BY StringFacts DEF EatAfterLF
  <2>2. \A i \in 1 .. Len(u) :
          i \notin K => u[i] = CR /\ (At(u, i - 1, {CR, LF}) \/ At(u, i + 1, {LF}))
    BY StringFacts DEF AfterLF, At
  <2> HIDE DEF K
  <2> QED BY <2>1, <2>2, FilterAgrees
<1> DEFINE u == EatRepeated(s)
           v == EatBeforeLF(u)
           w == EatAfterLF(v)
<1>4. /\ u \in Strings /\ Len(u) <= Len(s) /\ Agree(s, u)
      /\ v \in Strings /\ Len(v) <= Len(u) /\ Agree(u, v)
      /\ w \in Strings /\ Len(w) <= Len(v) /\ Agree(v, w)
  BY <1>1, <1>2, <1>3
<1>5. FixupCarriageReturns(s) = w
  BY DEF FixupCarriageReturns
<1>6. Len(s) \in Nat /\ Len(u) \in Nat /\ Len(v) \in Nat /\ Len(w) \in Nat
  BY <1>4, StringFacts
<1> HIDE DEF u, v, w
<1>7. Agree(s, w)
  BY <1>4, AgreeOn
<1> QED BY <1>4, <1>5, <1>6, <1>7

-----------------------------------------------------------------------------
(* Texts put behind and before others.                                     *)

(* The two parts of a part.                                                *)
LEMMA CutPart ==
  ASSUME NEW s \in Strings, NEW l \in 1 .. Len(s) + 1,
         NEW m \in l - 1 .. Len(s), NEW n \in m .. Len(s)
  PROVE  SubSeq(s, l, n) = SubSeq(s, l, m) \o SubSeq(s, m + 1, n)
<1> DEFINE k == m + 1
<1>1. /\ Len(s) \in Nat /\ k \in 1 .. Len(s) + 1 /\ n \in k - 1 .. Len(s) /\ n \in l - 1 .. Len(s)
      /\ l \in Int /\ m \in Int /\ n \in Int /\ l - 1 <= m /\ m <= n /\ k \in Int
  BY StringFacts
<1> DEFINE a == SubSeq(s, l, m)
           b == SubSeq(s, k, n)
           c == SubSeq(s, l, n)
<1>2. /\ a \in Strings /\ Len(a) = m - l + 1
      /\ \A i \in 1 .. m - l + 1 : a[i] = s[l + i - 1]
  BY PartFacts
<1>3. /\ b \in Strings /\ Len(b) = n - k + 1
      /\ \A i \in 1 .. n - k + 1 : b[i] = s[k + i - 1]
  <2> HIDE DEF k
  <2> QED BY <1>1, PartFacts
<1>4. /\ c \in Strings /\ Len(c) = n - l + 1
      /\ \A i \in 1 .. n - l + 1 : c[i] = s[l + i - 1]
  BY <1>1, PartFacts
<1>5. k = m + 1
  OBVIOUS
<1> HIDE DEF a, b, c, k
<1>6. /\ a \o b \in Strings /\ Len(a \o b) = Len(a) + Len(b)
      /\ \A i \in 1 .. Len(a) : (a \o b)[i] = a[i]
      /\ \A i \in 1 .. Len(b) : (a \o b)[Len(a) + i] = b[i]
  BY <1>2, <1>3, ConcatFacts
<1>7. Len(a \o b) = n - l + 1
  BY <1>1, <1>2, <1>3, <1>5, <1>6
<1>8. ASSUME NEW i \in 1 .. n - l + 1
      PROVE  (a \o b)[i] = c[i]
  <2>0. i <= m - l + 1 \/ i > m - l + 1
    BY <1>1
  <2>1. CASE i <= m - l + 1
    <3>1. i \in 1 .. Len(a) /\ i \in 1 .. m - l + 1
      BY <1>1, <1>2, <2>1
    <3> QED BY <1>2, <1>4, <1>6, <3>1
  <2>2. CASE i > m - l + 1
    <3> DEFINE j == i - (m - l + 1)
    <3>1. /\ j \in 1 .. Len(b) /\ j \in 1 .. n - k + 1
          /\ Len(a) + j = i /\ k + j - 1 = l + i - 1
      BY <1>1, <1>2, <1>3, <1>5, <2>2
    <3> HIDE DEF j
    <3> QED BY <1>3, <1>4, <1>6, <3>1
  <2> QED BY <2>0, <2>1, <2>2
<1>9. a \o b = c
  BY <1>4, <1>6, <1>7, <1>8, SameString
<1> QED BY <1>5, <1>9 DEF a, b, c

(* The beginning of two texts, one behind the other.                       *)
LEMMA BeginningOfConcat ==
  ASSUME NEW a \in Strings, NEW b \in Strings
  PROVE  /\ \A n \in 0 .. Len(a) : SubSeq(a \o b, 1, n) = SubSeq(a, 1, n)
         /\ \A n \in 0 .. Len(b) :
              SubSeq(a \o b, 1, Len(a) + n) = a \o SubSeq(b, 1, n)
<1>1. /\ Len(a) \in Nat /\ Len(b) \in Nat /\ Len(a \o b) = Len(a) + Len(b)
      /\ a \o b \in Strings
      /\ \A i \in 1 .. Len(a) : (a \o b)[i] = a[i]
      /\ \A i \in 1 .. Len(b) : (a \o b)[Len(a) + i] = b[i]
  BY StringFacts, ConcatFacts
<1>2. ASSUME NEW u \in Strings, NEW n \in 0 .. Len(u)
      PROVE  /\ SubSeq(u, 1, n) \in Strings /\ Len(SubSeq(u, 1, n)) = n
             /\ \A i \in 1 .. n : SubSeq(u, 1, n)[i] = u[i]
  <2>1. Len(u) \in Nat /\ n \in Nat /\ 1 \in 1 .. Len(u) + 1 /\ n \in 1 - 1 .. Len(u)
    BY StringFacts
  <2> DEFINE p == SubSeq(u, 1, n)
  <2>2. /\ p \in Strings /\ Len(p) = n - 1 + 1
        /\ \A i \in 1 .. n - 1 + 1 : p[i] = u[1 + i - 1]
    BY <2>1, PartFacts
  <2> HIDE DEF p
  <2>3. p \in Strings /\ Len(p) = n /\ \A i \in 1 .. n : p[i] = u[i]
    BY <2>1, <2>2
  <2> QED BY <2>3 DEF p
<1>3. ASSUME NEW n \in 0 .. Len(a)
      PROVE  SubSeq(a \o b, 1, n) = SubSeq(a, 1, n)
  <2>1. n \in 0 .. Len(a \o b) /\ n \in Nat
    BY <1>1
  <2>2. \A i \in 1 .. n : i \in 1 .. Len(a)
    BY <1>1
  <2>3. \A i \in 1 .. n : SubSeq(a \o b, 1, n)[i] = SubSeq(a, 1, n)[i]
    BY <1>1, <1>2, <2>1, <2>2
  <2> QED BY <1>1, <1>2, <2>1, <2>3, SameString
<1>4. ASSUME NEW n \in 0 .. Len(b)
      PROVE  SubSeq(a \o b, 1, Len(a) + n) = a \o SubSeq(b, 1, n)
  <2> DEFINE q == SubSeq(b, 1, n)
             m == Len(a) + n
             l == SubSeq(a \o b, 1, m)
  <2>1. q \in Strings /\ Len(q) = n /\ (\A i \in 1 .. n : q[i] = b[i])
    BY <1>2
  <2>2. m \in 0 .. Len(a \o b)
    BY <1>1
  <2>3. l \in Strings /\ Len(l) = m /\ \A i \in 1 .. m : l[i] = (a \o b)[i]
    <3> HIDE DEF m
    <3> QED BY <1>1, <1>2, <2>2
  <2>4. m = Len(a) + n
    OBVIOUS
  <2> HIDE DEF q, m, l
  <2>5. /\ a \o q \in Strings /\ Len(a \o q) = m
        /\ \A i \in 1 .. Len(a) : (a \o q)[i] = a[i]
        /\ \A i \in 1 .. n : (a \o q)[Len(a) + i] = q[i]
    BY <2>1, <2>4, ConcatFacts
  <2>6. ASSUME NEW i \in 1 .. m
        PROVE  l[i] = (a \o q)[i]
    <3>0. i <= Len(a) \/ i > Len(a)
      BY <1>1, <2>4
    <3>1. CASE i <= Len(a)
      <4>1. i \in 1 .. Len(a)
        BY <1>1, <3>1
      <4> QED BY <1>1, <2>3, <2>5, <4>1
    <3>2. CASE i > Len(a)
      <4> DEFINE j == i - Len(a)
      <4>1. j \in 1 .. n /\ j \in 1 .. Len(b) /\ Len(a) + j = i
        BY <1>1, <2>4, <3>2
      <4> HIDE DEF j
      <4> QED BY <1>1, <2>1, <2>3, <2>5, <4>1
    <3> QED BY <3>0, <3>1, <3>2
  <2>7. l = a \o q
    BY <2>3, <2>5, <2>6, SameString
  <2> QED BY <2>7 DEF l, m, q
<1> QED BY <1>3, <1>4

(* A text that ends in an "h" is what stands before it, and the "h".       *)
LEMMA LastH ==
  ASSUME NEW a \in Strings, EndsInH(a)
  PROVE  /\ SubSeq(a, 1, Len(a) - 1) \in Strings
         /\ Visible(a) = Append(Visible(SubSeq(a, 1, Len(a) - 1)), "h")
<1> DEFINE n == Len(a)
           m == n - 1
<1>1. n \in Nat /\ n \in 1 .. n /\ a[n] = "h" /\ n = Len(a)
  BY StringFacts DEF EndsInH
<1>2. m \in 0 .. n /\ m + 1 = n /\ m \in 1 - 1 .. n /\ 1 \in 1 .. n + 1
  BY <1>1
<1> HIDE DEF n, m
<1>3. a = SubSeq(a, 1, m) \o SubSeq(a, m + 1, n)
  BY <1>1, <1>2, CutInTwo
<1>4. SubSeq(a, 1, m) \in Strings
  BY <1>1, <1>2, PartFacts
<1>5. SubSeq(a, n, n) \in Strings /\ SubSeq(a, n, n) = <<"h">>
  <2> DEFINE p == SubSeq(a, n, n)
  <2>1. n \in 1 .. Len(a) + 1 /\ n \in n - 1 .. Len(a)
    BY <1>1
  <2>2. p \in Strings /\ Len(p) = n - n + 1 /\ \A i \in 1 .. n - n + 1 : p[i] = a[n + i - 1]
    BY <2>1, PartFacts
  <2> HIDE DEF p
  <2>3. Len(p) = 1 /\ p[1] = "h"
    BY <1>1, <2>2
  <2>4. <<"h">> \in Strings /\ Len(<<"h">>) = 1 /\ <<"h">>[1] = "h"
    BY CharFacts DEF Strings
  <2>5. \A i \in 1 .. Len(p) : p[i] = <<"h">>[i]
    BY <2>3, <2>4
  <2>6. p = <<"h">>
    BY <2>2, <2>3, <2>4, <2>5, SameString
  <2> QED BY <2>2, <2>6 DEF p
<1>6. Visible(<<"h">>) = <<"h">>
  <2>1. <<"h">> \in Strings /\ Len(<<"h">>) = 1 /\ <<"h">>[1] = "h"
    BY CharFacts DEF Strings
  <2> DEFINE v == <<"h">>
             e == <<1>>
             K == VisiblePlaces(v)
  <2>2. K = {1}
    BY <2>1, CharFacts, StringFacts DEF VisiblePlaces
  <2>3. Lists(e, K)
    <3>1. e \in Seq(K) /\ Len(e) = 1 /\ e[1] = 1
      BY <2>2
    <3> HIDE DEF e, K
    <3> QED BY <2>2, <3>1 DEF Lists
  <2>4. Picks(v, v, e)
    <3>1. Len(e) = 1 /\ e[1] = 1
      OBVIOUS
    <3> HIDE DEF e
    <3> QED BY <2>1, <3>1 DEF Picks
  <2>5. v = Filter(v, K)
    <3> HIDE DEF v, e, K
    <3>1. v \in Strings /\ K \in SUBSET (1 .. Len(v))
      BY <2>1, VisibleIs DEF v, K
    <3> QED BY <2>3, <2>4, <3>1, PicksFilter
  <2> QED BY <2>1, <2>5, VisibleIs
<1>7. Visible(a) = Visible(SubSeq(a, 1, m)) \o <<"h">>
  <2>1. a = SubSeq(a, 1, m) \o <<"h">>
    BY <1>2, <1>3, <1>5
  <2>2. <<"h">> \in Strings
    BY <1>5
  <2> QED BY <1>4, <1>6, <2>1, <2>2, VisibleConcat
<1>8. Visible(SubSeq(a, 1, m)) \in Seq(Chars)
  BY <1>4, VisibleIs DEF Strings
<1>9. \A v \in Seq(Chars) : v \o <<"h">> = Append(v, "h")
  OBVIOUS
<1>10. Visible(a) = Append(Visible(SubSeq(a, 1, m)), "h")
  BY <1>7, <1>8, <1>9
<1> QED BY <1>4, <1>10 DEF m, n

(* Texts that agree still do with the same behind them.                    *)
LEMMA AgreeConcat ==
  ASSUME NEW a \in Strings, NEW b \in Strings, NEW c \in Strings,
         PromptAt(a) = 0, Agree(a, b)
  PROVE  Agree(a \o c, b \o c)
<1>1. /\ Visible(a) = Visible(b) /\ (EndsInH(a) <=> EndsInH(b)) /\ PromptAt(b) = 0
      /\ Len(a) \in Nat /\ Len(b) \in Nat /\ Len(c) \in Nat
      /\ a \o c \in Strings /\ b \o c \in Strings
  BY StringFacts, ConcatFacts DEF Agree
<1>2. Visible(a \o c) = Visible(b \o c)
  <2>1. Visible(a \o c) = Visible(a) \o Visible(c)
    BY VisibleConcat
  <2>2. Visible(b \o c) = Visible(b) \o Visible(c)
    BY VisibleConcat
  <2> QED BY <1>1, <2>1, <2>2
<1>3. EndsInH(a \o c) <=> EndsInH(b \o c)
  BY <1>1, EndOfConcat
<1>4. CASE EndsInH(a) /\ BeginsWithHash(c)
  <2>1. /\ PromptAt(a \o c) = Len(a) /\ Len(a) # 0
        /\ PromptAt(b \o c) = Len(b) /\ Len(b) # 0
    BY <1>1, <1>4, PromptBehind
  <2>2. /\ BeforePrompt(a \o c) = SubSeq(a, 1, Len(a) - 1)
        /\ BeforePrompt(b \o c) = SubSeq(b, 1, Len(b) - 1)
    <3>1. Len(a) - 1 \in 0 .. Len(a) /\ Len(b) - 1 \in 0 .. Len(b)
      BY <1>1, <2>1
    <3>2. /\ SubSeq(a \o c, 1, Len(a) - 1) = SubSeq(a, 1, Len(a) - 1)
          /\ SubSeq(b \o c, 1, Len(b) - 1) = SubSeq(b, 1, Len(b) - 1)
      BY <3>1, BeginningOfConcat
    <3> QED BY <2>1, <3>2 DEF BeforePrompt
  <2> DEFINE p == SubSeq(a, 1, Len(a) - 1)
             q == SubSeq(b, 1, Len(b) - 1)
  <2>3. /\ p \in Strings /\ q \in Strings
        /\ Append(Visible(p), "h") = Append(Visible(q), "h")
    BY <1>1, <1>4, LastH
  <2> HIDE DEF p, q
  <2>4. Visible(p) \in Seq(Chars) /\ Visible(q) \in Seq(Chars)
    BY <2>3, VisibleIs DEF Strings
  <2>5. \A v, w \in Seq(Chars) : Append(v, "h") = Append(w, "h") => v = w
    <3> SUFFICES ASSUME NEW v \in Seq(Chars), NEW w \in Seq(Chars),
                        Append(v, "h") = Append(w, "h")
                 PROVE  v = w
      OBVIOUS
    <3>1. v \in Strings /\ w \in Strings
      BY DEF Strings
    <3>2. Len(v) \in Nat /\ Len(w) \in Nat
      OBVIOUS
    <3>3. Len(v) = Len(w)
      <4>1. Len(Append(v, "h")) = Len(v) + 1 /\ Len(Append(w, "h")) = Len(w) + 1
        OBVIOUS
      <4> QED BY <3>2, <4>1
    <3>4. \A i \in 1 .. Len(v) : v[i] = w[i]
      <4>1. \A i \in 1 .. Len(v) : Append(v, "h")[i] = v[i]
        OBVIOUS
      <4>2. \A i \in 1 .. Len(w) : Append(w, "h")[i] = w[i]
        OBVIOUS
      <4> QED BY <3>3, <4>1, <4>2
    <3> QED BY <3>1, <3>3, <3>4, SameString
  <2>6. Visible(p) = Visible(q)
    BY <2>3, <2>4, <2>5
  <2>7. Visible(BeforePrompt(a \o c)) = Visible(BeforePrompt(b \o c))
    BY <2>2, <2>6 DEF p, q
  <2> QED BY <1>2, <1>3, <2>1, <2>7 DEF Agree
<1>5. CASE ~(EndsInH(a) /\ BeginsWithHash(c)) /\ PromptAt(c) = 0
  <2>1. PromptAt(a \o c) = 0 /\ PromptAt(b \o c) = 0
    BY <1>1, <1>5, PromptBehind
  <2> QED BY <1>2, <1>3, <2>1 DEF Agree
<1>6. CASE ~(EndsInH(a) /\ BeginsWithHash(c)) /\ PromptAt(c) # 0
  <2> DEFINE n == PromptAt(c) - 1
  <2>1. /\ PromptAt(a \o c) = Len(a) + PromptAt(c) /\ PromptAt(a \o c) # 0
        /\ PromptAt(b \o c) = Len(b) + PromptAt(c) /\ PromptAt(b \o c) # 0
    BY <1>1, <1>6, PromptBehind
  <2>2. PromptAt(c) \in 0 .. Len(c)
    BY PromptAtIs
  <2>3. /\ n \in 0 .. Len(c) /\ n \in 1 - 1 .. Len(c) /\ 1 \in 1 .. Len(c) + 1
        /\ PromptAt(a \o c) - 1 = Len(a) + n
        /\ PromptAt(b \o c) - 1 = Len(b) + n
    BY <1>1, <1>6, <2>1, <2>2
  <2> HIDE DEF n
  <2>4. SubSeq(c, 1, n) \in Strings
    BY <2>3, PartFacts
  <2>5. /\ BeforePrompt(a \o c) = a \o SubSeq(c, 1, n)
        /\ BeforePrompt(b \o c) = b \o SubSeq(c, 1, n)
    <3>1. SubSeq(a \o c, 1, Len(a) + n) = a \o SubSeq(c, 1, n)
      BY <2>3, BeginningOfConcat
    <3>2. SubSeq(b \o c, 1, Len(b) + n) = b \o SubSeq(c, 1, n)
      BY <2>3, BeginningOfConcat
    <3> QED BY <2>3, <3>1, <3>2 DEF BeforePrompt
  <2>6. Visible(BeforePrompt(a \o c)) = Visible(BeforePrompt(b \o c))
    <3>1. Visible(a \o SubSeq(c, 1, n)) = Visible(a) \o Visible(SubSeq(c, 1, n))
      BY <2>4, VisibleConcat
    <3>2. Visible(b \o SubSeq(c, 1, n)) = Visible(b) \o Visible(SubSeq(c, 1, n))
      BY <2>4, VisibleConcat
    <3> QED BY <1>1, <2>5, <3>1, <3>2
  <2> QED BY <1>2, <1>3, <2>1, <2>6 DEF Agree
<1> QED BY <1>4, <1>5, <1>6

(* ... and with the same before them, unless that could join a prompt.     *)
LEMMA AgreePrefix ==
  ASSUME NEW a \in Strings, NEW s \in Strings, NEW t \in Strings,
         PromptAt(a) = 0, ~EndsInH(a), Agree(s, t)
  PROVE  Agree(a \o s, a \o t)
<1>1. /\ Visible(s) = Visible(t) /\ (EndsInH(s) <=> EndsInH(t))
      /\ (PromptAt(s) = 0 <=> PromptAt(t) = 0)
      /\ a \o s \in Strings /\ a \o t \in Strings
      /\ Len(a) \in Nat /\ Len(s) \in Nat /\ Len(t) \in Nat
  BY StringFacts, ConcatFacts DEF Agree
<1>2. Visible(a \o s) = Visible(a \o t)
  <2>1. Visible(a \o s) = Visible(a) \o Visible(s)
    BY VisibleConcat
  <2>2. Visible(a \o t) = Visible(a) \o Visible(t)
    BY VisibleConcat
  <2> QED BY <1>1, <2>1, <2>2
<1>3. EndsInH(a \o s) <=> EndsInH(a \o t)
  <2>1. ASSUME NEW u \in Strings
        PROVE  EndsInH(a \o u) <=> EndsInH(u)
    <3>1. Len(u) = 0 => ~EndsInH(u)
      BY DEF EndsInH
    <3> QED BY <3>1, EndOfConcat
  <2> QED BY <1>1, <2>1
<1>4. CASE PromptAt(s) = 0
  <2>1. PromptAt(a \o s) = 0 /\ PromptAt(a \o t) = 0
    BY <1>1, <1>4, PromptBehind
  <2> QED BY <1>2, <1>3, <2>1 DEF Agree
<1>5. CASE PromptAt(s) # 0
  <2>1. ASSUME NEW u \in Strings, PromptAt(u) # 0
        PROVE  /\ PromptAt(a \o u) # 0 /\ BeforePrompt(u) \in Strings
               /\ BeforePrompt(a \o u) = a \o BeforePrompt(u)
    <3> DEFINE n == PromptAt(u) - 1
    <3>1. PromptAt(a \o u) = Len(a) + PromptAt(u) /\ PromptAt(a \o u) # 0
      BY <2>1, PromptBehind
    <3>2. PromptAt(u) \in 0 .. Len(u) /\ Len(u) \in Nat
      BY PromptAtIs, StringFacts
    <3>3. /\ n \in 0 .. Len(u) /\ n \in 1 - 1 .. Len(u) /\ 1 \in 1 .. Len(u) + 1
          /\ PromptAt(a \o u) - 1 = Len(a) + n
      BY <1>1, <2>1, <3>1, <3>2
    <3>4. BeforePrompt(u) = SubSeq(u, 1, n)
      BY DEF BeforePrompt
    <3> HIDE DEF n
    <3>5. SubSeq(u, 1, n) \in Strings
      BY <3>3, PartFacts
    <3>6. BeforePrompt(a \o u) = a \o SubSeq(u, 1, n)
      <4>1. SubSeq(a \o u, 1, Len(a) + n) = a \o SubSeq(u, 1, n)
        BY <3>3, BeginningOfConcat
      <4> QED BY <3>3, <4>1 DEF BeforePrompt
    <3> QED BY <3>1, <3>4, <3>5, <3>6
  <2>2. Visible(BeforePrompt(s)) = Visible(BeforePrompt(t))
    BY <1>5 DEF Agree
  <2>3. Visible(BeforePrompt(a \o s)) = Visible(BeforePrompt(a \o t))
    <3>1. /\ Visible(BeforePrompt(a \o s)) = Visible(a) \o Visible(BeforePrompt(s))
          /\ Visible(BeforePrompt(a \o t)) = Visible(a) \o Visible(BeforePrompt(t))
      <4>1. \A v \in Strings : Visible(a \o v) = Visible(a) \o Visible(v)
        BY VisibleConcat
      <4> QED BY <1>1, <1>5, <2>1, <4>1
    <3> QED BY <2>2, <3>1
  <2> QED BY <1>1, <1>2, <1>3, <1>5, <2>1, <2>3 DEF Agree
<1> QED BY <1>4, <1>5

-----------------------------------------------------------------------------
(* Lines.                                                                  *)

(* Join(lines) unfolds to a function on 0 .. Len(lines).                   *)
LEMMA JoinUnfolds ==
  ASSUME NEW lines, Len(lines) \in Nat
  PROVE  \E u : /\ Join(lines) = u[Len(lines)]
                /\ u[0] = <<>>
                /\ \A i \in 1 .. Len(lines) :
                     u[i] = IF i = 1 THEN lines[1] ELSE u[i - 1] \o <<LF>> \o lines[i]
<1> DEFINE F(g, i) == IF i = 0 THEN <<>>
                      ELSE IF i = 1 THEN lines[1]
                      ELSE g[i - 1] \o <<LF>> \o lines[i]
           n == Len(lines)
           Eq(m, g) == g = [i \in 0 .. m |-> F(g, i)]
           T == {m \in Nat : \E g : Eq(m, g)}
<1>1. ASSUME NEW g, NEW h, NEW i \in Nat, i # 0 => g[i - 1] = h[i - 1]
      PROVE  F(g, i) = F(h, i)
  BY <1>1
<1>2. \A g : F(g, 0) = <<>>
  OBVIOUS
<1>3. \A g, i : i # 0 => F(g, i) = IF i = 1 THEN lines[1] ELSE g[i - 1] \o <<LF>> \o lines[i]
  OBVIOUS
<1>4. Join(lines) = (CHOOSE g : Eq(n, g))[n]
  BY DEF Join
<1>n. n \in Nat /\ n = Len(lines)
  OBVIOUS
<1> HIDE DEF F, n
<1>5. 0 \in T
  <2> DEFINE g == [i \in 0 .. 0 |-> <<>>]
  <2>1. \A i \in 0 .. 0 : F(g, i) = <<>>
    BY <1>2
  <2>2. Eq(0, g)
    BY <2>1
  <2> QED BY <2>2
<1>6. ASSUME NEW m \in T
      PROVE  m + 1 \in T
  <2>1. PICK g : Eq(m, g)
    OBVIOUS
  <2> DEFINE h == [i \in 0 .. (m + 1) |-> IF i = m + 1 THEN F(g, m + 1) ELSE g[i]]
  <2>2. m \in Nat
    OBVIOUS
  <2>3. ASSUME NEW i \in 0 .. (m + 1)
        PROVE  h[i] = F(h, i)
    <3>1. i # 0 => g[i - 1] = h[i - 1]
      BY <2>2
    <3>2. F(g, i) = F(h, i)
      <4> HIDE DEF h
      <4> QED BY <1>1, <3>1
    <3>3. h[i] = F(g, i)
      <4>1. CASE i = m + 1
        BY <4>1
      <4>2. CASE i # m + 1
        <5>1. i \in 0 .. m
          BY <2>2, <4>2
        <5>2. g[i] = F(g, i)
          BY <2>1, <5>1
        <5> QED BY <4>2, <5>2
      <4> QED BY <4>1, <4>2
    <3> QED BY <3>2, <3>3
  <2>4. h = [i \in 0 .. (m + 1) |-> h[i]]
    OBVIOUS
  <2> HIDE DEF h
  <2>5. Eq(m + 1, h)
    BY <2>3, <2>4
  <2> HIDE DEF Eq
  <2> QED BY <2>2, <2>5
<1>7. T \subseteq Nat
  OBVIOUS
<1> HIDE DEF T
<1>8. n \in T
  BY <1>n, <1>5, <1>6, <1>7, NatSetInduction
<1> DEFINE u == CHOOSE g : Eq(n, g)
<1>9. Eq(n, u)
  <2>1. \E g : Eq(n, g)
    BY <1>8 DEF T
  <2> HIDE DEF Eq
  <2> QED BY <2>1
<1>10. Join(lines) = u[n]
  BY <1>4
<1>11. \A i \in 0 .. n : u[i] = F(u, i)
  <2> HIDE DEF u
  <2> QED BY <1>9
<1> HIDE DEF u, Eq
<1>12. u[0] = <<>>
  BY <1>n, <1>2, <1>11
<1>13. \A i \in 1 .. n : u[i] = IF i = 1 THEN lines[1] ELSE u[i - 1] \o <<LF>> \o lines[i]
  <2>1. \A i \in 1 .. n : i \in 0 .. n /\ i # 0
    OBVIOUS
  <2> QED BY <1>3, <1>11, <2>1
<1> QED BY <1>n, <1>10, <1>12, <1>13

(* Where the line that starts at i ends.                                   *)
LEMMA LineEndIs ==
  ASSUME NEW s \in Strings, NEW i \in 1 .. Len(s)
  PROVE  /\ LineEnd(s, i) \in i .. Len(s) + 1
         /\ \A j \in i .. LineEnd(s, i) - 1 : j \in 1 .. Len(s) /\ s[j] \notin {CR, LF}
         /\ LineEnd(s, i) <= Len(s) => s[LineEnd(s, i)] \in {CR, LF}
<1> DEFINE K == {j \in i .. Len(s) + 1 : j \in DOMAIN s => s[j] \in {CR, LF}}
<1>1. Len(s) \in Nat /\ DOMAIN s = 1 .. Len(s) /\ i \in Nat /\ i >= 1 /\ i <= Len(s)
  BY StringFacts
<1>2. LineEnd(s, i) = Min(K)
  BY DEF LineEnd
<1>3. Len(s) + 1 \in K
  BY <1>1
<1>4. K \in SUBSET Nat
  BY <1>1
<1>5. \E x \in K : \A y \in K : x <= y
  <2> HIDE DEF K
  <2> QED BY <1>3, <1>4, LeastExists
<1>6. Min(K) \in K /\ \A y \in K : Min(K) <= y
  <2> HIDE DEF K
  <2> QED BY <1>5 DEF Min
<1> DEFINE m == Min(K)
<1>7. m \in i .. Len(s) + 1 /\ (m \in 1 .. Len(s) => s[m] \in {CR, LF})
  BY <1>1, <1>6
<1>8. ASSUME NEW j \in i .. m - 1
      PROVE  j \in 1 .. Len(s) /\ s[j] \notin {CR, LF}
  <2>1. j \in i .. Len(s) + 1 /\ j < m /\ j \in 1 .. Len(s)
    BY <1>1, <1>7
  <2>2. j \notin K
    BY <1>1, <1>4, <1>6, <2>1
  <2> QED BY <1>1, <2>1, <2>2
<1> HIDE DEF m, K
<1>9. m <= Len(s) => m \in 1 .. Len(s)
  BY <1>1, <1>7
<1> QED BY <1>2, <1>7, <1>8, <1>9 DEF m

(* Where the line behind the k-th would start.                             *)
NextStart(s, e, k) == IF k < Len(e) THEN e[k + 1] ELSE Len(s) + 1

(* Between two starts, there is a line and what ends it.                   *)
LEMMA LineFacts ==
  ASSUME NEW s \in Strings, NEW e, Lists(e, Starts(s)), NEW k \in 1 .. Len(e)
  PROVE  /\ e[k] \in 1 .. Len(s)
         /\ LineEnd(s, e[k]) \in e[k] .. Len(s) + 1
         /\ NextStart(s, e, k) \in e[k] + 1 .. Len(s) + 1
         /\ LineEnd(s, e[k]) <= NextStart(s, e, k)
         /\ k < Len(e) => LineEnd(s, e[k]) < NextStart(s, e, k)
         /\ \A j \in e[k] .. LineEnd(s, e[k]) - 1 : j \in 1 .. Len(s) /\ s[j] \notin {CR, LF}
         /\ \A j \in LineEnd(s, e[k]) .. NextStart(s, e, k) - 1 :
              j \in 1 .. Len(s) /\ s[j] \in {CR, LF}
<1> DEFINE i == e[k]
           le == LineEnd(s, e[k])
           nx == NextStart(s, e, k)
<1>1. /\ Len(s) \in Nat /\ DOMAIN s = 1 .. Len(s)
      /\ Starts(s) \in SUBSET (1 .. Len(s))
  BY StringFacts DEF Starts
<1>2. /\ Len(e) \in Nat
      /\ \A l \in 1 .. Len(e) : e[l] \in Starts(s) /\ e[l] \in 1 .. Len(s) /\ e[l] \in Nat
      /\ \A l, m \in 1 .. Len(e) : l < m => e[l] < e[m]
      /\ \A j \in Starts(s) : \E l \in 1 .. Len(e) : e[l] = j
  BY <1>1, ListFacts DEF Lists
<1>3. /\ le \in i .. Len(s) + 1
      /\ \A j \in i .. le - 1 : j \in 1 .. Len(s) /\ s[j] \notin {CR, LF}
      /\ le <= Len(s) => s[le] \in {CR, LF}
  BY <1>2, LineEndIs
<1>4. /\ k < Len(e) => k + 1 \in 1 .. Len(e) /\ nx = e[k + 1]
      /\ ~(k < Len(e)) => nx = Len(s) + 1 /\ k = Len(e)
  BY <1>2 DEF NextStart
<1>5. nx \in i + 1 .. Len(s) + 1 /\ i \in 1 .. Len(s)
  <2>1. CASE k < Len(e)
    <3>1. e[k] < e[k + 1] /\ e[k + 1] \in 1 .. Len(s) /\ e[k] \in 1 .. Len(s)
      BY <1>2, <1>4, <2>1
    <3> QED BY <1>1, <1>4, <2>1, <3>1
  <2>2. CASE ~(k < Len(e))
    BY <1>1, <1>2, <1>4, <2>2
  <2> QED BY <2>1, <2>2
(* No line starts in between.                                              *)
<1>6. \A j \in Starts(s) : i < j => nx <= j
  <2>1. ASSUME NEW j \in Starts(s), i < j
        PROVE  nx <= j
    <3>1. PICK l \in 1 .. Len(e) : e[l] = j
      BY <1>2
    <3>2. k < l
      <4>1. l < k => e[l] < e[k]
        BY <1>2
      <4>2. e[l] \in Nat /\ e[k] \in Nat
        BY <1>2
      <4> QED BY <1>2, <2>1, <3>1, <4>1, <4>2
    <3>3. k < Len(e) /\ nx = e[k + 1] /\ k + 1 \in 1 .. Len(e)
      BY <1>2, <1>4, <3>2
    <3>4. k + 1 = l \/ k + 1 < l
      BY <1>2, <3>2
    <3> QED BY <1>1, <1>2, <1>5, <3>1, <3>3, <3>4
  <2> QED BY <2>1
<1> HIDE DEF i, le, nx
<1>7. \A j \in 1 .. Len(s) : i <= j /\ EndsLine(s, j) /\ j + 1 <= Len(s) => nx <= j + 1
  <2>1. ASSUME NEW j \in 1 .. Len(s), i <= j, EndsLine(s, j), j + 1 <= Len(s)
        PROVE  nx <= j + 1
    <3> DEFINE m == j + 1
    <3>1. m \in 1 .. Len(s) /\ m - 1 = j /\ i < m
      BY <1>1, <1>5, <2>1
    <3> HIDE DEF m
    <3>2. m \in Starts(s)
      BY <1>1, <2>1, <3>1 DEF Starts
    <3> QED BY <1>6, <3>1, <3>2 DEF m
  <2> QED BY <2>1
<1>8. k < Len(e) => le < nx
  <2>1. ASSUME k < Len(e)
        PROVE  le < nx
    <3> DEFINE j == nx - 1
    <3>1. nx \in Starts(s) /\ nx # 1
      <4>1. nx = e[k + 1] /\ k + 1 \in 1 .. Len(e)
        BY <1>4, <2>1 DEF nx
      <4> QED BY <1>1, <1>2, <1>5, <4>1
    <3>2. EndsLine(s, j) /\ j \in 1 .. Len(s) /\ i <= j
      BY <1>1, <1>5, <3>1 DEF Starts
    <3>3. s[j] \in {CR, LF}
      BY <3>2 DEF EndsLine
    <3> HIDE DEF j
    <3>4. ~(j < le)
      <4>1. j < le => j \in i .. le - 1
        BY <1>1, <1>3, <1>5, <3>2
      <4> QED BY <1>3, <3>3, <4>1
    <3> QED BY <1>1, <1>3, <1>5, <3>2, <3>4 DEF j
  <2> QED BY <2>1
<1>9. le <= nx
  <2>1. CASE k < Len(e)
    BY <1>1, <1>3, <1>5, <1>8, <2>1
  <2>2. CASE ~(k < Len(e))
    <3>1. nx = Len(s) + 1
      BY <1>4, <2>2 DEF nx
    <3> QED BY <1>1, <1>3, <1>5, <3>1
  <2> QED BY <2>1, <2>2
<1>10. ASSUME NEW j \in le .. nx - 1
       PROVE  j \in 1 .. Len(s) /\ s[j] \in {CR, LF}
  <2>1. /\ j \in 1 .. Len(s) /\ le \in 1 .. Len(s) /\ le <= j /\ j < nx
        /\ i <= le /\ nx <= Len(s) + 1
    BY <1>1, <1>3, <1>5
  <2>2. s[le] \in {CR, LF}
    BY <1>3, <2>1
  <2>3. CASE EndsLine(s, le)
    <3>1. le + 1 <= Len(s) => nx <= le + 1
      BY <1>7, <2>1, <2>3
    <3>2. le = j
      BY <1>1, <1>5, <2>1, <3>1
    <3> QED BY <2>1, <2>2, <3>2
  <2>4. CASE ~EndsLine(s, le)
    <3> DEFINE m == le + 1
    <3>1. s[le] = CR /\ m \in 1 .. Len(s) /\ s[m] = LF
      BY <1>1, <2>2, <2>4 DEF EndsLine, At
    <3>2. EndsLine(s, m)
      BY <3>1 DEF EndsLine
    <3>3. i <= m /\ m = le + 1
      BY <1>1, <1>5, <2>1
    <3> HIDE DEF m
    <3>4. m + 1 <= Len(s) => nx <= m + 1
      BY <1>7, <3>1, <3>2, <3>3
    <3>5. j = le \/ j = m
      BY <1>1, <1>5, <2>1, <3>1, <3>3, <3>4
    <3> QED BY <2>1, <2>2, <3>1, <3>5
  <2> QED BY <2>3, <2>4
<1> QED BY <1>3, <1>5, <1>8, <1>9, <1>10 DEF i, le, nx

(* The first line starts the text, and every place is of some line.        *)
LEMMA LinesCover ==
  ASSUME NEW s \in Strings, NEW e, Lists(e, Starts(s))
  PROVE  /\ Len(e) \in Nat
         /\ Len(s) # 0 => 1 \in 1 .. Len(e) /\ e[1] = 1
         /\ Len(e) # 0 => e[1] = 1
         /\ \A i \in 1 .. Len(s) :
              \E k \in 1 .. Len(e) : e[k] <= i /\ i < NextStart(s, e, k)
<1>1. /\ Len(s) \in Nat /\ DOMAIN s = 1 .. Len(s)
      /\ Starts(s) \in SUBSET (1 .. Len(s))
  BY StringFacts DEF Starts
<1>2. /\ Len(e) \in Nat
      /\ \A l \in 1 .. Len(e) : e[l] \in Starts(s) /\ e[l] \in 1 .. Len(s) /\ e[l] \in Nat
      /\ \A l, m \in 1 .. Len(e) : l < m => e[l] < e[m]
      /\ \A j \in Starts(s) : \E l \in 1 .. Len(e) : e[l] = j
  BY <1>1, ListFacts DEF Lists
<1>3. ASSUME Len(s) # 0
      PROVE  1 \in 1 .. Len(e) /\ e[1] = 1
  <2>1. 1 \in Starts(s)
    BY <1>1, <1>3 DEF Starts
  <2>2. PICK l \in 1 .. Len(e) : e[l] = 1
    BY <1>2, <2>1
  <2>3. 1 \in 1 .. Len(e)
    BY <1>2, <2>2
  <2>4. ~(1 < l)
    <3>1. 1 < l => e[1] < e[l]
      BY <1>2, <2>3
    <3> QED BY <1>1, <1>2, <2>2, <2>3, <3>1
  <2> QED BY <1>2, <2>2, <2>3, <2>4
<1>4. Len(e) # 0 => e[1] = 1
  <2>1. Len(e) # 0 => 1 \in 1 .. Len(e)
    BY <1>2
  <2>2. Len(e) # 0 => Len(s) # 0
    BY <1>1, <1>2, <2>1
  <2> QED BY <1>3, <2>2
<1>5. ASSUME NEW i \in 1 .. Len(s)
      PROVE  \E k \in 1 .. Len(e) : e[k] <= i /\ i < NextStart(s, e, k)
  <2> DEFINE K == {k \in 1 .. Len(e) : e[k] <= i}
             m == Greatest(K)
  <2>1. 1 \in K
    <3>1. Len(s) # 0
      BY <1>1
    <3> QED BY <1>3, <3>1
  <2>2. K \in SUBSET (1 .. Len(e))
    OBVIOUS
  <2>3. m \in K /\ \A k \in K : k <= m
    <3> HIDE DEF K
    <3> QED BY <1>2, <2>1, <2>2, GreatestIs
  <2>4. m \in 1 .. Len(e) /\ e[m] <= i
    BY <2>3
  <2>5. i < NextStart(s, e, m)
    <3>1. CASE m < Len(e)
      <4>1. m + 1 \in 1 .. Len(e) /\ m + 1 > m
        BY <1>2, <2>4, <3>1
      <4>2. m + 1 \notin K
        BY <1>2, <2>3, <2>4, <4>1
      <4>3. ~(e[m + 1] <= i) /\ e[m + 1] \in Nat
        BY <1>2, <4>1, <4>2
      <4> QED BY <1>1, <3>1, <4>3 DEF NextStart
    <3>2. CASE ~(m < Len(e))
      BY <1>1, <3>2 DEF NextStart
    <3> QED BY <3>1, <3>2
  <2> HIDE DEF m, K
  <2> QED BY <2>4, <2>5
<1> QED BY <1>2, <1>3, <1>4, <1>5

(* The lines of a text, by a list of their starts.                         *)
LEMMA SplitLinesIs ==
  ASSUME NEW s \in Strings
  PROVE  \E e : /\ Lists(e, Starts(s)) /\ Len(e) \in Nat
                /\ SplitLines(s) = [k \in 1 .. Len(e) |-> LineAt(s, e[k])]
                /\ DOMAIN SplitLines(s) = 1 .. Len(e)
<1> DEFINE e == InOrder(Starts(s), Len(s))
<1>1. Len(s) \in Nat /\ Starts(s) \in SUBSET (1 .. Len(s))
  BY StringFacts DEF Starts
<1>2. Lists(e, Starts(s))
  BY <1>1, InOrderLists
<1>3. SplitLines(s) = [k \in DOMAIN e |-> LineAt(s, e[k])]
  BY DEF SplitLines
<1> HIDE DEF e
<1>4. DOMAIN e = 1 .. Len(e) /\ Len(e) \in Nat
  BY <1>1, <1>2, ListFacts
<1> QED BY <1>2, <1>3, <1>4

(* What is in the k-th line.                                               *)
LEMMA LineIs ==
  ASSUME NEW s \in Strings, NEW e, Lists(e, Starts(s)), NEW k \in 1 .. Len(e)
  PROVE  /\ LineAt(s, e[k]) \in Strings
         /\ Len(LineAt(s, e[k])) = LineEnd(s, e[k]) - e[k]
         /\ LineAt(s, e[k]) = SubSeq(s, e[k], LineEnd(s, e[k]) - 1)
         /\ \A i \in 1 .. LineEnd(s, e[k]) - e[k] : LineAt(s, e[k])[i] = s[e[k] + i - 1]
<1> DEFINE i  == e[k]
           le == LineEnd(s, i)
           n  == le - 1
           l  == SubSeq(s, i, n)
<1>1. Len(s) \in Nat /\ i \in 1 .. Len(s) /\ le \in i .. Len(s) + 1
  BY StringFacts, LineFacts
<1>2. LineAt(s, i) = l
  BY DEF LineAt
<1> HIDE DEF i, le
<1>3. i \in 1 .. Len(s) + 1 /\ n \in i - 1 .. Len(s) /\ n - i + 1 = le - i
  BY <1>1
<1> HIDE DEF n
<1>4. l \in Strings /\ Len(l) = n - i + 1 /\ \A j \in 1 .. n - i + 1 : l[j] = s[i + j - 1]
  BY <1>3, PartFacts
<1> HIDE DEF l
<1>5. l \in Strings /\ Len(l) = le - i /\ \A j \in 1 .. le - i : l[j] = s[i + j - 1]
  BY <1>3, <1>4
<1> QED BY <1>2, <1>5 DEF i, le, n, l

(* The prompts of a line are those of the text.                            *)
LEMMA PromptInLine ==
  ASSUME NEW s \in Strings, NEW e, Lists(e, Starts(s)), NEW k \in 1 .. Len(e)
  PROVE  /\ \A i : Prompt(LineAt(s, e[k]), i) =>
                     /\ i \in Nat /\ i >= 1 /\ Prompt(s, e[k] + i - 1)
                     /\ e[k] + i - 1 < NextStart(s, e, k)
         /\ \A q : Prompt(s, q) /\ e[k] <= q /\ q < NextStart(s, e, k) =>
                     Prompt(LineAt(s, e[k]), q - e[k] + 1)
<1> DEFINE x  == e[k]
           le == LineEnd(s, x)
           nx == NextStart(s, e, k)
           l  == LineAt(s, x)
<1>1. /\ Len(s) \in Nat /\ x \in 1 .. Len(s) /\ le \in x .. Len(s) + 1
      /\ nx \in x + 1 .. Len(s) + 1 /\ le <= nx
      /\ \A j \in x .. le - 1 : j \in 1 .. Len(s) /\ s[j] \notin {CR, LF}
      /\ \A j \in le .. nx - 1 : j \in 1 .. Len(s) /\ s[j] \in {CR, LF}
  BY StringFacts, LineFacts
<1>2. /\ l \in Strings /\ Len(l) = le - x
      /\ \A i \in 1 .. le - x : l[i] = s[x + i - 1]
  BY LineIs
<1>3. le <= Len(s) => s[le] \in {CR, LF}
  BY <1>1, LineEndIs
<1> HIDE DEF x, le, nx, l
<1>4. ASSUME NEW i, Prompt(l, i)
      PROVE  i \in Nat /\ i >= 1 /\ Prompt(s, x + i - 1) /\ x + i - 1 < nx
  <2>1. i \in 1 .. le - x /\ i + 1 \in 1 .. le - x /\ l[i] = "h" /\ l[i + 1] = "#"
    BY <1>2, <1>4 DEF Prompt
  <2> DEFINE j == i + 1
             q == x + i - 1
  <2>2. l[j] = s[x + j - 1] /\ l[i] = s[q]
    <3>1. j \in 1 .. le - x
      BY <2>1
    <3> HIDE DEF j
    <3> QED BY <1>2, <2>1, <3>1
  <2>3. x + j - 1 = q + 1 /\ q \in 1 .. Len(s) /\ q + 1 \in 1 .. Len(s) /\ q < nx
    BY <1>1, <2>1
  <2>4. s[q] = "h" /\ s[q + 1] = "#"
    BY <2>1, <2>2, <2>3
  <2> QED BY <2>1, <2>3, <2>4 DEF Prompt
<1>5. ASSUME NEW q, Prompt(s, q), x <= q, q < nx
      PROVE  Prompt(l, q - x + 1)
  <2>1. q \in 1 .. Len(s) /\ q + 1 \in 1 .. Len(s) /\ s[q] = "h" /\ s[q + 1] = "#"
    BY <1>5 DEF Prompt
  <2>2. s[q] \notin {CR, LF} /\ s[q + 1] \notin {CR, LF}
    BY <2>1, CharFacts
  <2>3. ~(q \in le .. nx - 1)
    BY <1>1, <2>2
  <2>4. q < le
    BY <1>1, <1>5, <2>1, <2>3
  <2>5. q + 1 # le
    BY <1>3, <2>1, <2>2
  <2> DEFINE i == q - x + 1
             j == i + 1
  <2>6. /\ i \in 1 .. le - x /\ j \in 1 .. le - x /\ x + i - 1 = q /\ x + j - 1 = q + 1
    BY <1>1, <1>5, <2>1, <2>4, <2>5
  <2>7. j = i + 1
    OBVIOUS
  <2> HIDE DEF i, j
  <2>8. l[i] = "h" /\ l[j] = "#"
    BY <1>2, <2>1, <2>6
  <2>9. Prompt(l, i)
    BY <1>2, <2>6, <2>7, <2>8 DEF Prompt
  <2> QED BY <2>9 DEF i
<1> QED BY <1>4, <1>5 DEF x, le, nx, l

(* Starts are in order.                                                    *)
LEMMA StartsOrdered ==
  ASSUME NEW s \in Strings, NEW e, Lists(e, Starts(s)),
         NEW k \in 1 .. Len(e), NEW l \in 1 .. Len(e), k < l
  PROVE  NextStart(s, e, k) = e[k + 1] /\ k + 1 \in 1 .. Len(e) /\ e[k + 1] <= e[l]
<1>1. Len(s) \in Nat /\ Starts(s) \in SUBSET (1 .. Len(s))
  BY StringFacts DEF Starts
<1>2. /\ Len(e) \in Nat
      /\ \A m \in 1 .. Len(e) : e[m] \in Nat
      /\ \A m, n \in 1 .. Len(e) : m < n => e[m] < e[n]
  BY <1>1, ListFacts DEF Lists
<1>3. k < Len(e) /\ k + 1 \in 1 .. Len(e) /\ (k + 1 = l \/ k + 1 < l)
  BY <1>2
<1>4. e[k + 1] <= e[l]
  <2>1. CASE k + 1 = l
    BY <1>2, <2>1
  <2>2. CASE k + 1 < l
    BY <1>2, <1>3, <2>2
  <2> QED BY <1>3, <2>1, <2>2
<1> QED BY <1>3, <1>4 DEF NextStart

(* The first line that has a prompt, as _match_lines finds it.             *)
Hit(lines) == Least({k \in DOMAIN lines : PromptAt(lines[k]) # 0})

(* The first line with a prompt has the text's first prompt.               *)
LEMMA HitIs ==
  ASSUME NEW s \in Strings, NEW e, Lists(e, Starts(s)), NEW lines, DOMAIN lines = 1 .. Len(e),
         \A k \in 1 .. Len(e) : lines[k] = LineAt(s, e[k])
  PROVE  /\ Hit(lines) = 0 <=> PromptAt(s) = 0
         /\ Hit(lines) # 0 => /\ Hit(lines) \in 1 .. Len(e)
                              /\ PromptAt(lines[Hit(lines)]) = PromptAt(s) - e[Hit(lines)] + 1
                              /\ e[Hit(lines)] <= PromptAt(s)
<1> DEFINE K == {k \in 1 .. Len(e) : PromptAt(lines[k]) # 0}
           n == Hit(lines)
           q == PromptAt(s)
<1>1. /\ Len(s) \in Nat /\ Len(e) \in Nat
      /\ \A k \in 1 .. Len(e) : /\ lines[k] \in Strings /\ lines[k] = LineAt(s, e[k])
                                /\ e[k] \in 1 .. Len(s)
                                /\ NextStart(s, e, k) \in e[k] + 1 .. Len(s) + 1
  <2>1. Len(s) \in Nat /\ Len(e) \in Nat
    BY StringFacts, LinesCover
  <2>2. ASSUME NEW k \in 1 .. Len(e)
        PROVE  /\ LineAt(s, e[k]) \in Strings /\ e[k] \in 1 .. Len(s)
               /\ NextStart(s, e, k) \in e[k] + 1 .. Len(s) + 1
    BY LineFacts, LineIs
  <2> QED BY <2>1, <2>2
<1>2. /\ n = 0 <=> K = {}
      /\ K # {} => n \in K /\ \A k \in K : n <= k
  <2>1. n = Least(K)
    BY DEF Hit
  <2>2. K \in SUBSET (Nat \ {0})
    BY <1>1
  <2> HIDE DEF K, n
  <2> QED BY <2>1, <2>2, LeastIs
<1>3. \A k \in 1 .. Len(e) :
        PromptAt(lines[k]) # 0 =>
          LET p == PromptAt(lines[k])
          IN  /\ p \in Nat /\ p >= 1 /\ Prompt(s, e[k] + p - 1)
              /\ e[k] + p - 1 < NextStart(s, e, k)
              /\ \A i : Prompt(lines[k], i) => p <= i
  <2>1. ASSUME NEW k \in 1 .. Len(e), PromptAt(lines[k]) # 0
        PROVE  LET p == PromptAt(lines[k])
               IN  /\ p \in Nat /\ p >= 1 /\ Prompt(s, e[k] + p - 1)
                   /\ e[k] + p - 1 < NextStart(s, e, k)
                   /\ \A i : Prompt(lines[k], i) => p <= i
    <3> DEFINE p == PromptAt(lines[k])
    <3>1. Prompt(lines[k], p) /\ \A i : Prompt(lines[k], i) => p <= i
      BY <1>1, <2>1, PromptAtIs
    <3>2. Prompt(LineAt(s, e[k]), p)
      BY <1>1, <3>1
    <3> HIDE DEF p
    <3>3. p \in Nat /\ p >= 1 /\ Prompt(s, e[k] + p - 1) /\ e[k] + p - 1 < NextStart(s, e, k)
      BY <3>2, PromptInLine
    <3> QED BY <3>1, <3>3 DEF p
  <2> QED BY <2>1
<1>4. ASSUME K = {}
      PROVE  q = 0
  <2> SUFFICES ASSUME q # 0
               PROVE  FALSE
    OBVIOUS
  <2>1. Prompt(s, q)
    BY PromptAtIs
  <2> HIDE DEF q
  <2>2. q \in 1 .. Len(s)
    BY <2>1 DEF Prompt
  <2>3. PICK k \in 1 .. Len(e) : e[k] <= q /\ q < NextStart(s, e, k)
    BY <2>2, LinesCover
  <2>4. Prompt(lines[k], q - e[k] + 1)
    BY <1>1, <2>1, <2>3, PromptInLine
  <2>5. PromptAt(lines[k]) # 0
    BY <1>1, <2>4, PromptAtIs
  <2> QED BY <1>4, <2>5
<1>5. ASSUME K # {}
      PROVE  /\ q # 0 /\ n \in 1 .. Len(e) /\ PromptAt(lines[n]) = q - e[n] + 1
             /\ e[n] <= q
  <2>1. n \in 1 .. Len(e) /\ PromptAt(lines[n]) # 0 /\ \A k \in K : n <= k
    BY <1>2, <1>5
  <2> HIDE DEF n
  <2> DEFINE p == PromptAt(lines[n])
  <2>2. /\ p \in Nat /\ p >= 1 /\ Prompt(s, e[n] + p - 1)
        /\ e[n] + p - 1 < NextStart(s, e, n)
        /\ \A i : Prompt(lines[n], i) => p <= i
    BY <1>3, <2>1
  <2> HIDE DEF p
  <2>3. q # 0
    BY <2>2, PromptAtIs
  <2>4. Prompt(s, q) /\ \A i : Prompt(s, i) => q <= i
    BY <2>3, PromptAtIs
  <2> HIDE DEF q
  <2>5. q \in 1 .. Len(s)
    BY <2>4 DEF Prompt
  <2>6. PICK k \in 1 .. Len(e) : e[k] <= q /\ q < NextStart(s, e, k)
    BY <2>5, LinesCover
  <2>7. Prompt(lines[k], q - e[k] + 1)
    BY <1>1, <2>4, <2>6, PromptInLine
  <2>8. k \in K
    BY <1>1, <2>7, PromptAtIs
  <2>9. q <= e[n] + p - 1
    BY <2>2, <2>4
  <2>10. n = k
    <3>1. ~(n < k)
      <4> SUFFICES ASSUME n < k
                   PROVE  FALSE
        OBVIOUS
      <4>1. NextStart(s, e, n) <= e[k]
        BY <2>1, StartsOrdered
      <4>2. NextStart(s, e, n) \in Nat /\ e[k] \in Nat /\ e[n] \in Nat
        BY <1>1, <2>1
      <4> QED BY <2>2, <2>5, <2>6, <2>9, <4>1, <4>2
    <3>2. n <= k /\ k \in Nat /\ n \in Nat
      BY <2>1, <2>8
    <3> QED BY <3>1, <3>2
  <2>11. p <= q - e[n] + 1
    BY <2>2, <2>7, <2>10
  <2>12. p = q - e[n] + 1
    <3>1. e[n] \in Nat /\ q \in Nat
      BY <1>1, <2>1, <2>5
    <3> QED BY <2>2, <2>9, <2>11, <3>1
  <2> QED BY <2>1, <2>3, <2>6, <2>10, <2>12 DEF p
<1> QED BY <1>2, <1>4, <1>5

(* A line end of its own shows nothing.                                    *)
LEMMA OneLF == <<LF>> \in Strings /\ Len(<<LF>>) = 1 /\ Visible(<<LF>>) = <<>>
<1>1. <<LF>> \in Strings /\ Len(<<LF>>) = 1 /\ <<LF>>[1] = LF
  BY CharFacts DEF Strings
<1> DEFINE v == <<LF>>
<1> HIDE DEF v
<1>2. v \in Strings /\ \A i \in 1 .. Len(v) : v[i] \in {CR, LF}
  BY <1>1 DEF v
<1>3. Visible(v) = <<>>
  BY <1>2, VisibleNone
<1> QED BY <1>1, <1>3 DEF v

(* The empty text.                                                         *)
LEMMA Nothing == /\ <<>> \in Strings /\ Len(<<>>) = 0
                 /\ \A s \in Strings : /\ SubSeq(s, 1, 0) = <<>>
                                       /\ Len(s) = 0 => s = <<>>
                                       /\ s \o <<>> = s /\ <<>> \o s = s
  BY DEF Strings

(* What is visible up to the end of a line, and up to the next start.      *)
LEMMA VisibleToNextStart ==
  ASSUME NEW s \in Strings, NEW e, Lists(e, Starts(s)), NEW k \in 1 .. Len(e)
  PROVE  Visible(SubSeq(s, 1, NextStart(s, e, k) - 1))
           = Visible(SubSeq(s, 1, e[k] - 1)) \o Visible(LineAt(s, e[k]))
<1> DEFINE x == e[k] - 1
           y == LineEnd(s, e[k]) - 1
           z == NextStart(s, e, k) - 1
<1>1. /\ Len(s) \in Nat
      /\ x \in 0 .. Len(s) /\ y \in x .. Len(s) /\ z \in y .. Len(s)
      /\ e[k] = x + 1
      /\ \A j \in y + 1 .. z : j \in 1 .. Len(s) /\ s[j] \in {CR, LF}
  <2>1. /\ e[k] \in 1 .. Len(s)
        /\ LineEnd(s, e[k]) \in e[k] .. Len(s) + 1
        /\ NextStart(s, e, k) \in e[k] + 1 .. Len(s) + 1
        /\ LineEnd(s, e[k]) <= NextStart(s, e, k)
        /\ \A j \in LineEnd(s, e[k]) .. NextStart(s, e, k) - 1 :
             j \in 1 .. Len(s) /\ s[j] \in {CR, LF}
        /\ Len(s) \in Nat
    BY LineFacts, StringFacts
  <2>2. y + 1 = LineEnd(s, e[k])
    BY <2>1
  <2> QED BY <2>1, <2>2
<1>2. LineAt(s, e[k]) = SubSeq(s, e[k], y)
  BY DEF LineAt
<1> HIDE DEF x, y, z
<1>3. /\ x \in 1 - 1 .. Len(s) /\ y \in 1 - 1 .. Len(s) /\ 1 \in 1 .. Len(s) + 1
      /\ x + 1 \in 1 .. Len(s) + 1 /\ y \in (x + 1) - 1 .. Len(s)
      /\ y + 1 \in 1 .. Len(s) + 1 /\ z \in (y + 1) - 1 .. Len(s)
  BY <1>1
<1>4. SubSeq(s, 1, z) = SubSeq(s, 1, y) \o SubSeq(s, y + 1, z)
  BY <1>1, <1>3, CutPart
<1>5. SubSeq(s, 1, y) = SubSeq(s, 1, x) \o SubSeq(s, x + 1, y)
  BY <1>1, <1>3, CutPart
<1> DEFINE m == x + 1
           n == y + 1
<1>6. /\ m \in 1 .. Len(s) + 1 /\ y \in m - 1 .. Len(s)
      /\ n \in 1 .. Len(s) + 1 /\ z \in n - 1 .. Len(s)
  BY <1>3
<1>7. m = x + 1 /\ n = y + 1
  OBVIOUS
<1> HIDE DEF m, n
<1> DEFINE a == SubSeq(s, 1, x)
           b == SubSeq(s, m, y)
           c == SubSeq(s, n, z)
<1>8. a \in Strings /\ b \in Strings /\ SubSeq(s, 1, y) \in Strings
  BY <1>3, <1>6, PartFacts
<1>9. /\ c \in Strings /\ Len(c) = z - n + 1
      /\ \A i \in 1 .. z - n + 1 : c[i] = s[n + i - 1]
  BY <1>6, PartFacts
<1>10. Visible(c) = <<>>
  <2> HIDE DEF c
  <2>1. ASSUME NEW i \in 1 .. Len(c)
        PROVE  c[i] \in {CR, LF}
    <3> DEFINE j == n + i - 1
    <3>1. i \in 1 .. z - n + 1 /\ j \in y + 1 .. z
      BY <1>1, <1>7, <1>9
    <3>2. c[i] = s[j]
      BY <1>9, <3>1
    <3> HIDE DEF j
    <3> QED BY <1>1, <3>1, <3>2
  <2> QED BY <1>9, <2>1, VisibleNone
<1>11. /\ SubSeq(s, 1, z) = SubSeq(s, 1, y) \o c
       /\ SubSeq(s, 1, y) = a \o b
       /\ LineAt(s, e[k]) = b
  BY <1>1, <1>2, <1>4, <1>5, <1>7
<1> HIDE DEF a, b, c
<1>12. Visible(SubSeq(s, 1, z)) = Visible(SubSeq(s, 1, y)) \o <<>>
  BY <1>8, <1>9, <1>10, <1>11, VisibleConcat
<1>13. Visible(SubSeq(s, 1, y)) = Visible(a) \o Visible(b)
  BY <1>8, <1>11, VisibleConcat
<1>14. Visible(SubSeq(s, 1, z)) = Visible(a) \o Visible(b)
  BY <1>8, <1>12, <1>13, VisibleIs, Nothing
<1> QED BY <1>11, <1>14 DEF a, x, z

(* The lines before the n-th, joined, show what the text shows up to it,   *)
(* and are no longer.                                                      *)
LEMMA JoinShows ==
  ASSUME NEW s \in Strings, NEW e, Lists(e, Starts(s)), NEW n \in 1 .. Len(e),
         NEW lines, Len(lines) = n - 1,
         \A k \in 1 .. n - 1 : lines[k] = LineAt(s, e[k])
  PROVE  /\ Join(lines) \in Strings
         /\ Len(Join(lines)) <= e[n] - 1
         /\ Visible(Join(lines)) = Visible(SubSeq(s, 1, e[n] - 1))
<1>1. Len(s) \in Nat /\ Len(e) \in Nat /\ n \in Nat /\ n - 1 \in Nat
  BY StringFacts, LinesCover
<1>2. PICK u : /\ Join(lines) = u[n - 1]
               /\ u[0] = <<>>
               /\ \A i \in 1 .. n - 1 :
                    u[i] = IF i = 1 THEN lines[1] ELSE u[i - 1] \o <<LF>> \o lines[i]
  <2>1. Len(lines) \in Nat
    BY <1>1
  <2>2. \E u : /\ Join(lines) = u[Len(lines)]
               /\ u[0] = <<>>
               /\ \A i \in 1 .. Len(lines) :
                    u[i] = IF i = 1 THEN lines[1] ELSE u[i - 1] \o <<LF>> \o lines[i]
    BY <2>1, JoinUnfolds, Zenon
  <2> QED BY <2>2
<1>3. \A k \in 1 .. n - 1 : k \in 1 .. Len(e) /\ k < Len(e)
  BY <1>1
<1>4. \A k \in 1 .. Len(e) :
        /\ e[k] \in 1 .. Len(s) /\ LineEnd(s, e[k]) \in e[k] .. Len(s) + 1
        /\ k < Len(e) => NextStart(s, e, k) = e[k + 1] /\ LineEnd(s, e[k]) < e[k + 1]
  <2>1. ASSUME NEW k \in 1 .. Len(e)
        PROVE  /\ e[k] \in 1 .. Len(s) /\ LineEnd(s, e[k]) \in e[k] .. Len(s) + 1
               /\ k < Len(e) => NextStart(s, e, k) = e[k + 1] /\ LineEnd(s, e[k]) < e[k + 1]
    BY LineFacts DEF NextStart
  <2> QED BY <2>1
<1>5. \A k \in 1 .. n - 1 : /\ lines[k] \in Strings /\ lines[k] = LineAt(s, e[k])
                            /\ Len(lines[k]) = LineEnd(s, e[k]) - e[k]
                            /\ Visible(SubSeq(s, 1, e[k + 1] - 1))
                                 = Visible(SubSeq(s, 1, e[k] - 1)) \o Visible(lines[k])
  <2>1. ASSUME NEW k \in 1 .. n - 1
        PROVE  /\ lines[k] \in Strings /\ lines[k] = LineAt(s, e[k])
               /\ Len(lines[k]) = LineEnd(s, e[k]) - e[k]
               /\ Visible(SubSeq(s, 1, e[k + 1] - 1))
                    = Visible(SubSeq(s, 1, e[k] - 1)) \o Visible(lines[k])
    <3>1. k \in 1 .. Len(e) /\ k < Len(e) /\ lines[k] = LineAt(s, e[k])
      BY <1>3
    <3>2. NextStart(s, e, k) = e[k + 1]
      BY <1>4, <3>1
    <3>3. LineAt(s, e[k]) \in Strings /\ Len(LineAt(s, e[k])) = LineEnd(s, e[k]) - e[k]
      BY <3>1, LineIs
    <3>4. Visible(SubSeq(s, 1, NextStart(s, e, k) - 1))
            = Visible(SubSeq(s, 1, e[k] - 1)) \o Visible(LineAt(s, e[k]))
      BY <3>1, VisibleToNextStart
    <3> QED BY <3>1, <3>2, <3>3, <3>4
  <2> QED BY <2>1
<1>6. e[1] = 1 /\ SubSeq(s, 1, e[1] - 1) = <<>> /\ Visible(<<>>) = <<>>
  <2>1. e[1] = 1
    BY <1>1, LinesCover
  <2>2. <<>> \in Strings /\ \A i \in 1 .. Len(<<>>) : <<>>[i] \in {CR, LF}
    BY Nothing
  <2>3. Visible(<<>>) = <<>>
    BY <2>2, VisibleNone
  <2> QED BY <2>1, <2>3, Nothing
(* What holds of the first i lines.                                        *)
<1> DEFINE P(i) == /\ u[i] \in Strings
                   /\ i # 0 => Len(u[i]) <= LineEnd(s, e[i]) - 1
                   /\ i = 0 => Len(u[i]) = 0
                   /\ Visible(u[i]) = Visible(SubSeq(s, 1, e[i + 1] - 1))
           T == {i \in Nat : i <= n - 1 => P(i)}
<1>7. P(0)
  <2>1. 0 + 1 = 1 /\ u[0] = <<>>
    BY <1>2
  <2>2. Visible(u[0]) = Visible(SubSeq(s, 1, e[0 + 1] - 1))
    BY <1>6, <2>1
  <2> QED BY <2>1, <2>2, Nothing
<1>8. ASSUME NEW i \in Nat, i + 1 <= n - 1, P(i)
      PROVE  P(i + 1)
  <2> DEFINE m == i + 1
  <2>1. m \in 1 .. n - 1 /\ m - 1 = i /\ m # 0 /\ (m = 1 <=> i = 0)
    BY <1>1, <1>8
  <2>2. m = i + 1
    OBVIOUS
  <2>3. /\ u[i] \in Strings /\ Len(u[i]) \in Nat
        /\ i # 0 => Len(u[i]) <= LineEnd(s, e[i]) - 1
        /\ Visible(u[i]) = Visible(SubSeq(s, 1, e[m] - 1))
    BY <1>8, StringFacts
  <2> HIDE DEF m
  <2>4. /\ lines[m] \in Strings
        /\ Len(lines[m]) = LineEnd(s, e[m]) - e[m]
        /\ Visible(SubSeq(s, 1, e[m + 1] - 1))
             = Visible(SubSeq(s, 1, e[m] - 1)) \o Visible(lines[m])
        /\ e[m] \in 1 .. Len(s) /\ LineEnd(s, e[m]) \in e[m] .. Len(s) + 1
    BY <1>3, <1>4, <1>5, <2>1
  <2>5. CASE i = 0
    <3>1. u[m] = lines[m] /\ m = 1
      BY <1>2, <2>1, <2>5
    <3>2. Visible(SubSeq(s, 1, e[m] - 1)) = <<>>
      BY <1>6, <3>1
    <3>3. Visible(lines[m]) \in Strings
      BY <2>4, VisibleIs
    <3>4. Visible(SubSeq(s, 1, e[m + 1] - 1)) = Visible(lines[m])
      BY <2>4, <3>2, <3>3, Nothing
    <3>5. Len(lines[m]) <= LineEnd(s, e[m]) - 1
      BY <1>1, <2>4
    <3>6. P(m)
      BY <2>1, <2>4, <3>1, <3>4, <3>5
    <3> QED BY <2>2, <3>6
  <2>6. CASE i # 0
    <3> DEFINE w == u[i] \o <<LF>>
    <3>1. u[m] = w \o lines[m]
      BY <1>2, <2>1, <2>6
    <3>2. w \in Strings /\ Len(w) = Len(u[i]) + 1
      BY <2>3, OneLF, ConcatFacts
    <3>3. Visible(w) = Visible(u[i])
      <4>1. Visible(w) = Visible(u[i]) \o <<>>
        BY <2>3, OneLF, VisibleConcat
      <4> QED BY <2>3, <4>1, VisibleIs, Nothing
    <3> HIDE DEF w
    <3>4. /\ u[m] \in Strings /\ Len(u[m]) = Len(w) + Len(lines[m])
          /\ Visible(u[m]) = Visible(w) \o Visible(lines[m])
      BY <2>4, <3>1, <3>2, ConcatFacts, VisibleConcat
    <3>5. Visible(u[m]) = Visible(SubSeq(s, 1, e[m + 1] - 1))
      BY <2>3, <2>4, <3>3, <3>4
    <3>6. LineEnd(s, e[i]) < e[m] /\ LineEnd(s, e[i]) \in Nat
      <4>1. i \in 1 .. Len(e) /\ i < Len(e)
        BY <1>1, <1>8, <2>6
      <4>2. e[i] \in 1 .. Len(s) /\ LineEnd(s, e[i]) \in e[i] .. Len(s) + 1
        BY <1>4, <4>1
      <4> QED BY <1>1, <1>4, <2>2, <4>1, <4>2
    <3>7. Len(u[m]) <= LineEnd(s, e[m]) - 1
      <4>1. /\ Len(u[i]) \in Nat /\ e[m] \in Nat /\ LineEnd(s, e[m]) \in Nat
            /\ LineEnd(s, e[i]) \in Nat /\ LineEnd(s, e[i]) < e[m]
            /\ Len(u[i]) <= LineEnd(s, e[i]) - 1
        BY <1>1, <2>3, <2>4, <2>6, <3>6
      <4>2. Len(u[m]) = (Len(u[i]) + 1) + (LineEnd(s, e[m]) - e[m])
        BY <2>4, <3>2, <3>4
      <4> QED BY <4>1, <4>2
    <3>8. P(m)
      BY <2>1, <3>4, <3>5, <3>7
    <3> QED BY <2>2, <3>8
  <2> QED BY <2>5, <2>6
<1>9. T = Nat
  <2>1. 0 \in T
    BY <1>7
  <2>2. ASSUME NEW i \in T
        PROVE  i + 1 \in T
    <3>1. i \in Nat /\ i + 1 \in Nat /\ (i <= n - 1 => P(i))
      OBVIOUS
    <3>2. i + 1 <= n - 1 => P(i + 1)
      <4> HIDE DEF P
      <4> QED BY <1>1, <1>8, <3>1
    <3> HIDE DEF P
    <3> QED BY <3>1, <3>2
  <2>3. T \in SUBSET Nat
    OBVIOUS
  <2> HIDE DEF T
  <2> QED BY <2>1, <2>2, <2>3, NatSetInduction
<1>10. P(n - 1)
  <2> HIDE DEF P
  <2>1. n - 1 \in T
    BY <1>1, <1>9
  <2> QED BY <1>1, <2>1
<1>11. (n - 1) + 1 = n
  BY <1>1
<1>12. Len(Join(lines)) <= e[n] - 1
  <2>1. e[n] \in 1 .. Len(s)
    BY <1>4
  <2>2. CASE n - 1 = 0
    BY <1>1, <1>2, <1>10, <2>1, <2>2
  <2>3. CASE n - 1 # 0
    <3> DEFINE l == n - 1
    <3>1. l \in 1 .. Len(e) /\ l < Len(e) /\ l + 1 = n /\ l # 0 /\ l = n - 1
      BY <1>1, <2>3
    <3> HIDE DEF l
    <3>2. LineEnd(s, e[l]) < e[n] /\ e[l] \in 1 .. Len(s) /\ LineEnd(s, e[l]) \in e[l] .. Len(s) + 1
      BY <1>4, <3>1
    <3>3. Len(u[l]) <= LineEnd(s, e[l]) - 1 /\ Join(lines) = u[l] /\ u[l] \in Strings
      BY <1>2, <1>10, <3>1
    <3>4. Len(u[l]) \in Nat
      BY <3>3, StringFacts
    <3> QED BY <1>1, <2>1, <3>2, <3>3, <3>4
  <2> QED BY <2>2, <2>3
<1> QED BY <1>2, <1>10, <1>11, <1>12

(* What is put together for a match shows what the text shows before the   *)
(* prompt.                                                                 *)
LEMMA MatchShows ==
  ASSUME NEW s \in Strings, NEW lines, lines = SplitLines(s), NEW n, n = Hit(lines), n # 0
  PROVE  /\ PromptAt(s) # 0
         /\ Join(SubSeq(lines, 1, n - 1)) \in Strings
         /\ SubSeq(lines[n], 1, PromptAt(lines[n]) - 1) \in Strings
         /\ Len(Join(SubSeq(lines, 1, n - 1)))
              + Len(SubSeq(lines[n], 1, PromptAt(lines[n]) - 1)) <= Len(s)
         /\ Visible(Join(SubSeq(lines, 1, n - 1)))
              \o Visible(SubSeq(lines[n], 1, PromptAt(lines[n]) - 1))
              = Visible(BeforePrompt(s))
<1>1. PICK e : /\ Lists(e, Starts(s)) /\ Len(e) \in Nat
               /\ lines = [k \in 1 .. Len(e) |-> LineAt(s, e[k])]
               /\ DOMAIN lines = 1 .. Len(e)
  BY SplitLinesIs
<1>2. \A k \in 1 .. Len(e) : lines[k] = LineAt(s, e[k])
  BY <1>1
<1> DEFINE q == PromptAt(s)
<1>3. n \in 1 .. Len(e) /\ PromptAt(lines[n]) = q - e[n] + 1 /\ q # 0 /\ e[n] <= q
  BY <1>1, <1>2, HitIs
<1>4. /\ Len(s) \in Nat /\ q \in 0 .. Len(s) /\ Prompt(s, q) /\ q \in Nat
  BY <1>3, PromptAtIs, StringFacts
<1>5. BeforePrompt(s) = SubSeq(s, 1, q - 1)
  BY DEF BeforePrompt
<1> DEFINE front == SubSeq(lines, 1, n - 1)
           l == lines[n]
           m == PromptAt(l) - 1
           part == SubSeq(l, 1, m)
           x == e[n]
<1>6. Len(front) = n - 1 /\ \A k \in 1 .. n - 1 : front[k] = LineAt(s, e[k])
  <2>1. lines \in Seq(Strings) /\ Len(lines) = Len(e)
    <3>1. \A k \in 1 .. Len(e) : LineAt(s, e[k]) \in Strings
      BY <1>1, LineIs
    <3> QED BY <1>1, <3>1
  <2>2. n - 1 \in Nat /\ n - 1 <= Len(e)
    BY <1>1, <1>3
  <2>3. Len(front) = n - 1 /\ \A k \in 1 .. n - 1 : front[k] = lines[k]
    BY <1>1, <2>1, <2>2
  <2>4. \A k \in 1 .. n - 1 : k \in 1 .. Len(e)
    BY <1>1, <1>3
  <2> HIDE DEF front
  <2> QED BY <1>2, <2>3, <2>4
<1>7. /\ Join(front) \in Strings
      /\ Len(Join(front)) <= x - 1
      /\ Visible(Join(front)) = Visible(SubSeq(s, 1, x - 1))
  <2> HIDE DEF front
  <2> QED BY <1>1, <1>3, <1>6, JoinShows
<1>8. /\ x \in 1 .. Len(s) /\ l \in Strings /\ Len(l) = LineEnd(s, x) - x
      /\ l = LineAt(s, x)
      /\ \A i \in 1 .. LineEnd(s, x) - x : l[i] = s[x + i - 1]
      /\ LineEnd(s, x) \in x .. Len(s) + 1
  <2>1. LineAt(s, e[n]) = lines[n]
    BY <1>2, <1>3
  <2>2. /\ LineAt(s, x) \in Strings /\ Len(LineAt(s, x)) = LineEnd(s, x) - x
        /\ \A i \in 1 .. LineEnd(s, x) - x : LineAt(s, x)[i] = s[x + i - 1]
    <3>1. ASSUME NEW k \in 1 .. Len(e)
          PROVE  /\ LineAt(s, e[k]) \in Strings
                 /\ Len(LineAt(s, e[k])) = LineEnd(s, e[k]) - e[k]
                 /\ \A i \in 1 .. LineEnd(s, e[k]) - e[k] : LineAt(s, e[k])[i] = s[e[k] + i - 1]
      BY <1>1, LineIs
    <3> QED BY <1>3, <3>1
  <2>3. x \in 1 .. Len(s) /\ LineEnd(s, x) \in x .. Len(s) + 1
    BY <1>1, <1>3, LineFacts
  <2>4. l = LineAt(s, x)
    BY <2>1
  <2> HIDE DEF l, x
  <2> QED BY <2>2, <2>3, <2>4
<1>9. /\ m = q - x /\ m \in 0 .. Len(l) /\ m \in 1 - 1 .. Len(l) /\ 1 \in 1 .. Len(l) + 1
  <2>1. PromptAt(l) \in 0 .. Len(l) /\ Len(l) \in Nat
    BY <1>8, PromptAtIs, StringFacts
  <2>2. PromptAt(l) = q - x + 1 /\ x <= q
    BY <1>3
  <2> HIDE DEF l, x, q
  <2> QED BY <1>4, <1>8, <2>1, <2>2
<1>10. /\ part \in Strings /\ Len(part) = m - 1 + 1
       /\ \A i \in 1 .. m - 1 + 1 : part[i] = l[1 + i - 1]
  <2> HIDE DEF m, l
  <2> QED BY <1>8, <1>9, PartFacts
<1> DEFINE z == q - 1
           back == SubSeq(s, x, z)
<1>11. /\ x \in 1 .. Len(s) + 1 /\ z \in x - 1 .. Len(s) /\ z \in 0 .. Len(s)
       /\ x - 1 \in 1 - 1 .. Len(s) /\ z \in x - 1 .. Len(s) /\ 1 \in 1 .. Len(s) + 1
       /\ z = q - 1 /\ q <= Len(s)
  <2> HIDE DEF x, q
  <2>1. x <= q
    BY <1>3 DEF x, q
  <2> QED BY <1>4, <1>8, <2>1
<1> HIDE DEF front, l, m, part, x, q, z
<1>12. /\ back \in Strings /\ Len(back) = z - x + 1
       /\ \A i \in 1 .. z - x + 1 : back[i] = s[x + i - 1]
  BY <1>11, PartFacts
<1>13. part = back
  <2> HIDE DEF back
  <2>1. Len(part) = m /\ Len(back) = m
    BY <1>4, <1>8, <1>9, <1>10, <1>11, <1>12
  <2>2. ASSUME NEW i \in 1 .. m
        PROVE  part[i] = back[i]
    <3>1. i \in 1 .. m - 1 + 1 /\ 1 + i - 1 = i /\ i \in 1 .. z - x + 1 /\ i \in 1 .. Len(l)
      BY <1>4, <1>8, <1>9, <1>11
    <3>2. part[i] = l[i]
      BY <1>10, <3>1
    <3>3. back[i] = s[x + i - 1]
      BY <1>12, <3>1
    <3>4. l[i] = s[x + i - 1]
      BY <1>8, <3>1
    <3> QED BY <3>2, <3>3, <3>4
  <2> QED BY <1>10, <1>12, <2>1, <2>2, SameString
<1>14. Visible(SubSeq(s, 1, z)) = Visible(SubSeq(s, 1, x - 1)) \o Visible(back)
  <2> DEFINE y == x - 1
  <2>1. y + 1 = x /\ y \in 1 - 1 .. Len(s) /\ z \in y .. Len(s)
    BY <1>8, <1>11
  <2>2. y = x - 1
    OBVIOUS
  <2> HIDE DEF y
  <2>3. SubSeq(s, 1, z) = SubSeq(s, 1, y) \o SubSeq(s, y + 1, z)
    BY <1>11, <2>1, CutPart
  <2>4. SubSeq(s, 1, y) \in Strings
    BY <1>11, <2>1, PartFacts
  <2>5. SubSeq(s, 1, z) = SubSeq(s, 1, y) \o back
    BY <2>1, <2>3
  <2> HIDE DEF back
  <2>6. Visible(SubSeq(s, 1, z)) = Visible(SubSeq(s, 1, y)) \o Visible(back)
    BY <1>12, <2>4, <2>5, VisibleConcat
  <2> QED BY <2>2, <2>6
<1>15. Len(Join(front)) + Len(part) <= Len(s)
  <2>1. Len(Join(front)) \in Nat /\ Len(part) = q - x
    BY <1>4, <1>7, <1>8, <1>9, <1>10, StringFacts
  <2> QED BY <1>4, <1>7, <1>8, <1>11, <2>1
<1>16. Visible(Join(front)) \o Visible(part) = Visible(BeforePrompt(s))
  BY <1>5, <1>7, <1>11, <1>13, <1>14 DEF z, q
<1> QED BY <1>3, <1>7, <1>10, <1>15, <1>16 DEF front, part, m, l, q

(* What stands behind the first of two texts.                              *)
LEMMA EndOfTwo ==
  ASSUME NEW a \in Strings, NEW b \in Strings
  PROVE  SubSeq(a \o b, Len(a) + 1, Len(a \o b)) = b
<1> DEFINE c == a \o b
           k == Len(a) + 1
           n == Len(c)
           p == SubSeq(c, k, n)
<1>1. /\ Len(a) \in Nat /\ Len(b) \in Nat /\ c \in Strings /\ n = Len(a) + Len(b)
      /\ \A i \in 1 .. Len(b) : c[Len(a) + i] = b[i]
  BY StringFacts, ConcatFacts
<1>2. k \in 1 .. n + 1 /\ n \in k - 1 .. n /\ n - k + 1 = Len(b) /\ k = Len(a) + 1 /\ n = Len(c)
  BY <1>1
<1> HIDE DEF c, k, n
<1>3. p \in Strings /\ Len(p) = n - k + 1 /\ \A i \in 1 .. n - k + 1 : p[i] = c[k + i - 1]
  BY <1>1, <1>2, PartFacts
<1> HIDE DEF p
<1>4. ASSUME NEW i \in 1 .. Len(b)
      PROVE  p[i] = b[i]
  <2>1. k + i - 1 = Len(a) + i /\ i \in 1 .. n - k + 1
    BY <1>1, <1>2
  <2> QED BY <1>1, <1>3, <2>1
<1>5. p = b
  BY <1>2, <1>3, <1>4, SameString
<1> QED BY <1>5 DEF p, n, k, c

(* Texts are the strings that are no longer than MaxLength.                *)
LEMMA TextsAre ==
  ASSUME NEW s
  PROVE  s \in Texts <=> s \in Strings /\ Len(s) <= MaxLength
<1>1. ASSUME s \in Texts
      PROVE  s \in Strings /\ Len(s) <= MaxLength
  <2>1. PICK n \in 0 .. MaxLength : s \in [1 .. n -> Chars]
    BY <1>1 DEF Texts
  <2>2. n \in Nat /\ n <= MaxLength
    BY MaxLengthAssumption
  <2>3. s \in Seq(Chars) /\ Len(s) = n
    BY <2>1, <2>2
  <2> QED BY <2>2, <2>3 DEF Strings
<1>2. ASSUME s \in Strings, Len(s) <= MaxLength
      PROVE  s \in Texts
  <2>1. Len(s) \in 0 .. MaxLength
    BY <1>2, StringFacts, MaxLengthAssumption
  <2>2. s \in [1 .. Len(s) -> Chars]
    BY <1>2 DEF Strings
  <2> QED BY <2>1, <2>2 DEF Texts
<1> QED BY <1>1, <1>2

-----------------------------------------------------------------------------
(* What holds while expect reads, and when it has ended.                   *)

TypeInv == /\ text \in Texts /\ arrived \in 0 .. Len(text)
           /\ received \in Strings /\ Len(received) <= arrived
           /\ lineStart \in 0 .. Len(received)
           /\ result \in {"reading", "matched", "CmdlineTimeout", "ConnectionError"}
           /\ output \in Texts

(* The next round starts at the start of a line,                           *)
AtLineStart == lineStart = 0 \/ received[lineStart] = LF

(* until the prompt arrives what was kept agrees with what arrived,        *)
KeptAgrees == result # "matched" => PromptAt(Consumed) = 0 /\ Agree(Consumed, received)

(* and when it has arrived the output shows what stands before it.         *)
OutputShows == result = "matched" => /\ PromptAt(Consumed) # 0
                                     /\ Visible(output) = Visible(BeforePrompt(Consumed))

Inv == TypeInv /\ AtLineStart /\ KeptAgrees /\ OutputShows

(* The text as far as it goes.                                             *)
LEMMA TextFacts ==
  ASSUME TypeInv
  PROVE  /\ text \in Strings /\ Len(text) \in Nat /\ Len(text) <= MaxLength
         /\ arrived \in Nat /\ arrived <= Len(text)
         /\ Len(received) \in Nat /\ lineStart \in Nat /\ lineStart <= Len(received)
         /\ Consumed \in Strings /\ Len(Consumed) = arrived
<1>1. /\ text \in Strings /\ Len(text) \in Nat /\ Len(text) <= MaxLength
      /\ arrived \in Nat /\ arrived <= Len(text)
      /\ Len(received) \in Nat /\ lineStart \in Nat /\ lineStart <= Len(received)
  <2>1. text \in Strings /\ Len(text) <= MaxLength
    BY TextsAre DEF TypeInv
  <2>2. Len(text) \in Nat /\ Len(received) \in Nat
    BY <2>1, StringFacts DEF TypeInv
  <2> QED BY <2>1, <2>2 DEF TypeInv
<1>2. 1 \in 1 .. Len(text) + 1 /\ arrived \in 1 - 1 .. Len(text) /\ arrived - 1 + 1 = arrived
  BY <1>1
<1>3. SubSeq(text, 1, arrived) \in Strings /\ Len(SubSeq(text, 1, arrived)) = arrived - 1 + 1
  BY <1>1, <1>2, PartFacts
<1>4. Len(SubSeq(text, 1, arrived)) = arrived
  BY <1>2, <1>3
<1> QED BY <1>1, <1>3, <1>4 DEF Consumed

(* What one round makes of a chunk.                                        *)
Chunk(n) == SubSeq(text, arrived + 1, arrived + n)
Raw(n)   == received \o Chunk(n)
Kept(n)  == SubSeq(Raw(n), 1, lineStart)
Fresh(n) == FixupCarriageReturns(SubSeq(Raw(n), lineStart + 1, Len(Raw(n))))
Data(n)  == Kept(n) \o Fresh(n)

(* What a round has at hand: recv's chunk is what the text has next, and   *)
(* only what lies behind next_line_start is cleaned up.                    *)
LEMMA ChunkFacts ==
  ASSUME TypeInv, NEW n \in 1 .. MaxLength, arrived + n <= Len(text)
  PROVE  /\ Chunk(n) \in Strings /\ Len(Chunk(n)) = n
         /\ SubSeq(text, 1, arrived + n) = Consumed \o Chunk(n)
         /\ Raw(n) \in Strings /\ Len(Raw(n)) = Len(received) + n
         /\ Kept(n) = SubSeq(received, 1, lineStart)
         /\ Kept(n) \in Strings /\ Len(Kept(n)) = lineStart
         /\ lineStart # 0 => Kept(n)[lineStart] = received[lineStart]
         /\ SubSeq(Raw(n), lineStart + 1, Len(Raw(n))) \in Strings
         /\ Raw(n) = Kept(n) \o SubSeq(Raw(n), lineStart + 1, Len(Raw(n)))
         /\ Fresh(n) \in Strings
         /\ Data(n) \in Strings /\ Len(Data(n)) <= Len(received) + n
         /\ Len(Data(n)) = lineStart + Len(Fresh(n))
<1>1. /\ text \in Strings /\ Len(text) \in Nat /\ arrived \in Nat /\ arrived <= Len(text)
      /\ Len(received) \in Nat /\ lineStart \in Nat /\ lineStart <= Len(received)
      /\ received \in Strings /\ n \in Nat /\ n >= 1
  BY TextFacts DEF TypeInv
<1> DEFINE k == arrived + 1
           m == arrived + n
<1>2. /\ k \in 1 .. Len(text) + 1 /\ m \in k - 1 .. Len(text) /\ m - k + 1 = n
      /\ arrived \in 1 - 1 .. Len(text) /\ m \in arrived .. Len(text) /\ 1 \in 1 .. Len(text) + 1
      /\ k = arrived + 1 /\ m = arrived + n
  BY <1>1
<1> HIDE DEF k, m
<1>3. SubSeq(text, k, m) \in Strings /\ Len(SubSeq(text, k, m)) = m - k + 1
  BY <1>1, <1>2, PartFacts
<1>4. SubSeq(text, 1, m) = SubSeq(text, 1, arrived) \o SubSeq(text, arrived + 1, m)
  BY <1>1, <1>2, CutPart
<1>5. /\ Chunk(n) \in Strings /\ Len(Chunk(n)) = n
      /\ SubSeq(text, 1, arrived + n) = Consumed \o Chunk(n)
  BY <1>2, <1>3, <1>4 DEF Chunk, Consumed
<1>6. /\ Raw(n) \in Strings /\ Len(Raw(n)) = Len(received) + n
      /\ \A i \in 1 .. Len(received) : Raw(n)[i] = received[i]
  BY <1>1, <1>5, ConcatFacts DEF Raw
<1>7. /\ lineStart \in 0 .. Len(received) /\ lineStart \in 1 - 1 .. Len(received)
      /\ 1 \in 1 .. Len(received) + 1 /\ lineStart \in 0 .. Len(Raw(n))
      /\ lineStart - 1 + 1 = lineStart
  BY <1>1, <1>6
<1>8. Kept(n) = SubSeq(received, 1, lineStart)
  BY <1>1, <1>5, <1>7, BeginningOfConcat DEF Kept, Raw
<1> DEFINE p == SubSeq(received, 1, lineStart)
<1>9. /\ p \in Strings /\ Len(p) = lineStart - 1 + 1
      /\ \A i \in 1 .. lineStart - 1 + 1 : p[i] = received[1 + i - 1]
  BY <1>1, <1>7, PartFacts
<1>10. /\ Kept(n) \in Strings /\ Len(Kept(n)) = lineStart
       /\ lineStart # 0 => Kept(n)[lineStart] = received[lineStart]
  <2> HIDE DEF p
  <2>1. Kept(n) = p
    BY <1>8 DEF p
  <2>2. lineStart # 0 => lineStart \in 1 .. lineStart - 1 + 1 /\ 1 + lineStart - 1 = lineStart
    BY <1>1
  <2> QED BY <1>7, <1>9, <2>1, <2>2
<1> DEFINE l == lineStart + 1
           r == Len(Raw(n))
           tail == SubSeq(Raw(n), l, r)
<1>11. l \in 1 .. r + 1 /\ r \in l - 1 .. r /\ r - l + 1 = Len(received) + n - lineStart
       /\ l = lineStart + 1 /\ r = Len(Raw(n))
  BY <1>1, <1>6
<1> HIDE DEF l, r
<1>12. tail \in Strings /\ Len(tail) = r - l + 1
  BY <1>6, <1>11, PartFacts
<1>13. Raw(n) = Kept(n) \o SubSeq(Raw(n), lineStart + 1, Len(Raw(n)))
  BY <1>6, <1>7, CutInTwo DEF Kept
<1>14. SubSeq(Raw(n), lineStart + 1, Len(Raw(n))) = tail
  BY <1>11
<1> HIDE DEF tail
<1>15. Fresh(n) \in Strings /\ Len(Fresh(n)) <= Len(tail)
  BY <1>12, <1>14, FixupAgrees DEF Fresh
<1>16. Data(n) \in Strings /\ Len(Data(n)) = lineStart + Len(Fresh(n))
  BY <1>10, <1>15, ConcatFacts DEF Data
<1>17. Len(Data(n)) <= Len(received) + n
  <2>1. Len(Fresh(n)) \in Nat /\ Len(tail) = Len(received) + n - lineStart
    BY <1>11, <1>12, <1>15, StringFacts
  <2> QED BY <1>1, <1>15, <1>16, <2>1
<1> QED BY <1>5, <1>6, <1>8, <1>10, <1>12, <1>13, <1>14, <1>15, <1>16, <1>17

(* It agrees with all that has arrived, if no prompt had.                  *)
LEMMA DataAgrees ==
  ASSUME TypeInv, AtLineStart, PromptAt(Consumed) = 0, Agree(Consumed, received),
         NEW n \in 1 .. MaxLength, arrived + n <= Len(text)
  PROVE  /\ Agree(SubSeq(text, 1, arrived + n), Data(n))
         /\ PromptAt(Kept(n)) = 0 /\ ~EndsInH(Kept(n))
<1> DEFINE tail == SubSeq(Raw(n), lineStart + 1, Len(Raw(n)))
<1>1. /\ Consumed \in Strings /\ received \in Strings /\ Chunk(n) \in Strings
      /\ Kept(n) \in Strings /\ Len(Kept(n)) = lineStart
      /\ tail \in Strings /\ Raw(n) = Kept(n) \o tail
      /\ Fresh(n) = FixupCarriageReturns(tail)
      /\ lineStart # 0 => Kept(n)[lineStart] = received[lineStart]
      /\ SubSeq(text, 1, arrived + n) = Consumed \o Chunk(n)
      /\ Raw(n) = received \o Chunk(n) /\ Data(n) = Kept(n) \o Fresh(n)
  BY TextFacts, ChunkFacts DEF TypeInv, Raw, Data, Fresh
<1> HIDE DEF tail
<1>2. Agree(Consumed \o Chunk(n), received \o Chunk(n))
  BY <1>1, AgreeConcat
<1>3. PromptAt(Kept(n)) = 0
  <2>1. PromptAt(received) = 0
    BY DEF Agree
  <2>2. /\ lineStart \in 0 .. Len(received)
        /\ received = SubSeq(received, 1, lineStart)
                        \o SubSeq(received, lineStart + 1, Len(received))
    BY <1>1, CutInTwo DEF TypeInv
  <2>3. Kept(n) = SubSeq(received, 1, lineStart)
    BY ChunkFacts
  <2> DEFINE rest == SubSeq(received, lineStart + 1, Len(received))
  <2>4. rest \in Strings
    <3> DEFINE k == lineStart + 1
               m == Len(received)
    <3>1. k \in 1 .. Len(received) + 1 /\ m \in k - 1 .. Len(received)
      BY TextFacts
    <3> HIDE DEF k, m
    <3>2. SubSeq(received, k, m) \in Strings
      BY <1>1, <3>1, PartFacts
    <3> QED BY <3>2 DEF k, m
  <2> HIDE DEF rest
  <2>5. received = Kept(n) \o rest
    BY <2>2, <2>3 DEF rest
  <2> QED BY <1>1, <2>1, <2>4, <2>5, PromptInFront
<1>4. ~EndsInH(Kept(n))
  <2>1. lineStart = 0 => ~EndsInH(Kept(n))
    BY <1>1 DEF EndsInH
  <2>2. lineStart # 0 => ~EndsInH(Kept(n))
    BY <1>1, CharFacts DEF EndsInH, AtLineStart
  <2> QED BY <2>1, <2>2
<1>5. Agree(tail, Fresh(n)) /\ Fresh(n) \in Strings
  BY <1>1, FixupAgrees
<1>6. Agree(Kept(n) \o tail, Kept(n) \o Fresh(n))
  BY <1>1, <1>3, <1>4, <1>5, AgreePrefix
<1>7. Agree(SubSeq(text, 1, arrived + n), Data(n))
  BY <1>1, <1>2, <1>6, AgreeOn
<1> QED BY <1>3, <1>4, <1>7

(* A round, in these terms.                                                *)
LinesOf(n) == SplitLines(Fresh(n))
HitOf(n)   == Hit(LinesOf(n))
FrontOf(n) == Join(SubSeq(LinesOf(n), 1, HitOf(n) - 1))
PartOf(n)  == SubSeq(LinesOf(n)[HitOf(n)], 1, PromptAt(LinesOf(n)[HitOf(n)]) - 1)

(* A round, said with them.                                                *)
LEMMA ReceiveIs ==
  ASSUME TypeInv, NEW n \in 1 .. MaxLength, Receive(n)
  PROVE  /\ result = "reading" /\ arrived + n <= Len(text)
         /\ arrived' = arrived + n /\ received' = Data(n) /\ text' = text
         /\ HitOf(n) # 0 => /\ result' = "matched" /\ lineStart' = lineStart
                            /\ output' = Kept(n) \o FrontOf(n) \o PartOf(n)
         /\ HitOf(n) = 0 => /\ result' = result /\ output' = output
                            /\ lineStart' = LastLF(Data(n))
<1>1. /\ result = "reading" /\ arrived + n <= Len(text)
      /\ arrived' = arrived + n /\ text' = text
  BY DEF Receive
<1> DEFINE lines == SplitLines(SubSeq(Data(n), lineStart + 1, Len(Data(n))))
<1>2. /\ received' = Data(n)
      /\ Hit(lines) # 0 => /\ result' = "matched" /\ lineStart' = lineStart
                           /\ output' = Output(Data(n), lineStart, lines, Hit(lines))
      /\ Hit(lines) = 0 => /\ result' = result /\ output' = output
                           /\ lineStart' = NextLineStart(Data(n))
  BY DEF Receive, Data, Kept, Fresh, Raw, Chunk, Hit
<1>3. /\ Kept(n) \in Strings /\ Len(Kept(n)) = lineStart /\ Fresh(n) \in Strings
      /\ Data(n) = Kept(n) \o Fresh(n)
  BY <1>1, ChunkFacts DEF Data
<1>4. SubSeq(Data(n), lineStart + 1, Len(Data(n))) = Fresh(n)
  BY <1>3, EndOfTwo
<1>5. SubSeq(Data(n), 1, lineStart) = Kept(n)
  <2>1. /\ lineStart \in 0 .. Len(Kept(n)) /\ Len(Kept(n)) \in Nat
    BY <1>3, TextFacts
  <2>2. SubSeq(Data(n), 1, lineStart) = SubSeq(Kept(n), 1, lineStart)
    BY <1>3, <2>1, BeginningOfConcat
  <2>3. /\ lineStart \in 0 .. Len(Kept(n))
        /\ Kept(n) = SubSeq(Kept(n), 1, lineStart)
                       \o SubSeq(Kept(n), lineStart + 1, Len(Kept(n)))
    BY <1>3, <2>1, CutInTwo
  <2>4. SubSeq(Kept(n), 1, lineStart) = Kept(n)
    <3>1. /\ 1 \in 1 .. Len(Kept(n)) + 1 /\ lineStart \in 1 - 1 .. Len(Kept(n))
          /\ lineStart - 1 + 1 = lineStart
      BY <1>3, <2>1
    <3> DEFINE p == SubSeq(Kept(n), 1, lineStart)
    <3>2. /\ p \in Strings /\ Len(p) = lineStart - 1 + 1
          /\ \A i \in 1 .. lineStart - 1 + 1 : p[i] = Kept(n)[1 + i - 1]
      BY <1>3, <3>1, PartFacts
    <3> HIDE DEF p
    <3>3. ASSUME NEW i \in 1 .. Len(p)
          PROVE  p[i] = Kept(n)[i]
      <4>1. i \in 1 .. lineStart - 1 + 1 /\ 1 + i - 1 = i
        BY <3>1, <3>2
      <4> QED BY <3>2, <4>1
    <3>4. p = Kept(n)
      BY <1>3, <3>1, <3>2, <3>3, SameString
    <3> QED BY <3>4 DEF p
  <2> QED BY <2>2, <2>4
<1>6. lines = LinesOf(n) /\ Hit(lines) = HitOf(n)
  BY <1>4 DEF LinesOf, HitOf
<1>7. Output(Data(n), lineStart, lines, Hit(lines)) = Kept(n) \o FrontOf(n) \o PartOf(n)
  BY <1>5, <1>6 DEF Output, FrontOf, PartOf
<1> HIDE DEF lines
<1> QED BY <1>1, <1>2, <1>6, <1>7 DEF NextLineStart

(* The first state.                                                        *)
LEMMA InitInv == Init => Inv
<1> SUFFICES ASSUME Init
             PROVE  Inv
  OBVIOUS
<1>1. text \in Strings /\ Len(text) \in Nat
  BY TextsAre, StringFacts DEF Init
<1>2. <<>> \in Texts
  BY Nothing, TextsAre, MaxLengthAssumption
<1>3. TypeInv
  BY <1>1, <1>2, Nothing DEF Init, TypeInv
<1>4. Consumed = <<>> /\ received = <<>>
  BY <1>1, Nothing DEF Init, Consumed
<1>5. PromptAt(<<>>) = 0
  <2>1. <<>> \in Strings /\ Len(<<>>) = 0
    BY Nothing
  <2>2. \A i : ~Prompt(<<>>, i)
    BY <2>1 DEF Prompt
  <2> QED BY <2>1, <2>2, PromptAtIs
<1>6. KeptAgrees
  BY <1>4, <1>5 DEF KeptAgrees, Agree
<1> QED BY <1>3, <1>6 DEF Init, Inv, AtLineStart, OutputShows

(* A round keeps the types.                                                *)
LEMMA ReceiveTypes ==
  ASSUME Inv, NEW n \in 1 .. MaxLength, Receive(n)
  PROVE  TypeInv' /\ AtLineStart'
<1>1. /\ TypeInv /\ AtLineStart /\ n \in Nat /\ n >= 1 /\ MaxLength \in Nat
  BY MaxLengthAssumption DEF Inv
<1>2. /\ result = "reading" /\ arrived + n <= Len(text)
      /\ arrived' = arrived + n /\ received' = Data(n) /\ text' = text
      /\ HitOf(n) # 0 => /\ result' = "matched" /\ lineStart' = lineStart
                         /\ output' = Kept(n) \o FrontOf(n) \o PartOf(n)
      /\ HitOf(n) = 0 => /\ result' = result /\ output' = output
                         /\ lineStart' = LastLF(Data(n))
  BY <1>1, ReceiveIs
<1>3. /\ text \in Strings /\ Len(text) \in Nat /\ Len(text) <= MaxLength /\ text \in Texts
      /\ arrived \in Nat /\ lineStart \in Nat /\ lineStart <= Len(received)
      /\ Len(received) \in Nat /\ Len(received) <= arrived /\ output \in Texts
  BY <1>1, TextFacts DEF TypeInv
<1>4. /\ Kept(n) \in Strings /\ Len(Kept(n)) = lineStart /\ Fresh(n) \in Strings
      /\ lineStart # 0 => Kept(n)[lineStart] = received[lineStart]
      /\ Data(n) = Kept(n) \o Fresh(n) /\ Data(n) \in Strings
      /\ Len(Data(n)) <= Len(received) + n
      /\ Len(Data(n)) = lineStart + Len(Fresh(n))
  BY <1>1, <1>2, ChunkFacts DEF Data
<1>5. Len(Data(n)) \in Nat /\ Len(Fresh(n)) \in Nat
  BY <1>4, StringFacts
<1>6. /\ text' \in Texts /\ arrived' \in 0 .. Len(text)' /\ received' \in Strings
      /\ Len(received') <= arrived'
  BY <1>1, <1>2, <1>3, <1>4, <1>5
<1>7. CASE HitOf(n) # 0
  <2>1. /\ FrontOf(n) \in Strings /\ PartOf(n) \in Strings
        /\ Len(FrontOf(n)) + Len(PartOf(n)) <= Len(Fresh(n))
    BY <1>4, <1>7, MatchShows DEF HitOf, LinesOf, FrontOf, PartOf
  <2>2. /\ Kept(n) \o FrontOf(n) \in Strings
        /\ Len(Kept(n) \o FrontOf(n)) = lineStart + Len(FrontOf(n))
    BY <1>4, <2>1, ConcatFacts
  <2>3. /\ output' \in Strings
        /\ Len(output') = lineStart + Len(FrontOf(n)) + Len(PartOf(n))
    BY <1>2, <1>7, <2>1, <2>2, ConcatFacts
  <2>4. Len(FrontOf(n)) \in Nat /\ Len(PartOf(n)) \in Nat
    BY <2>1, StringFacts
  <2>5. Len(output') <= MaxLength
    BY <1>1, <1>2, <1>3, <1>4, <1>5, <2>1, <2>3, <2>4
  <2>6. output' \in Texts
    BY <2>3, <2>5, TextsAre
  <2>7. lineStart' \in 0 .. Len(received')
    BY <1>2, <1>3, <1>4, <1>5, <1>7
  <2>8. AtLineStart'
    <3>1. lineStart # 0 => Data(n)[lineStart] = Kept(n)[lineStart]
      BY <1>3, <1>4, ConcatFacts
    <3> QED BY <1>1, <1>2, <1>4, <1>7, <3>1 DEF AtLineStart
  <2> QED BY <1>2, <1>6, <1>7, <2>6, <2>7, <2>8 DEF TypeInv
<1>8. CASE HitOf(n) = 0
  <2> DEFINE K == {i \in DOMAIN Data(n) : Data(n)[i] = LF}
             l == LastLF(Data(n))
  <2>1. K \in SUBSET (1 .. Len(Data(n))) /\ DOMAIN Data(n) = 1 .. Len(Data(n))
    BY <1>4, StringFacts
  <2>2. (l = 0 <=> K = {}) /\ (K # {} => l \in K)
    <3>1. l = Greatest(K)
      BY DEF LastLF
    <3> HIDE DEF K, l
    <3> QED BY <1>5, <2>1, <3>1, GreatestIs
  <2>3. l \in 0 .. Len(Data(n)) /\ (l = 0 \/ Data(n)[l] = LF)
    <3>1. K # {} => l \in 1 .. Len(Data(n)) /\ Data(n)[l] = LF
      BY <2>1, <2>2
    <3> HIDE DEF K, l
    <3> QED BY <1>5, <2>2, <3>1
  <2> HIDE DEF K
  <2>4. lineStart' \in 0 .. Len(received') /\ AtLineStart'
    BY <1>2, <1>8, <2>3 DEF AtLineStart
  <2>5. result' = "reading" /\ output' \in Texts
    BY <1>2, <1>3, <1>8
  <2> QED BY <1>6, <2>4, <2>5 DEF TypeInv
<1> QED BY <1>7, <1>8

(* A round matches if the prompt has arrived with it, and only then.       *)
LEMMA ReceiveFinds ==
  ASSUME Inv, NEW n \in 1 .. MaxLength, Receive(n)
  PROVE  KeptAgrees' /\ OutputShows'
<1>1. TypeInv /\ AtLineStart
  BY DEF Inv
<1>2. /\ result = "reading" /\ arrived + n <= Len(text)
      /\ arrived' = arrived + n /\ received' = Data(n) /\ text' = text
      /\ HitOf(n) # 0 => /\ result' = "matched"
                         /\ output' = Kept(n) \o FrontOf(n) \o PartOf(n)
      /\ HitOf(n) = 0 => result' = result
  BY <1>1, ReceiveIs
<1>3. PromptAt(Consumed) = 0 /\ Agree(Consumed, received)
  BY <1>2 DEF Inv, KeptAgrees
<1> DEFINE c == SubSeq(text, 1, arrived + n)
<1>4. Agree(c, Data(n)) /\ PromptAt(Kept(n)) = 0 /\ ~EndsInH(Kept(n))
  BY <1>1, <1>2, <1>3, DataAgrees
<1>5. Consumed' = c
  BY <1>2 DEF Consumed
<1>6. /\ Kept(n) \in Strings /\ Fresh(n) \in Strings /\ Data(n) = Kept(n) \o Fresh(n)
      /\ Len(Kept(n)) \in Nat /\ Len(Fresh(n)) \in Nat
  BY <1>1, <1>2, ChunkFacts, StringFacts DEF Data
<1> HIDE DEF c
<1>7. CASE HitOf(n) # 0
  <2>1. /\ PromptAt(Fresh(n)) # 0
        /\ FrontOf(n) \in Strings /\ PartOf(n) \in Strings
        /\ Visible(FrontOf(n)) \o Visible(PartOf(n)) = Visible(BeforePrompt(Fresh(n)))
    BY <1>6, <1>7, MatchShows DEF HitOf, LinesOf, FrontOf, PartOf
  <2>2. PromptAt(Data(n)) = Len(Kept(n)) + PromptAt(Fresh(n)) /\ PromptAt(Data(n)) # 0
    BY <1>4, <1>6, <2>1, PromptBehind
  <2>3. PromptAt(c) # 0 /\ Visible(BeforePrompt(c)) = Visible(BeforePrompt(Data(n)))
    BY <1>4, <2>2 DEF Agree
  <2> DEFINE m == PromptAt(Fresh(n)) - 1
  <2>4. PromptAt(Fresh(n)) \in 0 .. Len(Fresh(n))
    BY <1>6, PromptAtIs
  <2>5. /\ m \in 0 .. Len(Fresh(n)) /\ m \in 1 - 1 .. Len(Fresh(n))
        /\ 1 \in 1 .. Len(Fresh(n)) + 1
        /\ PromptAt(Data(n)) - 1 = Len(Kept(n)) + m
    BY <1>6, <2>1, <2>2, <2>4
  <2>6. BeforePrompt(Fresh(n)) = SubSeq(Fresh(n), 1, m)
    BY DEF BeforePrompt
  <2> HIDE DEF m
  <2>7. BeforePrompt(Data(n)) = Kept(n) \o BeforePrompt(Fresh(n))
    <3>1. SubSeq(Data(n), 1, Len(Kept(n)) + m) = Kept(n) \o SubSeq(Fresh(n), 1, m)
      BY <1>6, <2>5, BeginningOfConcat
    <3> QED BY <2>5, <2>6, <3>1 DEF BeforePrompt
  <2>8. BeforePrompt(Fresh(n)) \in Strings
    BY <1>6, <2>5, <2>6, PartFacts
  <2>9. Visible(BeforePrompt(Data(n))) = Visible(Kept(n)) \o Visible(BeforePrompt(Fresh(n)))
    BY <1>6, <2>7, <2>8, VisibleConcat
  <2> DEFINE k == Kept(n)
             f == FrontOf(n)
             p == PartOf(n)
  <2>10. k \in Strings /\ f \in Strings /\ p \in Strings /\ k \o f \in Strings
    BY <1>6, <2>1, ConcatFacts
  <2>11. Visible(k \o f \o p) = Visible(k) \o Visible(f) \o Visible(p)
    <3> HIDE DEF k, f, p
    <3>1. Visible((k \o f) \o p) = Visible(k \o f) \o Visible(p)
      BY <2>10, VisibleConcat
    <3>2. Visible(k \o f) = Visible(k) \o Visible(f)
      BY <2>10, VisibleConcat
    <3> QED BY <3>1, <3>2
  <2>12. \A x, y, z \in Strings : (x \o y) \o z = x \o (y \o z)
    BY DEF Strings
  <2>13. Visible(k \o f \o p) = Visible(k) \o (Visible(f) \o Visible(p))
    <3>1. Visible(k) \in Strings /\ Visible(f) \in Strings /\ Visible(p) \in Strings
      BY <2>10, VisibleIs
    <3> HIDE DEF k, f, p
    <3> QED BY <2>11, <2>12, <3>1
  <2>14. Visible(output') = Visible(BeforePrompt(c))
    BY <1>2, <1>7, <2>1, <2>3, <2>9, <2>13
  <2> QED BY <1>2, <1>5, <1>7, <2>3, <2>14 DEF KeptAgrees, OutputShows
<1>8. CASE HitOf(n) = 0
  <2>1. PromptAt(Fresh(n)) = 0
    <3>1. PICK e : /\ Lists(e, Starts(Fresh(n)))
                   /\ LinesOf(n) = [k \in 1 .. Len(e) |-> LineAt(Fresh(n), e[k])]
                   /\ DOMAIN LinesOf(n) = 1 .. Len(e)
      BY <1>6, SplitLinesIs DEF LinesOf
    <3>2. \A k \in 1 .. Len(e) : LinesOf(n)[k] = LineAt(Fresh(n), e[k])
      BY <3>1
    <3> QED BY <1>6, <1>8, <3>1, <3>2, HitIs DEF HitOf
  <2>2. PromptAt(Data(n)) = 0
    BY <1>4, <1>6, <2>1, PromptBehind
  <2>3. PromptAt(c) = 0
    BY <1>4, <2>2 DEF Agree
  <2>4. result' = "reading"
    BY <1>2, <1>8
  <2> QED BY <1>2, <1>4, <1>5, <2>3, <2>4 DEF KeptAgrees, OutputShows
<1> QED BY <1>7, <1>8

(* The invariant of expect's loop.                                         *)
THEOREM Invariance == Spec => []Inv
<1>1. Init => Inv
  BY InitInv
<1>2. Inv /\ [Next]_vars => Inv'
  <2> SUFFICES ASSUME Inv, [Next]_vars
               PROVE  Inv'
    OBVIOUS
  <2>1. ASSUME NEW n \in 1 .. MaxLength, Receive(n)
        PROVE  Inv'
    BY <2>1, ReceiveTypes, ReceiveFinds DEF Inv
  <2>2. CASE GiveUp
    BY <2>2 DEF GiveUp, Inv, TypeInv, AtLineStart, KeptAgrees, OutputShows, Consumed
  <2>3. CASE UNCHANGED vars
    BY <2>3 DEF vars, Inv, TypeInv, AtLineStart, KeptAgrees, OutputShows, Consumed
  <2> QED BY <2>1, <2>2, <2>3 DEF Next
<1> QED BY <1>1, <1>2, PTL DEF Spec

(* What expect keeps and returns is a text no longer than what the         *)
(* appliance sent, and next_line_start stays within received_data.         *)
THEOREM TypeCorrect == Spec => []TypeOK
<1>1. Inv => TypeOK
  <2> SUFFICES ASSUME Inv
               PROVE  TypeOK
    OBVIOUS
  <2>1. TypeInv
    BY DEF Inv
  <2>2. Len(received) <= MaxLength
    BY <2>1, TextFacts, MaxLengthAssumption DEF TypeInv
  <2>3. received \in Texts
    BY <2>1, <2>2, TextsAre DEF TypeInv
  <2> QED BY <2>1, <2>3 DEF TypeInv, TypeOK
<1> QED BY <1>1, Invariance, PTL

(* expect() ends with a match when, and only when, the prompt has arrived, *)
(* however recv() cut the text.                                            *)
THEOREM PromptIsFound == Spec => []MatchesAsPromptArrives
<1>1. Inv => MatchesAsPromptArrives
  BY DEF Inv, KeptAgrees, OutputShows, MatchesAsPromptArrives
<1> QED BY <1>1, Invariance, PTL

(* What it then returns shows all that stood before the prompt, once and   *)
(* in order.                                                               *)
THEOREM AllIsShown == Spec => []NothingLost
<1>1. Inv => NothingLost
  <2> SUFFICES ASSUME Inv, result = "matched"
               PROVE  Visible(output) = Visible(Before)
    BY DEF NothingLost
  <2>1. /\ text \in Strings /\ Consumed \in Strings /\ arrived \in 0 .. Len(text)
        /\ PromptAt(Consumed) # 0 /\ Visible(output) = Visible(BeforePrompt(Consumed))
    BY TextFacts DEF Inv, TypeInv, OutputShows
  <2>2. text = Consumed \o SubSeq(text, arrived + 1, Len(text))
    BY <2>1, CutInTwo DEF Consumed
  <2> DEFINE rest == SubSeq(text, arrived + 1, Len(text))
             q == PromptAt(Consumed)
             m == q - 1
  <2>3. rest \in Strings
    <3> DEFINE k == arrived + 1
               l == Len(text)
    <3>1. k \in 1 .. Len(text) + 1 /\ l \in k - 1 .. Len(text)
      BY TextFacts DEF Inv
    <3> HIDE DEF k, l
    <3>2. SubSeq(text, k, l) \in Strings
      BY <2>1, <3>1, PartFacts
    <3> QED BY <3>2 DEF k, l
  <2>4. text = Consumed \o rest
    BY <2>2
  <2> HIDE DEF rest
  <2>5. PromptAt(text) = q
    BY <2>1, <2>3, <2>4, PromptInFront
  <2>6. m \in 0 .. Len(Consumed)
    BY <2>1, PromptAtIs, StringFacts
  <2>7. Before = SubSeq(text, 1, m) /\ BeforePrompt(Consumed) = SubSeq(Consumed, 1, m)
    BY <2>5 DEF Before, BeforePrompt
  <2> HIDE DEF m
  <2>8. SubSeq(text, 1, m) = SubSeq(Consumed, 1, m)
    BY <2>1, <2>3, <2>4, <2>6, BeginningOfConcat
  <2> QED BY <2>1, <2>7, <2>8
<1> QED BY <1>1, Invariance, PTL

-----------------------------------------------------------------------------
(* The lines of two texts, one behind the other.                           *)

(* A text that is empty or ends its last line.                             *)
Ended(s) == Len(s) # 0 => s[Len(s)] = LF

(* A part of either is a part of both.                                     *)
LEMMA PartOfConcat ==
  ASSUME NEW a \in Strings, NEW b \in Strings
  PROVE  /\ \A m \in 1 .. Len(a) + 1 : \A n \in m - 1 .. Len(a) :
              SubSeq(a \o b, m, n) = SubSeq(a, m, n)
         /\ \A m \in 1 .. Len(b) + 1 : \A n \in m - 1 .. Len(b) :
              SubSeq(a \o b, Len(a) + m, Len(a) + n) = SubSeq(b, m, n)
<1>1. /\ Len(a) \in Nat /\ Len(b) \in Nat /\ Len(a \o b) = Len(a) + Len(b)
      /\ a \o b \in Strings
      /\ \A i \in 1 .. Len(a) : (a \o b)[i] = a[i]
      /\ \A i \in 1 .. Len(b) : (a \o b)[Len(a) + i] = b[i]
  BY StringFacts, ConcatFacts
<1> DEFINE c == a \o b
<1> HIDE DEF c
<1>2. ASSUME NEW m \in 1 .. Len(a) + 1, NEW n \in m - 1 .. Len(a)
      PROVE  SubSeq(c, m, n) = SubSeq(a, m, n)
  <2>1. m \in 1 .. Len(c) + 1 /\ n \in m - 1 .. Len(c) /\ c \in Strings
    BY <1>1 DEF c
  <2> DEFINE p == SubSeq(c, m, n)
             q == SubSeq(a, m, n)
  <2>2. p \in Strings /\ Len(p) = n - m + 1 /\ \A i \in 1 .. n - m + 1 : p[i] = c[m + i - 1]
    BY <2>1, PartFacts
  <2>3. q \in Strings /\ Len(q) = n - m + 1 /\ \A i \in 1 .. n - m + 1 : q[i] = a[m + i - 1]
    BY PartFacts
  <2> HIDE DEF p, q
  <2>4. ASSUME NEW i \in 1 .. n - m + 1
        PROVE  p[i] = q[i]
    <3>1. m + i - 1 \in 1 .. Len(a)
      BY <1>1
    <3>2. c[m + i - 1] = a[m + i - 1]
      BY <1>1, <3>1 DEF c
    <3> QED BY <2>2, <2>3, <3>2
  <2>5. p = q
    BY <2>2, <2>3, <2>4, SameString
  <2> QED BY <2>5 DEF p, q
<1>3. ASSUME NEW m \in 1 .. Len(b) + 1, NEW n \in m - 1 .. Len(b)
      PROVE  SubSeq(c, Len(a) + m, Len(a) + n) = SubSeq(b, m, n)
  <2> DEFINE k == Len(a) + m
             l == Len(a) + n
             p == SubSeq(c, k, l)
             q == SubSeq(b, m, n)
  <2>1. /\ k \in 1 .. Len(c) + 1 /\ l \in k - 1 .. Len(c) /\ c \in Strings
        /\ l - k + 1 = n - m + 1 /\ k = Len(a) + m /\ m \in Nat /\ n \in Int
    BY <1>1 DEF c
  <2> HIDE DEF k, l
  <2>2. p \in Strings /\ Len(p) = l - k + 1 /\ \A i \in 1 .. l - k + 1 : p[i] = c[k + i - 1]
    BY <2>1, PartFacts
  <2>3. q \in Strings /\ Len(q) = n - m + 1 /\ \A i \in 1 .. n - m + 1 : q[i] = b[m + i - 1]
    BY PartFacts
  <2> HIDE DEF p, q
  <2>4. ASSUME NEW i \in 1 .. n - m + 1
        PROVE  p[i] = q[i]
    <3> DEFINE j == m + i - 1
    <3>1. j \in 1 .. Len(b) /\ k + i - 1 = Len(a) + j
      BY <1>1, <2>1
    <3>2. c[k + i - 1] = b[j]
      <4> HIDE DEF j
      <4> QED BY <1>1, <3>1 DEF c
    <3>3. p[i] = c[k + i - 1]
      BY <2>1, <2>2
    <3> QED BY <2>3, <3>2, <3>3
  <2>5. p = q
    BY <2>1, <2>2, <2>3, <2>4, SameString
  <2> QED BY <2>5 DEF p, q, k, l
<1> QED BY <1>2, <1>3 DEF c

(* Where the lines start.                                                  *)
LEMMA StartsConcat ==
  ASSUME NEW a \in Strings, NEW b \in Strings, Ended(a)
  PROVE  Together(Starts(a \o b), Starts(a), Starts(b), Len(a), Len(b))
<1>1. /\ Len(a) \in Nat /\ Len(b) \in Nat /\ Len(a \o b) = Len(a) + Len(b)
      /\ a \o b \in Strings
      /\ \A i \in 1 .. Len(a) : (a \o b)[i] = a[i]
      /\ \A i \in 1 .. Len(b) : (a \o b)[Len(a) + i] = b[i]
  BY StringFacts, ConcatFacts
<1> DEFINE c == a \o b
<1> HIDE DEF c
<1>2. /\ DOMAIN a = 1 .. Len(a) /\ DOMAIN b = 1 .. Len(b)
      /\ DOMAIN c = 1 .. Len(a) + Len(b)
  BY <1>1, StringFacts DEF c
<1>3. ASSUME NEW i \in 1 .. Len(a)
      PROVE  i \in Starts(c) <=> i \in Starts(a)
  <2>1. i \in 1 .. Len(a) + Len(b)
    BY <1>1
  <2>2. ASSUME i # 1
        PROVE  EndsLine(c, i - 1) <=> EndsLine(a, i - 1)
    <3> DEFINE j == i - 1
    <3>1. j \in 1 .. Len(a) /\ j + 1 \in 1 .. Len(a) /\ j + 1 \in 1 .. Len(a) + Len(b)
      BY <1>1, <2>2
    <3> HIDE DEF j
    <3>2. c[j] = a[j] /\ c[j + 1] = a[j + 1]
      BY <1>1, <3>1 DEF c
    <3>3. EndsLine(c, j) <=> EndsLine(a, j)
      BY <1>2, <3>1, <3>2 DEF EndsLine, At
    <3> QED BY <3>3 DEF j
  <2> QED BY <1>2, <2>1, <2>2 DEF Starts
<1>4. ASSUME NEW i \in 1 .. Len(b)
      PROVE  Len(a) + i \in Starts(c) <=> i \in Starts(b)
  <2>1. Len(a) + i \in 1 .. Len(a) + Len(b)
    BY <1>1
  <2>2. CASE i = 1
    <3>1. i \in Starts(b)
      BY <1>2, <2>2 DEF Starts
    <3>2. CASE Len(a) = 0
      BY <1>2, <2>1, <2>2, <3>1, <3>2 DEF Starts
    <3>3. CASE Len(a) # 0
      <4>1. (Len(a) + i) - 1 = Len(a) /\ Len(a) \in 1 .. Len(a)
        BY <1>1, <2>2, <3>3
      <4>2. c[Len(a)] = LF
        BY <1>1, <3>3, <4>1 DEF c, Ended
      <4>3. EndsLine(c, (Len(a) + i) - 1)
        BY <4>1, <4>2 DEF EndsLine
      <4> QED BY <1>2, <2>1, <3>1, <4>3 DEF Starts
    <3> QED BY <3>2, <3>3
  <2>3. CASE i # 1
    <3> DEFINE j == i - 1
               k == Len(a) + j
    <3>1. /\ j \in 1 .. Len(b) /\ (Len(a) + i) - 1 = k
          /\ k + 1 = Len(a) + i /\ j + 1 = i
          /\ Len(a) + i # 1
      BY <1>1, <2>3
    <3>2. c[k] = b[j] /\ c[k + 1] = b[j + 1]
      <4> HIDE DEF j
      <4>1. c[k] = b[j] /\ c[Len(a) + i] = b[i]
        BY <1>1, <3>1 DEF c
      <4> HIDE DEF k
      <4> QED BY <3>1, <4>1
    <3>3. k + 1 \in DOMAIN c /\ j + 1 \in DOMAIN b
      <4> HIDE DEF j, k
      <4> QED BY <1>2, <2>1, <3>1
    <3> HIDE DEF j, k
    <3>4. EndsLine(c, k) <=> EndsLine(b, j)
      BY <3>2, <3>3 DEF EndsLine, At
    <3>5. EndsLine(c, (Len(a) + i) - 1) <=> EndsLine(b, i - 1)
      BY <3>1, <3>4 DEF j
    <3> QED BY <1>2, <2>1, <2>3, <3>1, <3>5 DEF Starts
  <2> QED BY <2>2, <2>3
<1>5. /\ Starts(c) \in SUBSET (1 .. Len(a) + Len(b))
      /\ Starts(a) \in SUBSET (1 .. Len(a)) /\ Starts(b) \in SUBSET (1 .. Len(b))
  BY <1>2 DEF Starts
<1> QED BY <1>3, <1>4, <1>5 DEF Together, c

(* There is one place where a line can end.                                *)
LEMMA OneLineEnd ==
  ASSUME NEW s \in Strings, NEW i \in 1 .. Len(s), NEW l \in i .. Len(s) + 1,
         \A j \in i .. l - 1 : s[j] \notin {CR, LF}, l <= Len(s) => s[l] \in {CR, LF}
  PROVE  LineEnd(s, i) = l
<1> DEFINE m == LineEnd(s, i)
<1>1. /\ Len(s) \in Nat /\ m \in i .. Len(s) + 1
      /\ \A j \in i .. m - 1 : s[j] \notin {CR, LF}
      /\ m <= Len(s) => s[m] \in {CR, LF}
  BY StringFacts, LineEndIs
<1> HIDE DEF m
<1>2. ~(m < l)
  <2>1. m < l => m \in i .. l - 1 /\ m <= Len(s)
    BY <1>1
  <2> QED BY <1>1, <2>1
<1>3. ~(l < m)
  <2>1. l < m => l \in i .. m - 1 /\ l <= Len(s)
    BY <1>1
  <2> QED BY <1>1, <2>1
<1> QED BY <1>1, <1>2, <1>3 DEF m

(* A line of either is a line of both.                                     *)
LEMMA LineConcat ==
  ASSUME NEW a \in Strings, NEW b \in Strings, Ended(a)
  PROVE  /\ \A i \in 1 .. Len(a) : LineAt(a \o b, i) = LineAt(a, i)
         /\ \A i \in 1 .. Len(b) : LineAt(a \o b, Len(a) + i) = LineAt(b, i)
<1>1. /\ Len(a) \in Nat /\ Len(b) \in Nat /\ Len(a \o b) = Len(a) + Len(b)
      /\ a \o b \in Strings
      /\ \A i \in 1 .. Len(a) : (a \o b)[i] = a[i]
      /\ \A i \in 1 .. Len(b) : (a \o b)[Len(a) + i] = b[i]
  BY StringFacts, ConcatFacts
<1> DEFINE c == a \o b
<1> HIDE DEF c
<1>2. ASSUME NEW i \in 1 .. Len(a)
      PROVE  LineAt(c, i) = LineAt(a, i)
  <2> DEFINE l == LineEnd(a, i)
             n == l - 1
  <2>1. /\ l \in i .. Len(a) + 1
        /\ \A j \in i .. l - 1 : j \in 1 .. Len(a) /\ a[j] \notin {CR, LF}
        /\ l <= Len(a) => a[l] \in {CR, LF}
    BY LineEndIs
  <2> HIDE DEF l
  <2>2. l <= Len(a)
    <3>1. a[Len(a)] = LF
      BY <1>1 DEF Ended
    <3>2. l = Len(a) + 1 => Len(a) \in i .. l - 1
      BY <1>1
    <3> QED BY <1>1, <2>1, <3>1, <3>2
  <2>3. i \in 1 .. Len(c) /\ l \in i .. Len(c) + 1 /\ l \in 1 .. Len(a)
    BY <1>1, <2>1, <2>2 DEF c
  <2>4. \A j \in i .. l - 1 : c[j] \notin {CR, LF}
    BY <1>1, <2>1 DEF c
  <2>5. l <= Len(c) => c[l] \in {CR, LF}
    BY <1>1, <2>1, <2>2, <2>3 DEF c
  <2>6. LineEnd(c, i) = l
    BY <1>1, <2>3, <2>4, <2>5, OneLineEnd DEF c
  <2>7. i \in 1 .. Len(a) + 1 /\ n \in i - 1 .. Len(a)
    BY <1>1, <2>1, <2>2
  <2>8. SubSeq(c, i, n) = SubSeq(a, i, n)
    <3> HIDE DEF n
    <3> QED BY <2>7, PartOfConcat DEF c
  <2> QED BY <2>6, <2>8 DEF LineAt, l
<1>3. ASSUME NEW i \in 1 .. Len(b)
      PROVE  LineAt(c, Len(a) + i) = LineAt(b, i)
  <2> DEFINE l == LineEnd(b, i)
             k == Len(a) + i
             m == Len(a) + l
             n == l - 1
  <2>1. /\ l \in i .. Len(b) + 1
        /\ \A j \in i .. l - 1 : j \in 1 .. Len(b) /\ b[j] \notin {CR, LF}
        /\ l <= Len(b) => b[l] \in {CR, LF}
    BY LineEndIs
  <2> HIDE DEF l
  <2>2. k \in 1 .. Len(c) /\ m \in k .. Len(c) + 1
    BY <1>1, <2>1 DEF c
  <2>3. ASSUME NEW j \in k .. m - 1
        PROVE  c[j] \notin {CR, LF}
    <3> DEFINE h == j - Len(a)
    <3>1. h \in i .. l - 1 /\ j = Len(a) + h
      BY <1>1, <2>1
    <3> HIDE DEF h
    <3>2. h \in 1 .. Len(b) /\ b[h] \notin {CR, LF}
      BY <2>1, <3>1
    <3>3. c[Len(a) + h] = b[h]
      BY <1>1, <3>2 DEF c
    <3> QED BY <3>1, <3>2, <3>3
  <2>4. m <= Len(c) => c[m] \in {CR, LF}
    <3>1. m <= Len(c) => l \in 1 .. Len(b) /\ l <= Len(b)
      BY <1>1, <2>1 DEF c
    <3>2. l \in 1 .. Len(b) => c[Len(a) + l] = b[l]
      BY <1>1 DEF c
    <3> QED BY <2>1, <3>1, <3>2
  <2>5. LineEnd(c, k) = m
    <3> HIDE DEF k, m
    <3> QED BY <1>1, <2>2, <2>3, <2>4, OneLineEnd DEF c
  <2>6. /\ i \in 1 .. Len(b) + 1 /\ n \in i - 1 .. Len(b) /\ m - 1 = Len(a) + n
    BY <1>1, <2>1
  <2>7. SubSeq(c, Len(a) + i, Len(a) + n) = SubSeq(b, i, n)
    <3> HIDE DEF n
    <3> QED BY <2>6, PartOfConcat DEF c
  <2>8. LineAt(c, k) = SubSeq(c, k, m - 1)
    BY <2>5 DEF LineAt
  <2>9. LineAt(b, i) = SubSeq(b, i, n)
    BY DEF LineAt, l
  <2> QED BY <2>6, <2>7, <2>8, <2>9
<1> QED BY <1>2, <1>3 DEF c

(* So a text that ends its last line is split apart from what follows it.  *)
LEMMA SplitConcat ==
  ASSUME NEW a \in Strings, NEW b \in Strings, Ended(a)
  PROVE  /\ SplitLines(a \o b) = SplitLines(a) \o SplitLines(b)
         /\ SplitLines(a) \in Seq(Strings) /\ SplitLines(b) \in Seq(Strings)
<1>1. Len(a) \in Nat /\ Len(b) \in Nat /\ a \o b \in Strings
  BY StringFacts, ConcatFacts
<1>2. ASSUME NEW s \in Strings
      PROVE  \E e : /\ Lists(e, Starts(s)) /\ Len(e) \in Nat
                    /\ SplitLines(s) \in Seq(Strings) /\ Len(SplitLines(s)) = Len(e)
                    /\ \A k \in 1 .. Len(e) : SplitLines(s)[k] = LineAt(s, e[k])
  <2>1. PICK e : /\ Lists(e, Starts(s)) /\ Len(e) \in Nat
                 /\ SplitLines(s) = [k \in 1 .. Len(e) |-> LineAt(s, e[k])]
    BY SplitLinesIs
  <2>2. \A k \in 1 .. Len(e) : LineAt(s, e[k]) \in Strings
    BY <2>1, LineIs
  <2>3. SplitLines(s) \in Seq(Strings) /\ Len(SplitLines(s)) = Len(e)
    BY <2>1, <2>2
  <2>4. \A k \in 1 .. Len(e) : SplitLines(s)[k] = LineAt(s, e[k])
    BY <2>1
  <2> QED BY <2>1, <2>3, <2>4
<1> DEFINE A == SplitLines(a)
           B == SplitLines(b)
           C == SplitLines(a \o b)
<1>3. PICK d : /\ Lists(d, Starts(a)) /\ Len(d) \in Nat
               /\ A \in Seq(Strings) /\ Len(A) = Len(d)
               /\ \A k \in 1 .. Len(d) : A[k] = LineAt(a, d[k])
  BY <1>2
<1>4. PICK e : /\ Lists(e, Starts(b)) /\ Len(e) \in Nat
               /\ B \in Seq(Strings) /\ Len(B) = Len(e)
               /\ \A k \in 1 .. Len(e) : B[k] = LineAt(b, e[k])
  BY <1>2
<1>5. PICK f : /\ Lists(f, Starts(a \o b)) /\ Len(f) \in Nat
               /\ C \in Seq(Strings) /\ Len(C) = Len(f)
               /\ \A k \in 1 .. Len(f) : C[k] = LineAt(a \o b, f[k])
  BY <1>1, <1>2
<1> HIDE DEF A, B, C
<1>6. f = Behind(d, e, Len(a))
  <2>1. Lists(Behind(d, e, Len(a)), Starts(a \o b))
    BY <1>1, <1>3, <1>4, StartsConcat, ListConcat
  <2>2. Starts(a \o b) \in SUBSET Nat
    BY <1>1, StartsConcat DEF Together
  <2> QED BY <1>5, <2>1, <2>2, OneList
<1>7. /\ Len(f) = Len(d) + Len(e)
      /\ \A k \in 1 .. Len(d) + Len(e) :
           /\ k <= Len(d) => k \in 1 .. Len(d) /\ f[k] = d[k]
           /\ ~(k <= Len(d)) => k - Len(d) \in 1 .. Len(e) /\ f[k] = Len(a) + e[k - Len(d)]
  BY <1>3, <1>4, <1>6, BehindIs
<1>8. /\ \A k \in 1 .. Len(d) : d[k] \in 1 .. Len(a)
      /\ \A k \in 1 .. Len(e) : e[k] \in 1 .. Len(b)
  <2>1. Starts(a) \in SUBSET (1 .. Len(a)) /\ Starts(b) \in SUBSET (1 .. Len(b))
    BY StartsConcat DEF Together
  <2> QED BY <1>1, <1>3, <1>4, <2>1, ListFacts
<1>9. ASSUME NEW k \in 1 .. Len(f)
      PROVE  C[k] = (A \o B)[k]
  <2>1. k \in 1 .. Len(d) + Len(e) /\ C[k] = LineAt(a \o b, f[k])
    BY <1>5, <1>7
  <2>2. CASE k <= Len(d)
    <3>1. k \in 1 .. Len(d) /\ f[k] = d[k] /\ d[k] \in 1 .. Len(a)
      BY <1>7, <1>8, <2>1, <2>2
    <3>2. C[k] = A[k]
      BY <1>3, <2>1, <3>1, LineConcat
    <3> QED BY <1>3, <1>4, <3>1, <3>2
  <2>3. CASE ~(k <= Len(d))
    <3> DEFINE l == k - Len(d)
    <3>1. l \in 1 .. Len(e) /\ f[k] = Len(a) + e[l] /\ e[l] \in 1 .. Len(b)
      BY <1>7, <1>8, <2>1, <2>3
    <3>2. C[k] = B[l]
      <4> HIDE DEF l
      <4>1. LineAt(a \o b, Len(a) + e[l]) = LineAt(b, e[l])
        BY <3>1, LineConcat
      <4> QED BY <1>4, <2>1, <3>1, <4>1
    <3>3. k = Len(d) + l
      BY <1>3, <2>1
    <3> HIDE DEF l
    <3> QED BY <1>3, <1>4, <3>1, <3>2, <3>3
  <2> QED BY <2>2, <2>3
<1>10. C = A \o B
  <2>1. A \o B \in Seq(Strings) /\ Len(A \o B) = Len(f)
    BY <1>3, <1>4, <1>7
  <2> QED BY <1>5, <1>9, <2>1, SeqEqual
<1> QED BY <1>3, <1>4, <1>10 DEF A, B, C

-----------------------------------------------------------------------------
(* Cleaning up a text apart from what follows it.                          *)

EndsInCR(s) == Len(s) # 0 /\ s[Len(s)] = CR

(* A text of which everything is kept.                                     *)
LEMMA FilterAll ==
  ASSUME NEW s \in Strings, NEW K, K = 1 .. Len(s)
  PROVE  Filter(s, K) = s
<1> DEFINE e == [k \in 1 .. Len(s) |-> k]
<1>1. Len(s) \in Nat /\ K \in SUBSET (1 .. Len(s))
  BY StringFacts
<1>2. e \in Seq(K) /\ Len(e) = Len(s) /\ \A k \in 1 .. Len(s) : e[k] = k
  BY <1>1
<1> HIDE DEF e
<1>3. Lists(e, K) /\ Picks(s, s, e)
  BY <1>1, <1>2 DEF Lists, Picks
<1> QED BY <1>1, <1>3, PicksFilter

(* The neighbours in a text that has another behind it.                    *)
LEMMA Neighbours ==
  ASSUME NEW a \in Strings, NEW b \in Strings
  PROVE  /\ a \o b \in Strings /\ DOMAIN (a \o b) = 1 .. Len(a) + Len(b)
         /\ DOMAIN a = 1 .. Len(a) /\ DOMAIN b = 1 .. Len(b)
         /\ Len(a) \in Nat /\ Len(b) \in Nat
         /\ \A i \in 1 .. Len(a) :
              /\ (a \o b)[i] = a[i] /\ i \in 1 .. Len(a) + Len(b)
              /\ \A chars : At(a \o b, i - 1, chars) <=> At(a, i - 1, chars)
              /\ \A chars : i # Len(a) => (At(a \o b, i + 1, chars) <=> At(a, i + 1, chars))
         /\ \A i \in 1 .. Len(b) :
              /\ (a \o b)[Len(a) + i] = b[i] /\ Len(a) + i \in 1 .. Len(a) + Len(b)
              /\ \A chars : At(a \o b, Len(a) + i + 1, chars) <=> At(b, i + 1, chars)
              /\ \A chars : i # 1 => (At(a \o b, Len(a) + i - 1, chars) <=> At(b, i - 1, chars))
              /\ \A chars : i = 1 => (At(a \o b, Len(a) + i - 1, chars)
                                        <=> Len(a) # 0 /\ a[Len(a)] \in chars)
              /\ ~At(b, 0, Chars)
<1> DEFINE c == a \o b
           m == Len(a)
           n == Len(b)
<1>1. /\ m \in Nat /\ n \in Nat /\ c \in Strings
      /\ DOMAIN a = 1 .. m /\ DOMAIN b = 1 .. n /\ DOMAIN c = 1 .. m + n
      /\ \A i \in 1 .. m : c[i] = a[i]
      /\ \A i \in 1 .. n : c[m + i] = b[i]
  BY StringFacts, ConcatFacts
<1> HIDE DEF c, m, n
<1>2. ASSUME NEW i \in 1 .. m
      PROVE  /\ c[i] = a[i] /\ i \in 1 .. m + n
             /\ \A chars : At(c, i - 1, chars) <=> At(a, i - 1, chars)
             /\ \A chars : i # m => (At(c, i + 1, chars) <=> At(a, i + 1, chars))
  <2>1. c[i] = a[i] /\ i \in 1 .. m + n
    BY <1>1
  <2>2. ASSUME NEW chars
        PROVE  At(c, i - 1, chars) <=> At(a, i - 1, chars)
    <3>1. i - 1 \in 1 .. m + n <=> i - 1 \in 1 .. m
      BY <1>1
    <3> QED BY <1>1, <3>1 DEF At
  <2>3. ASSUME NEW chars, i # m
        PROVE  At(c, i + 1, chars) <=> At(a, i + 1, chars)
    <3>1. i + 1 \in 1 .. m /\ i + 1 \in 1 .. m + n
      BY <1>1, <2>3
    <3> QED BY <1>1, <3>1 DEF At
  <2> QED BY <2>1, <2>2, <2>3
<1>3. ASSUME NEW i \in 1 .. n
      PROVE  /\ c[m + i] = b[i] /\ m + i \in 1 .. m + n
             /\ \A chars : At(c, m + i + 1, chars) <=> At(b, i + 1, chars)
             /\ \A chars : i # 1 => (At(c, m + i - 1, chars) <=> At(b, i - 1, chars))
             /\ \A chars : i = 1 => (At(c, m + i - 1, chars) <=> m # 0 /\ a[m] \in chars)
             /\ ~At(b, 0, Chars)
  <2>1. c[m + i] = b[i] /\ m + i \in 1 .. m + n /\ ~At(b, 0, Chars)
    BY <1>1 DEF At
  <2>2. ASSUME NEW chars
        PROVE  At(c, m + i + 1, chars) <=> At(b, i + 1, chars)
    <3> DEFINE j == i + 1
    <3>1. m + i + 1 = m + j /\ (m + j \in 1 .. m + n <=> j \in 1 .. n)
      BY <1>1
    <3> HIDE DEF j
    <3>2. At(c, m + j, chars) <=> At(b, j, chars)
      BY <1>1, <3>1 DEF At
    <3> QED BY <3>1, <3>2 DEF j
  <2>3. ASSUME NEW chars, i # 1
        PROVE  At(c, m + i - 1, chars) <=> At(b, i - 1, chars)
    <3> DEFINE j == i - 1
    <3>1. m + i - 1 = m + j /\ m + j \in 1 .. m + n /\ j \in 1 .. n
      BY <1>1, <2>3
    <3> HIDE DEF j
    <3>2. At(c, m + j, chars) <=> At(b, j, chars)
      BY <1>1, <3>1 DEF At
    <3> QED BY <3>1, <3>2 DEF j
  <2>4. ASSUME NEW chars, i = 1
        PROVE  At(c, m + i - 1, chars) <=> m # 0 /\ a[m] \in chars
    <3>1. m + i - 1 = m /\ (m \in 1 .. m + n <=> m # 0) /\ (m # 0 => m \in 1 .. m)
      BY <1>1, <2>4
    <3> QED BY <1>1, <3>1 DEF At
  <2> QED BY <2>1, <2>2, <2>3, <2>4
<1> QED BY <1>1, <1>2, <1>3 DEF c, m, n

(* "\r*\r" within each of two texts.                                       *)
LEMMA RepeatedConcat ==
  ASSUME NEW a \in Strings, NEW b \in Strings, ~EndsInCR(a)
  PROVE  EatRepeated(a \o b) = EatRepeated(a) \o EatRepeated(b)
<1> DEFINE c == a \o b
           J == {i \in DOMAIN a : ~Repeated(a, i)}
           K == {i \in DOMAIN b : ~Repeated(b, i)}
           L == {i \in DOMAIN c : ~Repeated(c, i)}
<1>1. DOMAIN a = 1 .. Len(a) /\ DOMAIN b = 1 .. Len(b) /\ DOMAIN c = 1 .. Len(a) + Len(b)
  BY Neighbours
<1>0. c = a \o b
  OBVIOUS
<1> HIDE DEF c
<1>2. ASSUME NEW i \in 1 .. Len(a)
      PROVE  i \in L <=> i \in J
  <2>1. /\ c[i] = a[i] /\ i \in 1 .. Len(a) + Len(b)
        /\ At(c, i - 1, {CR}) <=> At(a, i - 1, {CR})
    BY <1>0, Neighbours
  <2>2. Repeated(c, i) <=> Repeated(a, i)
    BY <2>1 DEF Repeated
  <2> QED BY <1>1, <2>1, <2>2
<1>3. ASSUME NEW i \in 1 .. Len(b)
      PROVE  Len(a) + i \in L <=> i \in K
  <2>1. /\ c[Len(a) + i] = b[i] /\ Len(a) + i \in 1 .. Len(a) + Len(b)
        /\ i # 1 => (At(c, Len(a) + i - 1, {CR}) <=> At(b, i - 1, {CR}))
        /\ i = 1 => (At(c, Len(a) + i - 1, {CR}) <=> Len(a) # 0 /\ a[Len(a)] \in {CR})
    BY <1>0, Neighbours
  <2>2. i = 1 => ~At(c, Len(a) + i - 1, {CR}) /\ ~At(b, i - 1, {CR})
    <3>1. i = 1 => i - 1 \notin DOMAIN b
      BY <1>1
    <3> QED BY <2>1, <3>1 DEF EndsInCR, At
  <2>3. Repeated(c, Len(a) + i) <=> Repeated(b, i)
    BY <2>1, <2>2 DEF Repeated
  <2> QED BY <1>1, <2>1, <2>3
<1>4. J \in SUBSET (1 .. Len(a)) /\ K \in SUBSET (1 .. Len(b)) /\ L \in SUBSET (1 .. Len(a) + Len(b))
  BY <1>1
<1>5. EatRepeated(a) = Filter(a, J) /\ EatRepeated(b) = Filter(b, K) /\ EatRepeated(c) = Filter(c, L)
  BY DEF EatRepeated
<1> HIDE DEF J, K, L
<1>6. Together(L, J, K, Len(a), Len(b))
  BY <1>2, <1>3, <1>4 DEF Together
<1>7. Filter(a \o b, L) = Filter(a, J) \o Filter(b, K)
  BY <1>6, FilterConcat
<1> QED BY <1>0, <1>5, <1>7

(* "\r\n" within each of two texts.                                        *)
LEMMA BeforeLFConcat ==
  ASSUME NEW a \in Strings, NEW b \in Strings, ~EndsInCR(a)
  PROVE  EatBeforeLF(a \o b) = EatBeforeLF(a) \o EatBeforeLF(b)
<1> DEFINE c == a \o b
           J == {i \in DOMAIN a : ~BeforeLF(a, i)}
           K == {i \in DOMAIN b : ~BeforeLF(b, i)}
           L == {i \in DOMAIN c : ~BeforeLF(c, i)}
<1>1. /\ DOMAIN a = 1 .. Len(a) /\ DOMAIN b = 1 .. Len(b) /\ DOMAIN c = 1 .. Len(a) + Len(b)
      /\ Len(a) \in Nat
  BY Neighbours
<1>0. c = a \o b
  OBVIOUS
<1> HIDE DEF c
<1>2. ASSUME NEW i \in 1 .. Len(a)
      PROVE  i \in L <=> i \in J
  <2>1. /\ c[i] = a[i] /\ i \in 1 .. Len(a) + Len(b)
        /\ i # Len(a) => (At(c, i + 1, {LF}) <=> At(a, i + 1, {LF}))
    BY <1>0, Neighbours
  <2>2. i = Len(a) => a[i] # CR
    BY <1>1 DEF EndsInCR
  <2>3. BeforeLF(c, i) <=> BeforeLF(a, i)
    BY <2>1, <2>2 DEF BeforeLF
  <2> QED BY <1>1, <2>1, <2>3
<1>3. ASSUME NEW i \in 1 .. Len(b)
      PROVE  Len(a) + i \in L <=> i \in K
  <2>1. /\ c[Len(a) + i] = b[i] /\ Len(a) + i \in 1 .. Len(a) + Len(b)
        /\ At(c, Len(a) + i + 1, {LF}) <=> At(b, i + 1, {LF})
    BY <1>0, Neighbours
  <2>2. BeforeLF(c, Len(a) + i) <=> BeforeLF(b, i)
    BY <2>1 DEF BeforeLF
  <2> QED BY <1>1, <2>1, <2>2
<1>4. J \in SUBSET (1 .. Len(a)) /\ K \in SUBSET (1 .. Len(b)) /\ L \in SUBSET (1 .. Len(a) + Len(b))
  BY <1>1
<1>5. EatBeforeLF(a) = Filter(a, J) /\ EatBeforeLF(b) = Filter(b, K) /\ EatBeforeLF(c) = Filter(c, L)
  BY DEF EatBeforeLF
<1> HIDE DEF J, K, L
<1>6. Together(L, J, K, Len(a), Len(b))
  BY <1>2, <1>3, <1>4 DEF Together
<1>7. Filter(a \o b, L) = Filter(a, J) \o Filter(b, K)
  BY <1>6, FilterConcat
<1> QED BY <1>0, <1>5, <1>7

(* "\n\r" within each of two texts, if none comes about between them.      *)
LEMMA AfterLFConcat ==
  ASSUME NEW a \in Strings, NEW b \in Strings, ~EndsInCR(a),
         1 < Len(b) => b[1] # CR
  PROVE  EatAfterLF(a \o b) = EatAfterLF(a) \o EatAfterLF(b)
<1> DEFINE c == a \o b
           J == {i \in DOMAIN a : ~AfterLF(a, i)}
           K == {i \in DOMAIN b : ~AfterLF(b, i)}
           L == {i \in DOMAIN c : ~AfterLF(c, i)}
           other == Chars \ {CR, LF}
<1>1. /\ DOMAIN a = 1 .. Len(a) /\ DOMAIN b = 1 .. Len(b) /\ DOMAIN c = 1 .. Len(a) + Len(b)
      /\ Len(a) \in Nat /\ Len(b) \in Nat
  BY Neighbours
<1>0. c = a \o b
  OBVIOUS
<1> HIDE DEF c
<1>2. ASSUME NEW i \in 1 .. Len(a)
      PROVE  i \in L <=> i \in J
  <2> HIDE DEF other
  <2>1. c[i] = a[i] /\ i \in 1 .. Len(a) + Len(b)
    BY <1>0, Neighbours
  <2>5. At(c, i - 1, {LF}) <=> At(a, i - 1, {LF})
    BY <1>0, Neighbours
  <2>4. i # Len(a) => (At(c, i + 1, other) <=> At(a, i + 1, other))
    BY <1>0, Neighbours
  <2>2. i = Len(a) => a[i] # CR
    BY <1>1 DEF EndsInCR
  <2>3. AfterLF(c, i) <=> AfterLF(a, i)
    BY <2>1, <2>2, <2>4, <2>5 DEF AfterLF, other
  <2> QED BY <1>1, <2>1, <2>3
<1>3. ASSUME NEW i \in 1 .. Len(b)
      PROVE  Len(a) + i \in L <=> i \in K
  <2> HIDE DEF other
  <2>1. c[Len(a) + i] = b[i] /\ Len(a) + i \in 1 .. Len(a) + Len(b)
    BY <1>0, Neighbours
  <2>5. At(c, Len(a) + i + 1, other) <=> At(b, i + 1, other)
    BY <1>0, Neighbours
  <2>4. i # 1 => (At(c, Len(a) + i - 1, {LF}) <=> At(b, i - 1, {LF}))
    BY <1>0, Neighbours
  <2>2. i = 1 => ~(b[i] = CR /\ At(b, i + 1, other))
    <3>1. i = 1 /\ i + 1 \in DOMAIN b => 1 < Len(b)
      BY <1>1
    <3> QED BY <3>1 DEF At
  <2>3. AfterLF(c, Len(a) + i) <=> AfterLF(b, i)
    BY <2>1, <2>2, <2>4, <2>5 DEF AfterLF, other
  <2> QED BY <1>1, <2>1, <2>3
<1>4. J \in SUBSET (1 .. Len(a)) /\ K \in SUBSET (1 .. Len(b)) /\ L \in SUBSET (1 .. Len(a) + Len(b))
  BY <1>1
<1>5. EatAfterLF(a) = Filter(a, J) /\ EatAfterLF(b) = Filter(b, K) /\ EatAfterLF(c) = Filter(c, L)
  BY DEF EatAfterLF
<1> HIDE DEF J, K, L
<1>6. Together(L, J, K, Len(a), Len(b))
  BY <1>2, <1>3, <1>4 DEF Together
<1>7. Filter(a \o b, L) = Filter(a, J) \o Filter(b, K)
  BY <1>6, FilterConcat
<1> QED BY <1>0, <1>5, <1>7

(* A text in which each carriage return has its line feed.                 *)
Paired(s) == \A i \in 1 .. Len(s) : s[i] = CR => At(s, i + 1, {LF})

(* Of it, only the carriage returns before line feeds are dropped, and no  *)
(* other is left.                                                          *)
LEMMA PairedFacts ==
  ASSUME NEW s \in Strings, Paired(s)
  PROVE  /\ ~EndsInCR(s) /\ EatRepeated(s) = s
         /\ EatBeforeLF(s) \in Strings
         /\ \A i \in 1 .. Len(EatBeforeLF(s)) : EatBeforeLF(s)[i] # CR
         /\ ~EndsInCR(EatBeforeLF(s)) /\ EatAfterLF(EatBeforeLF(s)) = EatBeforeLF(s)
<1>1. Len(s) \in Nat /\ DOMAIN s = 1 .. Len(s)
  BY StringFacts
<1>2. ~EndsInCR(s)
  <2> SUFFICES ASSUME EndsInCR(s)
               PROVE  FALSE
    OBVIOUS
  <2>1. Len(s) \in 1 .. Len(s) /\ s[Len(s)] = CR
    BY <1>1 DEF EndsInCR
  <2>2. Len(s) + 1 \in 1 .. Len(s)
    BY <1>1, <2>1 DEF Paired, At
  <2> QED BY <1>1, <2>2
<1>3. EatRepeated(s) = s
  <2> DEFINE K == {i \in DOMAIN s : ~Repeated(s, i)}
  <2>1. ASSUME NEW i \in 1 .. Len(s)
        PROVE  ~Repeated(s, i)
    <3> SUFFICES ASSUME s[i] = CR, i - 1 \in 1 .. Len(s), s[i - 1] = CR
                 PROVE  FALSE
      BY <1>1 DEF Repeated, At
    <3> DEFINE j == i - 1
    <3>1. j \in 1 .. Len(s) /\ s[j] = CR /\ j + 1 = i
      BY <1>1
    <3> HIDE DEF j
    <3>2. s[i] = LF
      BY <3>1 DEF Paired, At
    <3> QED BY <3>2, CharFacts
  <2>2. K = 1 .. Len(s)
    BY <1>1, <2>1
  <2> HIDE DEF K
  <2>3. Filter(s, K) = s
    BY <2>2, FilterAll
  <2> QED BY <2>3 DEF EatRepeated, K
<1> DEFINE K == {i \in DOMAIN s : ~BeforeLF(s, i)}
           u == EatBeforeLF(s)
<1>4. u = Filter(s, K) /\ K \in SUBSET (1 .. Len(s))
  BY <1>1 DEF EatBeforeLF
<1>5. \A i \in K : s[i] # CR
  BY <1>1 DEF BeforeLF, Paired
<1> HIDE DEF K, u
<1>6. PICK e : Lists(e, K) /\ Picks(u, s, e)
  BY <1>4, FilterFacts
<1>7. /\ u \in Strings /\ Len(u) \in Nat /\ DOMAIN u = 1 .. Len(u)
      /\ \A i \in 1 .. Len(u) : u[i] # CR
  <2>1. u \in Strings /\ Len(u) = Len(e) /\ \A i \in 1 .. Len(e) : u[i] = s[e[i]]
    BY <1>6 DEF Picks
  <2>2. \A i \in 1 .. Len(e) : e[i] \in K
    BY <1>1, <1>4, <1>6, ListFacts
  <2> QED BY <1>5, <2>1, <2>2, StringFacts
<1>8. ~EndsInCR(u)
  BY <1>7 DEF EndsInCR
<1>9. EatAfterLF(u) = u
  <2> DEFINE L == {i \in DOMAIN u : ~AfterLF(u, i)}
  <2>1. L = 1 .. Len(u)
    BY <1>7 DEF AfterLF
  <2> HIDE DEF L
  <2>2. Filter(u, L) = u
    BY <1>7, <2>1, FilterAll
  <2> QED BY <2>2 DEF EatAfterLF, L
<1> QED BY <1>2, <1>3, <1>7, <1>8, <1>9 DEF u

(* It is cleaned up apart from what follows it.                            *)
LEMMA FixupConcat ==
  ASSUME NEW s \in Strings, Paired(s), NEW t \in Strings,
         1 < Len(EatBeforeLF(EatRepeated(t))) => EatBeforeLF(EatRepeated(t))[1] # CR
  PROVE  FixupCarriageReturns(s \o t) = EatBeforeLF(s) \o FixupCarriageReturns(t)
<1> DEFINE u == EatRepeated(t)
           v == EatBeforeLF(u)
           x == EatBeforeLF(s)
<1>1. /\ u \in Strings /\ v \in Strings
  <2>1. ASSUME NEW w \in Strings
        PROVE  EatRepeated(w) \in Strings /\ EatBeforeLF(w) \in Strings
    <3> DEFINE J == {i \in DOMAIN w : ~Repeated(w, i)}
               K == {i \in DOMAIN w : ~BeforeLF(w, i)}
    <3>1. J \in SUBSET (1 .. Len(w)) /\ K \in SUBSET (1 .. Len(w))
      BY StringFacts
    <3>2. EatRepeated(w) = Filter(w, J) /\ EatBeforeLF(w) = Filter(w, K)
      BY DEF EatRepeated, EatBeforeLF
    <3> HIDE DEF J, K
    <3> QED BY <3>1, <3>2, FilterFacts
  <2> QED BY <2>1
<1>2. /\ ~EndsInCR(s) /\ EatRepeated(s) = s /\ x \in Strings
      /\ ~EndsInCR(x) /\ EatAfterLF(x) = x
  BY PairedFacts
<1>3. EatRepeated(s \o t) = s \o u
  BY <1>2, RepeatedConcat
<1>4. EatBeforeLF(s \o u) = x \o v
  <2> HIDE DEF u
  <2> QED BY <1>1, <1>2, BeforeLFConcat
<1>5. EatAfterLF(x \o v) = x \o EatAfterLF(v)
  <2>1. 1 < Len(v) => v[1] # CR
    OBVIOUS
  <2> HIDE DEF v, x
  <2> QED BY <1>1, <1>2, <2>1, AfterLFConcat
<1> QED BY <1>3, <1>4, <1>5 DEF FixupCarriageReturns

-----------------------------------------------------------------------------
(* What the carriage returns of a text that ends with an unfinished line   *)
(* are to the three substitutions.                                         *)

(* A prompt at the start stays there if its two characters are kept.       *)
LEMMA FilterKeepsPrompt ==
  ASSUME NEW s \in Strings, NEW K \in SUBSET (1 .. Len(s)), Prompt(s, 1),
         1 \in K, 2 \in K
  PROVE  Prompt(Filter(s, K), 1)
<1>1. PICK e : Lists(e, K) /\ Picks(Filter(s, K), s, e)
  BY FilterFacts
<1> DEFINE t == Filter(s, K)
<1>2. /\ t \in Strings /\ Len(t) = Len(e) /\ Len(e) \in Nat
      /\ \A k \in 1 .. Len(e) : t[k] = s[e[k]] /\ e[k] \in Nat /\ k <= e[k]
      /\ \A k, l \in 1 .. Len(e) : k < l => e[k] < e[l]
      /\ \A i \in K : \E k \in 1 .. Len(e) : e[k] = i
  <2>1. Len(s) \in Nat
    BY StringFacts
  <2>2. Len(e) \in Nat /\ \A k \in 1 .. Len(e) : e[k] \in Nat
    BY <1>1, <2>1, ListFacts
  <2>3. \A k \in 1 .. Len(e) : k <= e[k]
    BY <1>1, <2>1, ListGrows
  <2> QED BY <1>1, <2>2, <2>3 DEF Lists, Picks
<1> HIDE DEF t
<1>3. PICK k \in 1 .. Len(e) : e[k] = 1
  BY <1>2
<1>4. PICK l \in 1 .. Len(e) : e[l] = 2
  BY <1>2
<1>5. k = 1
  BY <1>2, <1>3
<1>6. l = 2
  <2>1. l <= 2 /\ l # 1
    BY <1>2, <1>3, <1>4, <1>5
  <2> QED BY <1>2, <2>1
<1>7. 1 \in 1 .. Len(t) /\ 1 + 1 \in 1 .. Len(t) /\ t[1] = s[1] /\ t[1 + 1] = s[2]
  BY <1>2, <1>3, <1>4, <1>5, <1>6
<1>8. s[1] = "h" /\ s[2] = "#"
  BY DEF Prompt
<1> QED BY <1>7, <1>8 DEF Prompt, t

(* So each of the three substitutions keeps it,                            *)
LEMMA PromptLeads ==
  ASSUME NEW s \in Strings, Prompt(s, 1)
  PROVE  /\ Prompt(EatRepeated(s), 1) /\ EatRepeated(s) \in Strings
         /\ Prompt(EatBeforeLF(s), 1) /\ EatBeforeLF(s) \in Strings
         /\ Prompt(EatAfterLF(s), 1) /\ EatAfterLF(s) \in Strings
<1>1. /\ DOMAIN s = 1 .. Len(s) /\ 1 \in 1 .. Len(s) /\ 2 \in 1 .. Len(s)
      /\ s[1] # CR /\ s[2] # CR
  BY StringFacts, CharFacts DEF Prompt
<1> DEFINE J == {i \in DOMAIN s : ~Repeated(s, i)}
           K == {i \in DOMAIN s : ~BeforeLF(s, i)}
           L == {i \in DOMAIN s : ~AfterLF(s, i)}
<1>2. J \in SUBSET (1 .. Len(s)) /\ 1 \in J /\ 2 \in J
  BY <1>1 DEF Repeated
<1>3. K \in SUBSET (1 .. Len(s)) /\ 1 \in K /\ 2 \in K
  BY <1>1 DEF BeforeLF
<1>4. L \in SUBSET (1 .. Len(s)) /\ 1 \in L /\ 2 \in L
  BY <1>1 DEF AfterLF
<1>5. EatRepeated(s) = Filter(s, J) /\ EatBeforeLF(s) = Filter(s, K) /\ EatAfterLF(s) = Filter(s, L)
  BY DEF EatRepeated, EatBeforeLF, EatAfterLF
<1> HIDE DEF J, K, L
<1>6. Prompt(Filter(s, J), 1) /\ Filter(s, J) \in Strings
  BY <1>2, FilterKeepsPrompt, FilterFacts
<1>7. Prompt(Filter(s, K), 1) /\ Filter(s, K) \in Strings
  BY <1>3, FilterKeepsPrompt, FilterFacts
<1>8. Prompt(Filter(s, L), 1) /\ Filter(s, L) \in Strings
  BY <1>4, FilterKeepsPrompt, FilterFacts
<1> QED BY <1>5, <1>6, <1>7, <1>8

(* and so does fixup_carriage_returns.                                     *)
LEMMA FixupLeads ==
  ASSUME NEW s \in Strings, Prompt(s, 1)
  PROVE  /\ FixupCarriageReturns(s) \in Strings /\ Prompt(FixupCarriageReturns(s), 1)
         /\ EatBeforeLF(EatRepeated(s))[1] # CR
<1> DEFINE u == EatRepeated(s)
           v == EatBeforeLF(u)
<1>1. u \in Strings /\ Prompt(u, 1)
  BY PromptLeads
<1> HIDE DEF u
<1>2. v \in Strings /\ Prompt(v, 1)
  BY <1>1, PromptLeads
<1> HIDE DEF v
<1>3. EatAfterLF(v) \in Strings /\ Prompt(EatAfterLF(v), 1)
  BY <1>2, PromptLeads
<1>4. v[1] # CR
  BY <1>2, CharFacts DEF Prompt
<1> QED BY <1>3, <1>4 DEF FixupCarriageReturns, u, v

(* A line that has not ended, unless the carriage return of its end is     *)
(* there already.                                                          *)
Open(s) == \A i \in 1 .. Len(s) : s[i] # LF /\ (s[i] = CR => i = Len(s))

(* Nothing of it is dropped.                                               *)
LEMMA OpenFacts ==
  ASSUME NEW s \in Strings, Open(s)
  PROVE  /\ FixupCarriageReturns(s) = s
         /\ EatBeforeLF(EatRepeated(s)) = s /\ EatBeforeLF(s) = s
         /\ 1 < Len(s) => s[1] # CR
<1>1. Len(s) \in Nat /\ DOMAIN s = 1 .. Len(s)
  BY StringFacts
<1> DEFINE J == {i \in DOMAIN s : ~Repeated(s, i)}
           K == {i \in DOMAIN s : ~BeforeLF(s, i)}
           L == {i \in DOMAIN s : ~AfterLF(s, i)}
<1>2. ASSUME NEW i \in 1 .. Len(s)
      PROVE  ~Repeated(s, i) /\ ~BeforeLF(s, i) /\ ~AfterLF(s, i)
  <2>1. ~Repeated(s, i)
    <3> SUFFICES ASSUME i - 1 \in 1 .. Len(s), s[i - 1] = CR
                 PROVE  FALSE
      BY <1>1 DEF Repeated, At
    <3>1. i - 1 = Len(s)
      BY DEF Open
    <3> QED BY <1>1, <3>1
  <2>2. ~BeforeLF(s, i)
    BY <1>1 DEF BeforeLF, At, Open
  <2>3. ~AfterLF(s, i)
    BY <1>1 DEF AfterLF, At, Open
  <2> QED BY <2>1, <2>2, <2>3
<1>3. J = 1 .. Len(s) /\ K = 1 .. Len(s) /\ L = 1 .. Len(s)
  BY <1>1, <1>2
<1> HIDE DEF J, K, L
<1>4. Filter(s, J) = s /\ Filter(s, K) = s /\ Filter(s, L) = s
  BY <1>3, FilterAll
<1>5. EatRepeated(s) = s /\ EatBeforeLF(s) = s /\ EatAfterLF(s) = s
  BY <1>4 DEF EatRepeated, EatBeforeLF, EatAfterLF, J, K, L
<1>6. 1 < Len(s) => s[1] # CR
  <2>1. 1 < Len(s) => 1 \in 1 .. Len(s) /\ 1 # Len(s)
    BY <1>1
  <2> QED BY <2>1 DEF Open
<1> QED BY <1>5, <1>6 DEF FixupCarriageReturns

(* A line feed at the end stays.                                           *)
LEMMA EndStays ==
  ASSUME NEW s \in Strings, Ended(s)
  PROVE  /\ EatBeforeLF(s) \in Strings /\ Ended(EatBeforeLF(s))
         /\ Len(s) = 0 <=> Len(EatBeforeLF(s)) = 0
<1> DEFINE K == {i \in DOMAIN s : ~BeforeLF(s, i)}
           t == EatBeforeLF(s)
<1>1. Len(s) \in Nat /\ DOMAIN s = 1 .. Len(s) /\ K \in SUBSET (1 .. Len(s))
  BY StringFacts
<1>2. t = Filter(s, K)
  BY DEF EatBeforeLF
<1>3. Len(s) # 0 => Len(s) \in K /\ s[Len(s)] = LF
  BY <1>1, CharFacts DEF BeforeLF, Ended
<1> HIDE DEF K, t
<1>4. PICK e : Lists(e, K) /\ Picks(t, s, e)
  BY <1>1, <1>2, FilterFacts
<1>5. /\ t \in Strings /\ Len(t) = Len(e) /\ Len(e) \in Nat
      /\ \A k \in 1 .. Len(e) : t[k] = s[e[k]] /\ e[k] \in Nat /\ e[k] <= Len(s)
      /\ \A k, l \in 1 .. Len(e) : k < l => e[k] < e[l]
      /\ \A i \in K : \E k \in 1 .. Len(e) : e[k] = i
      /\ Len(e) <= Len(s)
  <2>2. Len(e) \in Nat /\ \A k \in 1 .. Len(e) : e[k] \in Nat /\ e[k] <= Len(s)
    BY <1>1, <1>4, ListFacts
  <2>3. Len(e) <= Len(s)
    BY <1>1, <1>4, ListGrows
  <2> QED BY <1>4, <2>2, <2>3 DEF Lists, Picks
<1>6. CASE Len(s) = 0
  <2>1. Len(t) = 0
    BY <1>5, <1>6
  <2> QED BY <1>5, <1>6, <2>1 DEF Ended, t
<1>7. CASE Len(s) # 0
  <2>1. PICK k \in 1 .. Len(e) : e[k] = Len(s)
    BY <1>3, <1>5, <1>7
  <2>2. k = Len(e)
    <3>1. Len(e) \in 1 .. Len(e)
      BY <1>5
    <3>2. ~(k < Len(e))
      BY <1>1, <1>5, <2>1, <3>1
    <3> QED BY <1>5, <3>2
  <2>3. t[Len(t)] = LF
    BY <1>3, <1>5, <1>7, <2>1, <2>2
  <2>4. Len(t) # 0
    BY <1>5, <2>1
  <2> QED BY <1>5, <1>7, <2>3, <2>4 DEF Ended, t
<1> QED BY <1>6, <1>7

(* Where a text's last line feed is.                                       *)
LEMMA LastLFIs ==
  ASSUME NEW s \in Strings, NEW m \in 0 .. Len(s), m # 0 => s[m] = LF,
         \A i \in m + 1 .. Len(s) : s[i] # LF
  PROVE  LastLF(s) = m
<1> DEFINE K == {i \in DOMAIN s : s[i] = LF}
<1>1. Len(s) \in Nat /\ DOMAIN s = 1 .. Len(s)
  BY StringFacts
<1>2. K \in SUBSET (1 .. Len(s)) /\ \A i \in K : i \in Nat /\ i <= m /\ i # 0
  BY <1>1
<1>3. m # 0 => m \in K
  BY <1>1
<1> HIDE DEF K
<1>4. /\ Greatest(K) = 0 <=> K = {}
      /\ K # {} => Greatest(K) \in K /\ \A i \in K : i <= Greatest(K)
  BY <1>1, <1>2, GreatestIs
<1> DEFINE g == Greatest(K)
<1>5. /\ m \in Nat
      /\ g = 0 <=> K = {}
      /\ K # {} => g \in K /\ \A i \in K : i <= g
  BY <1>1, <1>4
<1> HIDE DEF g
<1>6. g = m
  <2>1. CASE m = 0
    <3>1. K = {}
      BY <1>2, <2>1
    <3> QED BY <1>5, <2>1, <3>1
  <2>2. CASE m # 0
    <3>1. g \in K /\ m <= g
      BY <1>3, <1>5, <2>2
    <3>2. g \in Nat /\ g <= m
      BY <1>2, <3>1
    <3> QED BY <1>5, <3>1, <3>2
  <2> QED BY <2>1, <2>2
<1> QED BY <1>6 DEF LastLF, K, g

-----------------------------------------------------------------------------
(* What the appliance of ChunksInvisible sends, and what is kept of it.    *)

(* The text up to the prompt at p: each carriage return has its line feed, *)
(* each line feed its carriage return, and a line ends before the prompt.  *)
Neat(s, p) == /\ \A i \in 1 .. p - 1 : /\ s[i] = CR => i + 1 <= p - 1 /\ s[i + 1] = LF
                                       /\ s[i] = LF => 1 < i /\ s[i - 1] = CR
              /\ p # 1 => s[p - 1] = LF
              /\ Prompt(s, p)

(* This is what ChunksInvisible asks of the text.                          *)
LEMMA WellFormedIs ==
  ASSUME text \in Strings, PromptAt(text) # 0, WellFormed
  PROVE  /\ Neat(text, PromptAt(text)) /\ PromptAt(text) \in 1 .. Len(text)
         /\ Before = SubSeq(text, 1, PromptAt(text) - 1)
<1> DEFINE p == PromptAt(text)
           b == Before
           n == p - 1
<1>1. Prompt(text, p) /\ p \in 0 .. Len(text) /\ p # 0
  BY PromptAtIs
<1>2. Len(text) \in Nat /\ p \in 1 .. Len(text) /\ 1 \in 1 .. Len(text) + 1 /\ n \in 0 .. Len(text)
      /\ n = p - 1
  BY <1>1, StringFacts
<1>3. b = SubSeq(text, 1, n)
  BY DEF Before
<1> HIDE DEF p, b, n
<1>4. /\ b \in Strings /\ Len(b) = n /\ DOMAIN b = 1 .. n
      /\ \A i \in 1 .. n : b[i] = text[i]
  <2>1. /\ SubSeq(text, 1, n) \in Strings /\ Len(SubSeq(text, 1, n)) = n - 1 + 1
        /\ \A i \in 1 .. n - 1 + 1 : SubSeq(text, 1, n)[i] = text[1 + i - 1]
    BY <1>2, PartFacts
  <2>2. n - 1 + 1 = n /\ \A i \in 1 .. n : 1 + i - 1 = i
    BY <1>2
  <2> QED BY <1>3, <2>1, <2>2, StringFacts
<1>5. /\ \A i \in 1 .. n : /\ b[i] = CR => At(b, i + 1, {LF})
                           /\ b[i] = LF => At(b, i - 1, {CR})
      /\ b = <<>> \/ b[Len(b)] = LF
  BY <1>4 DEF WellFormed, b
<1>6. ASSUME NEW i \in 1 .. n
      PROVE  /\ text[i] = CR => i + 1 <= n /\ text[i + 1] = LF
             /\ text[i] = LF => 1 < i /\ text[i - 1] = CR
  <2>1. ASSUME text[i] = CR
        PROVE  i + 1 <= n /\ text[i + 1] = LF
    <3>1. i + 1 \in 1 .. n /\ b[i + 1] = LF
      BY <1>4, <1>5, <2>1 DEF At
    <3> QED BY <1>2, <1>4, <3>1
  <2>2. ASSUME text[i] = LF
        PROVE  1 < i /\ text[i - 1] = CR
    <3>1. i - 1 \in 1 .. n /\ b[i - 1] = CR
      BY <1>4, <1>5, <2>2 DEF At
    <3> QED BY <1>2, <1>4, <3>1
  <2> QED BY <2>1, <2>2
<1>7. p # 1 => text[n] = LF
  <2>1. p # 1 => n \in 1 .. n /\ Len(b) # 0
    BY <1>2, <1>4
  <2>2. Len(<<>>) = 0
    OBVIOUS
  <2> QED BY <1>4, <1>5, <2>1, <2>2
<1> QED BY <1>1, <1>2, <1>3, <1>6, <1>7 DEF Neat, p, b, n

(* Its whole lines, and the one that is not whole.                         *)
LEMMA WholePart ==
  ASSUME NEW s \in Strings, NEW p \in 1 .. Len(s), Neat(s, p),
         NEW m \in 0 .. p - 1, NEW l \in 0 .. m, l < m => s[m] = LF
  PROVE  /\ SubSeq(s, l + 1, m) \in Strings
         /\ Paired(SubSeq(s, l + 1, m)) /\ Ended(SubSeq(s, l + 1, m))
<1> DEFINE k == l + 1
           x == SubSeq(s, k, m)
<1>1. /\ Len(s) \in Nat /\ k \in 1 .. Len(s) + 1 /\ m \in k - 1 .. Len(s) /\ k = l + 1
      /\ l \in Nat /\ m \in Nat
  BY StringFacts
<1> HIDE DEF k
<1>2. /\ x \in Strings /\ Len(x) = m - l
      /\ \A i \in 1 .. m - l : x[i] = s[l + i]
  <2>1. /\ x \in Strings /\ Len(x) = m - k + 1
        /\ \A i \in 1 .. m - k + 1 : x[i] = s[k + i - 1]
    BY <1>1, PartFacts
  <2>2. m - k + 1 = m - l /\ \A i \in 1 .. m - l : k + i - 1 = l + i
    BY <1>1
  <2> QED BY <2>1, <2>2
<1> HIDE DEF x
<1>3. ASSUME NEW i \in 1 .. Len(x), x[i] = CR
      PROVE  At(x, i + 1, {LF})
  <2> DEFINE j == l + i
  <2>1. j \in 1 .. p - 1 /\ s[j] = CR /\ j <= m /\ j + 1 = l + (i + 1)
    BY <1>1, <1>2, <1>3
  <2>2. j # m
    <3>1. l < m
      BY <1>1, <1>2
    <3> HIDE DEF j
    <3> QED BY <2>1, <3>1, CharFacts
  <2>3. s[j + 1] = LF
    <3> HIDE DEF j
    <3> QED BY <2>1 DEF Neat
  <2>4. i + 1 \in 1 .. m - l
    BY <1>1, <1>2, <2>1, <2>2
  <2>5. x[i + 1] = LF
    BY <1>2, <2>1, <2>3, <2>4
  <2>6. i + 1 \in DOMAIN x
    BY <1>2, <2>4, StringFacts
  <2> QED BY <2>5, <2>6 DEF At
<1>4. Ended(x)
  <2>1. Len(x) # 0 => l < m /\ Len(x) \in 1 .. m - l /\ l + Len(x) = m
    BY <1>1, <1>2
  <2> QED BY <1>2, <2>1 DEF Ended
<1> QED BY <1>2, <1>3, <1>4 DEF Paired, x, k

(* Of the line that has not ended, a carriage return can only be the last  *)
(* character that has come.                                                *)
LEMMA OpenPart ==
  ASSUME NEW s \in Strings, NEW p \in 1 .. Len(s), Neat(s, p),
         NEW a \in 0 .. p, NEW m \in 0 .. a, \A i \in m + 1 .. a : s[i] # LF
  PROVE  SubSeq(s, m + 1, a) \in Strings /\ Open(SubSeq(s, m + 1, a))
<1> DEFINE k == m + 1
           x == SubSeq(s, k, a)
<1>1. /\ Len(s) \in Nat /\ k \in 1 .. Len(s) + 1 /\ a \in k - 1 .. Len(s) /\ k = m + 1
      /\ a \in Nat /\ m \in Nat
  BY StringFacts
<1> HIDE DEF k
<1>2. /\ x \in Strings /\ Len(x) = a - m
      /\ \A i \in 1 .. a - m : x[i] = s[m + i]
  <2>1. /\ x \in Strings /\ Len(x) = a - k + 1
        /\ \A i \in 1 .. a - k + 1 : x[i] = s[k + i - 1]
    BY <1>1, PartFacts
  <2>2. a - k + 1 = a - m /\ \A i \in 1 .. a - m : k + i - 1 = m + i
    BY <1>1
  <2> QED BY <2>1, <2>2
<1> HIDE DEF x
<1>3. ASSUME NEW i \in 1 .. Len(x)
      PROVE  x[i] # LF /\ (x[i] = CR => i = Len(x))
  <2> DEFINE j == m + i
  <2>1. j \in m + 1 .. a /\ x[i] = s[j] /\ j <= p
    BY <1>1, <1>2
  <2>2. ASSUME s[j] = CR
        PROVE  i = Len(x)
    <3>1. j # p
      <4> HIDE DEF j
      <4> QED BY <2>2, CharFacts DEF Neat, Prompt
    <3>2. j \in 1 .. p - 1
      BY <1>1, <2>1, <3>1
    <3>3. s[j + 1] = LF
      <4> HIDE DEF j
      <4> QED BY <2>2, <3>2 DEF Neat
    <3>4. ~(j + 1 \in m + 1 .. a)
      <4> HIDE DEF j
      <4> QED BY <3>3
    <3>5. j = a
      BY <1>1, <2>1, <3>4
    <3> QED BY <1>1, <1>2, <3>5
  <2> HIDE DEF j
  <2> QED BY <2>1, <2>2
<1> QED BY <1>2, <1>3 DEF Open, x, k

-----------------------------------------------------------------------------
(* Lines and the texts they are put together to.                           *)

(* A text without carriage returns.                                        *)
NoCR(s) == \A i \in 1 .. Len(s) : s[i] # CR

(* A line of such a text ends with one line feed.                          *)
LEMMA OneLFEnds ==
  ASSUME NEW s \in Strings, NoCR(s), NEW e, Lists(e, Starts(s)), NEW k \in 1 .. Len(e),
         LineEnd(s, e[k]) <= Len(s)
  PROVE  NextStart(s, e, k) = LineEnd(s, e[k]) + 1 /\ s[LineEnd(s, e[k])] = LF
<1> DEFINE l == LineEnd(s, e[k])
           j == l + 1
           n == NextStart(s, e, k)
<1>1. /\ Len(s) \in Nat /\ DOMAIN s = 1 .. Len(s)
      /\ e[k] \in 1 .. Len(s) /\ l \in e[k] .. Len(s) + 1
      /\ n \in e[k] + 1 .. Len(s) + 1
      /\ k < Len(e) => l < n
      /\ ~(k < Len(e)) => n = Len(s) + 1
      /\ l <= Len(s)
  BY StringFacts, LineFacts DEF NextStart
<1>2. s[l] = LF /\ l \in 1 .. Len(s)
  <2>1. s[l] \in {CR, LF} /\ l \in 1 .. Len(s)
    BY <1>1, LineEndIs
  <2> QED BY <2>1 DEF NoCR
<1> HIDE DEF l, n
<1>3. CASE j = Len(s) + 1
  BY <1>1, <1>2, <1>3 DEF l, n
<1>4. CASE j # Len(s) + 1
  <2>1. j \in 1 .. Len(s) /\ j - 1 = l /\ e[k] < j
    BY <1>1, <1>2, <1>4
  <2> HIDE DEF j
  <2>2. j \in Starts(s)
    BY <1>1, <1>2, <2>1 DEF Starts, EndsLine
  <2>3. PICK i \in 1 .. Len(e) : e[i] = j
    BY <2>2 DEF Lists
  <2>4. k < i
    <3>1. Starts(s) \in SUBSET (1 .. Len(s))
      BY <1>1 DEF Starts
    <3>2. \A a, b \in 1 .. Len(e) : a < b => e[a] < e[b]
      BY DEF Lists
    <3>6. Len(e) \in Nat
      BY <1>1, <3>1, ListFacts
    <3>3. e[i] \in Nat /\ e[k] \in Nat /\ i \in Nat /\ k \in Nat
      BY <1>1, <2>1, <2>3, <3>6
    <3>4. i < k => e[i] < e[k]
      BY <3>2
    <3>5. i = k => e[i] = e[k]
      OBVIOUS
    <3> QED BY <2>1, <2>3, <3>3, <3>4, <3>5
  <2>5. n = e[k + 1] /\ e[k + 1] <= j
    BY <2>3, <2>4, StartsOrdered DEF n
  <2>6. k < Len(e)
    BY <2>3, <2>4
  <2>7. l < n
    BY <1>1, <2>6
  <2>8. n = l + 1
    BY <1>1, <1>2, <2>1, <2>5, <2>7 DEF j
  <2> QED BY <1>2, <2>8 DEF l, n
<1> QED BY <1>3, <1>4

(* The lines of a text that ends its last one are that text again, but for *)
(* the last line feed.                                                     *)
LEMMA JoinSplit ==
  ASSUME NEW s \in Strings, NoCR(s), Ended(s), Len(s) # 0
  PROVE  Join(SplitLines(s)) \in Strings /\ Join(SplitLines(s)) \o <<LF>> = s
<1>1. PICK e : /\ Lists(e, Starts(s)) /\ Len(e) \in Nat
               /\ SplitLines(s) = [k \in 1 .. Len(e) |-> LineAt(s, e[k])]
  BY SplitLinesIs
<1> DEFINE lines == SplitLines(s)
<1>2. Len(lines) = Len(e) /\ \A k \in 1 .. Len(e) : lines[k] = LineAt(s, e[k])
  <2>1. lines \in Seq({LineAt(s, e[k]) : k \in 1 .. Len(e)}) /\ Len(lines) = Len(e)
    BY <1>1
  <2> QED BY <1>1, <2>1
<1>3. Len(s) \in Nat /\ Len(e) # 0 /\ e[1] = 1
  BY <1>1, LinesCover, StringFacts
<1> HIDE DEF lines
<1>4. PICK u : /\ Join(lines) = u[Len(lines)]
               /\ u[0] = <<>>
               /\ \A i \in 1 .. Len(lines) :
                    u[i] = IF i = 1 THEN lines[1] ELSE u[i - 1] \o <<LF>> \o lines[i]
  BY <1>1, <1>2, JoinUnfolds
<1> DEFINE N(k) == NextStart(s, e, k) - 1
(* Each line, its line feed behind it.                                     *)
<1>5. ASSUME NEW k \in 1 .. Len(e)
      PROVE  /\ lines[k] \in Strings /\ e[k] \in 1 .. Len(s) /\ N(k) \in e[k] .. Len(s)
             /\ lines[k] \o <<LF>> = SubSeq(s, e[k], N(k))
             /\ k = Len(e) => N(k) = Len(s)
             /\ k < Len(e) => e[k + 1] = N(k) + 1
  <2> DEFINE l == LineEnd(s, e[k])
  <2>1. /\ e[k] \in 1 .. Len(s) /\ l \in e[k] .. Len(s) + 1
        /\ \A j \in e[k] .. l - 1 : s[j] \notin {CR, LF}
        /\ NextStart(s, e, k) \in e[k] + 1 .. Len(s) + 1
    BY <1>1, LineFacts
  <2>2. l <= Len(s)
    <3>1. s[Len(s)] = LF
      BY DEF Ended
    <3>2. l = Len(s) + 1 => Len(s) \in e[k] .. l - 1
      BY <1>3, <2>1
    <3> HIDE DEF l
    <3> QED BY <1>3, <2>1, <3>1, <3>2
  <2>3. NextStart(s, e, k) = l + 1 /\ s[l] = LF
    BY <1>1, <2>2, OneLFEnds
  <2>4. lines[k] = SubSeq(s, e[k], l - 1) /\ lines[k] \in Strings
    BY <1>1, <1>2, LineIs
  <2> HIDE DEF l
  <2>5. N(k) = l
    BY <2>1, <2>3
  <2>6. SubSeq(s, l, l) = <<LF>>
    <3>1. l \in 1 .. Len(s) + 1 /\ l \in l - 1 .. Len(s) /\ l - l + 1 = 1 /\ l + 1 - 1 = l
      BY <1>3, <2>1, <2>2
    <3>2. /\ SubSeq(s, l, l) \in Strings /\ Len(SubSeq(s, l, l)) = 1
          /\ \A i \in 1 .. 1 : SubSeq(s, l, l)[i] = s[l + i - 1]
      BY <3>1, PartFacts
    <3>3. \A i \in 1 .. 1 : SubSeq(s, l, l)[i] = <<LF>>[i]
      BY <2>3, <3>1, <3>2
    <3> HIDE DEF l
    <3> QED BY <3>2, <3>3, OneLF, SameString
  <2>7. SubSeq(s, e[k], l) = SubSeq(s, e[k], l - 1) \o SubSeq(s, l, l)
    <3> DEFINE m == l - 1
    <3>1. /\ e[k] \in 1 .. Len(s) + 1 /\ m \in e[k] - 1 .. Len(s) /\ l \in m .. Len(s)
          /\ m + 1 = l
      BY <1>3, <2>1, <2>2
    <3> HIDE DEF m
    <3>2. SubSeq(s, e[k], l) = SubSeq(s, e[k], m) \o SubSeq(s, m + 1, l)
      BY <3>1, CutPart
    <3> QED BY <3>1, <3>2 DEF m
  <2>8. /\ k = Len(e) => N(k) = Len(s)
        /\ k < Len(e) => e[k + 1] = N(k) + 1
    BY <1>1, <1>3, <2>1 DEF NextStart
  <2>9. N(k) \in e[k] .. Len(s)
    BY <2>1, <2>2, <2>5
  <2> QED BY <2>1, <2>4, <2>5, <2>6, <2>7, <2>8, <2>9
<1> HIDE DEF N
<1> DEFINE T == {n \in Nat : n + 1 \in 1 .. Len(e) =>
                     u[n + 1] \in Strings /\ u[n + 1] \o <<LF>> = SubSeq(s, 1, N(n + 1))}
<1>6. 0 \in T
  <2>1. 1 \in 1 .. Len(e) /\ u[1] = lines[1]
    BY <1>1, <1>2, <1>3, <1>4
  <2>2. u[1] \in Strings /\ u[1] \o <<LF>> = SubSeq(s, 1, N(1))
    BY <1>3, <1>5, <2>1
  <2>3. 0 + 1 = 1 /\ 0 \in Nat
    OBVIOUS
  <2> QED BY <2>2, <2>3
<1>7. ASSUME NEW n \in T
      PROVE  n + 1 \in T
  <2> DEFINE i == n + 1
             k == i + 1
  <2>1. n \in Nat /\ i \in Nat
    OBVIOUS
  <2>2. CASE ~(k \in 1 .. Len(e))
    BY <2>1, <2>2
  <2>3. CASE k \in 1 .. Len(e)
    <3>1. i \in 1 .. Len(e) /\ i < Len(e) /\ k # 1 /\ k - 1 = i
      BY <1>1, <2>1, <2>3
    <3>2. u[i] \in Strings /\ u[i] \o <<LF>> = SubSeq(s, 1, N(i))
      BY <3>1
    <3> HIDE DEF i, T
    <3> HIDE DEF k
    <3>3. u[k] = u[i] \o <<LF>> \o lines[k]
      BY <1>2, <1>4, <2>3, <3>1
    <3>4. /\ lines[k] \in Strings /\ lines[k] \o <<LF>> = SubSeq(s, e[k], N(k))
          /\ N(k) \in e[k] .. Len(s) /\ e[k] \in 1 .. Len(s)
      BY <1>5, <2>3
    <3>5. e[k] = N(i) + 1 /\ N(i) \in 1 .. Len(s)
      <4>1. e[i + 1] = N(i) + 1 /\ N(i) \in e[i] .. Len(s) /\ e[i] \in 1 .. Len(s)
        BY <1>5, <3>1
      <4> QED BY <1>3, <4>1 DEF k
    <3> DEFINE a == u[i]
               b == lines[k]
               nl == <<LF>>
               c == N(i)
               f == N(k)
    <3>6. nl \in Strings /\ a \in Strings /\ b \in Strings
      BY <3>2, <3>4, OneLF
    <3>7. SubSeq(s, 1, f) = SubSeq(s, 1, c) \o SubSeq(s, c + 1, f)
      <4>1. 1 \in 1 .. Len(s) + 1 /\ c \in 1 - 1 .. Len(s) /\ f \in c .. Len(s)
        BY <1>3, <3>4, <3>5
      <4> HIDE DEF c, f
      <4> QED BY <4>1, CutPart
    <3>8. SubSeq(s, 1, f) = (a \o nl) \o (b \o nl)
      BY <3>2, <3>4, <3>5, <3>7
    <3>9. u[k] = (a \o nl) \o b
      BY <3>3
    <3> HIDE DEF a, b, nl, c
    <3>10. (a \o nl) \o b \in Strings /\ ((a \o nl) \o b) \o nl = (a \o nl) \o (b \o nl)
      BY <3>6 DEF Strings
    <3>11. u[k] \in Strings /\ u[k] \o nl = SubSeq(s, 1, f)
      BY <3>8, <3>9, <3>10
    <3> QED BY <2>1, <3>11 DEF T, i, k, nl
  <2> QED BY <2>2, <2>3
<1>8. T = Nat
  <2> HIDE DEF T
  <2>1. T \in SUBSET Nat
    BY DEF T
  <2> QED BY <1>6, <1>7, <2>1, NatSetInduction
<1> DEFINE n == Len(e) - 1
<1>9. n \in Nat /\ n + 1 \in 1 .. Len(e) /\ n + 1 = Len(e)
  BY <1>1, <1>3
<1>10. u[Len(e)] \in Strings /\ u[Len(e)] \o <<LF>> = SubSeq(s, 1, N(Len(e)))
  <2> HIDE DEF n
  <2> QED BY <1>8, <1>9
<1>11. N(Len(e)) = Len(s)
  BY <1>5, <1>9
<1>12. SubSeq(s, 1, Len(s)) = s
  BY DEF Strings
<1> QED BY <1>2, <1>4, <1>10, <1>11, <1>12 DEF lines

(* One line.                                                               *)
LEMMA OneLine ==
  ASSUME NEW w \in Strings, \A i \in 1 .. Len(w) : w[i] \notin {CR, LF},
         NEW nl \in {<<>>, <<LF>>, <<CR, LF>>}, Len(w) # 0 \/ nl # <<>>
  PROVE  SplitLines(w \o nl) = <<w>>
<1> DEFINE s == w \o nl
<1>1. /\ nl \in Strings /\ s \in Strings /\ Len(w) \in Nat
      /\ Len(nl) \in Nat
      /\ nl = <<>> => Len(nl) = 0
      /\ nl = <<LF>> => Len(nl) = 1
      /\ nl = <<CR, LF>> => Len(nl) = 2
      /\ nl = <<LF>> => nl[1] = LF
      /\ nl = <<CR, LF>> => nl[1] = CR /\ nl[2] = LF
  <2>1. Len(w) \in Nat
    BY StringFacts
  <2>2. nl \in Strings
    <3>1. <<>> \in Strings /\ <<LF>> \in Strings /\ <<CR, LF>> \in Strings
      BY CharFacts DEF Strings
    <3> QED BY <3>1
  <2>3. s \in Strings
    BY <2>2, ConcatFacts
  <2>4. /\ Len(<<>>) = 0
        /\ Len(<<LF>>) = 1 /\ <<LF>>[1] = LF
        /\ Len(<<CR, LF>>) = 2 /\ <<CR, LF>>[1] = CR /\ <<CR, LF>>[2] = LF
    OBVIOUS
  <2> HIDE DEF s
  <2>5. nl # <<>> /\ nl # <<LF>> => nl = <<CR, LF>>
    OBVIOUS
  <2>6. <<LF>> # <<>> /\ <<CR, LF>> # <<>> /\ <<CR, LF>> # <<LF>>
    BY <2>4
  <2> QED BY <2>1, <2>2, <2>3, <2>4, <2>5, <2>6
<1>2. /\ Len(s) = Len(w) + Len(nl) /\ DOMAIN s = 1 .. Len(s)
      /\ \A i \in 1 .. Len(w) : s[i] = w[i]
      /\ \A i \in 1 .. Len(nl) : s[Len(w) + i] = nl[i]
  <2>1. nl \in Strings /\ s = w \o nl /\ s \in Strings
    BY <1>1
  <2> HIDE DEF s
  <2> QED BY <2>1, ConcatFacts, StringFacts
<1>0. s = w \o nl
  OBVIOUS
<1> HIDE DEF s
<1>3. Len(s) \in Nat /\ Len(s) # 0 /\ 1 \in 1 .. Len(s)
  BY <1>1, <1>2
<1>4. Starts(s) = {1}
  <2>1. 1 \in Starts(s)
    BY <1>2, <1>3 DEF Starts
  <2>2. ASSUME NEW i \in 1 .. Len(s), i # 1
        PROVE  ~EndsLine(s, i - 1)
    <3> DEFINE j == i - 1
    <3>1. j \in 1 .. Len(s) /\ j + 1 = i
      BY <1>3, <2>2
    <3> HIDE DEF j
    <3>2. CASE j <= Len(w)
      <4>1. j \in 1 .. Len(w)
        BY <1>1, <3>1, <3>2
      <4> QED BY <1>2, <4>1 DEF EndsLine, j
    <3>3. CASE ~(j <= Len(w))
      <4>1. j = Len(w) + 1 /\ Len(nl) = 2 /\ i = Len(w) + 2
        BY <1>1, <1>2, <3>1, <3>3
      <4>5. nl # <<>> /\ nl # <<LF>>
        <5>1. /\ Len(nl) = 2
              /\ nl = <<>> => Len(nl) = 0
              /\ nl = <<LF>> => Len(nl) = 1
          BY <1>1, <4>1
        <5> QED BY <5>1
      <4>6. nl = <<CR, LF>>
        BY <4>5
      <4>4. nl = <<CR, LF>> /\ 1 \in 1 .. Len(nl) /\ 2 \in 1 .. Len(nl)
        BY <4>1, <4>6
      <4>2. s[j] = CR /\ s[i] = LF
        BY <1>1, <1>2, <4>1, <4>4
      <4>3. ~EndsLine(s, j)
        BY <1>2, <3>1, <4>2, CharFacts DEF EndsLine, At
      <4> QED BY <4>3 DEF j
    <3> QED BY <3>2, <3>3
  <2> QED BY <1>2, <2>1, <2>2 DEF Starts
<1>5. PICK e : /\ Lists(e, Starts(s)) /\ Len(e) \in Nat
               /\ SplitLines(s) = [k \in 1 .. Len(e) |-> LineAt(s, e[k])]
  BY <1>1, <1>0, SplitLinesIs
<1>6. e = <<1>>
  <2>1. Lists(<<1>>, {1})
    BY DEF Lists
  <2> QED BY <1>4, <1>5, <2>1, OneList
<1>7. LineEnd(s, 1) = Len(w) + 1
  <2> DEFINE l == Len(w) + 1
  <2>1. l \in 1 .. Len(s) + 1 /\ \A j \in 1 .. l - 1 : s[j] \notin {CR, LF}
    BY <1>1, <1>2
  <2>2. l <= Len(s) => s[l] \in {CR, LF}
    <3>1. l <= Len(s) => 1 \in 1 .. Len(nl)
      BY <1>1, <1>2
    <3>2. 1 \in 1 .. Len(nl) => s[Len(w) + 1] = nl[1]
      BY <1>2
    <3> QED BY <1>1, <3>1, <3>2
  <2> HIDE DEF l
  <2>3. s \in Strings /\ 1 \in 1 .. Len(s)
    BY <1>0, <1>1, <1>3
  <2>4. LineEnd(s, 1) = l
    BY <2>1, <2>2, <2>3, OneLineEnd
  <2> QED BY <2>4 DEF l
<1>8. LineAt(s, 1) = w
  <2>1. LineAt(s, 1) = SubSeq(s, 1, Len(w))
    BY <1>1, <1>7 DEF LineAt
  <2>2. Len(w) \in 0 .. Len(w)
    BY <1>1
  <2>3. SubSeq(w \o nl, 1, Len(w)) = SubSeq(w, 1, Len(w))
    BY <1>1, <2>2, BeginningOfConcat
  <2>4. SubSeq(w, 1, Len(w)) = w
    BY DEF Strings
  <2> QED BY <1>0, <2>1, <2>3, <2>4
<1>9. SplitLines(s) = <<w>>
  BY <1>5, <1>6, <1>8
<1> QED BY <1>0, <1>9

-----------------------------------------------------------------------------
(* The lines of a text are those of what is kept of it.                    *)

(* Each carriage return has its line feed, each line feed its carriage     *)
(* return, and the last line ends.                                         *)
Tidy(s) == /\ Paired(s) /\ Ended(s)
           /\ \A i \in 1 .. Len(s) : s[i] = LF => At(s, i - 1, {CR})

CRLF == <<CR, LF>>

(* Of this line end, the line feed is kept.                                *)
LEMMA CRLFFacts == /\ CRLF \in Strings /\ Len(CRLF) = 2 /\ CRLF[1] = CR /\ CRLF[2] = LF
                   /\ EatBeforeLF(CRLF) = <<LF>>
<1>1. CRLF \in Strings /\ Len(CRLF) = 2 /\ CRLF[1] = CR /\ CRLF[2] = LF
  BY CharFacts DEF Strings, CRLF
<1> DEFINE K == {i \in DOMAIN CRLF : ~BeforeLF(CRLF, i)}
<1>2. DOMAIN CRLF = 1 .. 2
  BY <1>1, StringFacts
<1>3. K = {2}
  <2>1. BeforeLF(CRLF, 1)
    BY <1>1, <1>2 DEF BeforeLF, At
  <2>2. ~BeforeLF(CRLF, 2)
    BY <1>1, CharFacts DEF BeforeLF
  <2>3. \A i \in 1 .. 2 : i = 1 \/ i = 2
    OBVIOUS
  <2>4. 2 \in 1 .. 2
    OBVIOUS
  <2> QED BY <1>2, <2>1, <2>2, <2>3, <2>4
<1> HIDE DEF K
<1>4. Lists(<<2>>, K)
  BY <1>3 DEF Lists
<1>5. Picks(<<LF>>, CRLF, <<2>>)
  <2>1. /\ Len(<<2>>) = 1 /\ <<2>>[1] = 2 /\ <<LF>>[1] = LF
        /\ \A k \in 1 .. 1 : k = 1
    OBVIOUS
  <2> QED BY <1>1, <2>1, OneLF DEF Picks
<1>6. K \in SUBSET (1 .. Len(CRLF))
  BY <1>1, <1>3
<1>7. <<LF>> = Filter(CRLF, K)
  BY <1>1, <1>4, <1>5, <1>6, PicksFilter
<1> QED BY <1>1, <1>7 DEF EatBeforeLF, K

(* The last line of such a text.                                           *)
LEMMA LastLine ==
  ASSUME NEW s \in Strings, Tidy(s), Len(s) # 0
  PROVE  \E a \in Strings, w \in Strings :
            /\ Tidy(a) /\ Len(a) < Len(s)
            /\ \A i \in 1 .. Len(w) : w[i] \notin {CR, LF}
            /\ s = a \o (w \o CRLF)
<1> DEFINE n == Len(s)
           q == n - 2
           r == n - 1
<1>1. n \in Nat /\ DOMAIN s = 1 .. n
  BY StringFacts
<1>2. s[n] = LF /\ r \in 1 .. n /\ s[r] = CR
  <2>1. s[n] = LF /\ n \in 1 .. n
    BY <1>1 DEF Tidy, Ended
  <2>2. At(s, n - 1, {CR})
    BY <2>1 DEF Tidy
  <2> QED BY <1>1, <2>1, <2>2 DEF At
<1>3. q \in Nat /\ q + 1 = r /\ q + 2 = n /\ q < n /\ r = n - 1
  BY <1>1, <1>2
<1>4. /\ \A i \in 1 .. n : s[i] = CR => i + 1 \in 1 .. n /\ s[i + 1] = LF
      /\ \A i \in 1 .. n : s[i] = LF => i - 1 \in 1 .. n /\ s[i - 1] = CR
  BY <1>1 DEF Tidy, Paired, At
<1> DEFINE K == {i \in 1 .. q : s[i] = LF}
           m == Greatest(K)
<1>5. /\ m \in 0 .. q
      /\ m # 0 => s[m] = LF
      /\ \A i \in 1 .. q : s[i] = LF => i <= m
  <2>1. K \in SUBSET (1 .. q) /\ \A i \in K : s[i] = LF /\ i \in 1 .. q
    OBVIOUS
  <2>2. \A i \in 1 .. q : s[i] = LF => i \in K
    OBVIOUS
  <2> HIDE DEF K, q
  <2>3. /\ Greatest(K) = 0 <=> K = {}
        /\ K # {} => Greatest(K) \in K /\ \A i \in K : i <= Greatest(K)
    BY <1>3, <2>1, GreatestIs
  <2>4. CASE K = {}
    BY <1>3, <2>2, <2>3, <2>4
  <2>5. CASE K # {}
    <3>1. m \in K /\ \A i \in K : i <= m
      BY <2>3, <2>5
    <3>2. m \in 1 .. q /\ s[m] = LF
      BY <2>1, <3>1
    <3> HIDE DEF m
    <3>3. m \in 0 .. q
      BY <3>2
    <3> QED BY <2>2, <3>1, <3>2, <3>3
  <2> QED BY <2>4, <2>5
<1> HIDE DEF K, m, n, q, r
<1> DEFINE a == SubSeq(s, 1, m)
           k == m + 1
           w == SubSeq(s, k, q)
<1>6. s = a \o (w \o CRLF)
  <2>1. s = SubSeq(s, 1, m) \o SubSeq(s, m + 1, Len(s))
    <3>1. m \in 0 .. Len(s)
      BY <1>1, <1>3, <1>5 DEF n
    <3> QED BY <3>1, CutInTwo
  <2>2. SubSeq(s, k, n) = SubSeq(s, k, q) \o SubSeq(s, q + 1, n)
    <3>1. k \in 1 .. Len(s) + 1 /\ q \in k - 1 .. Len(s) /\ n \in q .. Len(s)
      BY <1>1, <1>3, <1>5 DEF n
    <3> HIDE DEF k
    <3> QED BY <3>1, CutPart
  <2>3. SubSeq(s, r, n) = CRLF
    <3>1. r \in 1 .. Len(s) + 1 /\ n \in r - 1 .. Len(s) /\ n - r + 1 = 2
      BY <1>1, <1>2, <1>3 DEF n
    <3>2. /\ SubSeq(s, r, n) \in Strings /\ Len(SubSeq(s, r, n)) = 2
          /\ \A i \in 1 .. 2 : SubSeq(s, r, n)[i] = s[r + i - 1]
      BY <3>1, PartFacts
    <3>3. r + 1 - 1 = r /\ r + 2 - 1 = n /\ 1 \in 1 .. 2 /\ 2 \in 1 .. 2 /\ \A i \in 1 .. 2 : i = 1 \/ i = 2
      BY <1>1, <1>2, <1>3
    <3>4. SubSeq(s, r, n)[1] = CR /\ SubSeq(s, r, n)[2] = LF
      BY <1>2, <3>2, <3>3
    <3>5. \A i \in 1 .. 2 : SubSeq(s, r, n)[i] = CRLF[i]
      BY <3>3, <3>4, CRLFFacts
    <3> QED BY <3>2, <3>5, CRLFFacts, SameString
  <2> QED BY <1>3, <2>1, <2>2, <2>3 DEF n
<1>7. /\ a \in Strings /\ Len(a) = m /\ DOMAIN a = 1 .. m
      /\ \A i \in 1 .. m : a[i] = s[i]
  <2>1. 1 \in 1 .. Len(s) + 1 /\ m \in 1 - 1 .. Len(s) /\ m - 1 + 1 = m /\ \A i \in 1 .. m : 1 + i - 1 = i
    BY <1>1, <1>3, <1>5 DEF n
  <2> QED BY <2>1, PartFacts
<1>8. /\ w \in Strings /\ Len(w) = q - m
      /\ \A i \in 1 .. q - m : w[i] = s[m + i]
  <2>1. k \in 1 .. Len(s) + 1 /\ q \in k - 1 .. Len(s) /\ q - k + 1 = q - m
        /\ \A i \in 1 .. q - m : k + i - 1 = m + i
    BY <1>1, <1>3, <1>5 DEF n
  <2> HIDE DEF k
  <2> QED BY <2>1, PartFacts
<1> HIDE DEF a, w, k
<1>9. Tidy(a)
  <2>1. ASSUME NEW i \in 1 .. m
        PROVE  i \in 1 .. n /\ a[i] = s[i] /\ m \in 1 .. n /\ s[m] = LF /\ m \in Nat /\ n \in Nat
    BY <1>1, <1>3, <1>5, <1>7
  <2>2. ASSUME NEW i \in 1 .. m, a[i] = CR
        PROVE  At(a, i + 1, {LF})
    <3>1. i + 1 \in 1 .. n /\ s[i + 1] = LF /\ s[i] = CR
      BY <1>4, <2>1, <2>2
    <3>2. i # m
      BY <2>1, <3>1, CharFacts
    <3>3. i + 1 \in 1 .. m
      BY <1>5, <3>2
    <3>4. a[i + 1] = s[i + 1]
      BY <1>7, <3>3
    <3> QED BY <1>7, <3>1, <3>3, <3>4 DEF At
  <2>3. ASSUME NEW i \in 1 .. m, a[i] = LF
        PROVE  At(a, i - 1, {CR})
    <3>1. i - 1 \in 1 .. n /\ s[i - 1] = CR
      BY <1>4, <2>1, <2>3
    <3>2. i - 1 \in 1 .. m
      BY <1>5, <3>1
    <3>3. a[i - 1] = s[i - 1]
      BY <1>7, <3>2
    <3> QED BY <1>7, <3>1, <3>2, <3>3 DEF At
  <2>4. Ended(a)
    <3>1. m # 0 => m \in 1 .. m
      BY <1>5
    <3> QED BY <1>5, <1>7, <3>1 DEF Ended
  <2> QED BY <1>7, <2>2, <2>3, <2>4 DEF Tidy, Paired
<1>10. ASSUME NEW i \in 1 .. Len(w)
       PROVE  w[i] \notin {CR, LF}
  <2> DEFINE j == m + i
  <2>1. /\ i \in 1 .. q - m /\ j \in 1 .. q /\ j \in 1 .. n /\ ~(j <= m) /\ w[i] = s[j]
        /\ j \in Nat
    BY <1>1, <1>3, <1>5, <1>8
  <2> HIDE DEF j
  <2>2. s[j] # LF
    BY <1>5, <2>1
  <2>3. s[j] # CR
    <3> SUFFICES ASSUME s[j] = CR
                 PROVE  FALSE
      OBVIOUS
    <3>1. s[j + 1] = LF
      BY <1>4, <2>1
    <3>2. j + 1 # r
      BY <1>2, <3>1, CharFacts
    <3>3. j + 1 \in 1 .. q /\ ~(j + 1 <= m)
      BY <1>3, <1>5, <2>1, <3>2
    <3> QED BY <1>5, <3>1, <3>3
  <2> QED BY <2>1, <2>2, <2>3
<1>11. Len(a) < Len(s)
  BY <1>1, <1>3, <1>5, <1>7 DEF n
<1> QED BY <1>6, <1>7, <1>8, <1>9, <1>10, <1>11

(* Line by line, such a text and what is kept of it have the same lines.   *)
LEMMA SplitSame ==
  ASSUME NEW s \in Strings, Tidy(s)
  PROVE  SplitLines(EatBeforeLF(s)) = SplitLines(s)
<1> DEFINE T == {n \in Nat : \A t \in Strings : Len(t) <= n /\ Tidy(t) =>
                               SplitLines(EatBeforeLF(t)) = SplitLines(t)}
<1>1. 0 \in T
  <2>1. ASSUME NEW t \in Strings, Len(t) <= 0, Tidy(t)
        PROVE  SplitLines(EatBeforeLF(t)) = SplitLines(t)
    <3>1. Len(t) = 0
      BY <2>1, StringFacts
    <3>2. EatBeforeLF(t) \in Strings /\ Len(EatBeforeLF(t)) = 0
      BY <2>1, <3>1, EndStays DEF Tidy
    <3>3. t = <<>> /\ EatBeforeLF(t) = <<>>
      BY <3>1, <3>2, Nothing
    <3> QED BY <3>3
  <2> QED BY <2>1
<1>2. ASSUME NEW n \in T
      PROVE  n + 1 \in T
  <2>1. ASSUME NEW t \in Strings, Len(t) <= n + 1, Tidy(t)
        PROVE  SplitLines(EatBeforeLF(t)) = SplitLines(t)
    <3>1. n \in Nat /\ Len(t) \in Nat
      BY StringFacts
    <3>2. CASE Len(t) = 0
      <4>1. Len(t) <= n
        BY <3>1, <3>2
      <4> QED BY <2>1, <4>1
    <3>3. CASE Len(t) # 0
      <4>1. PICK a \in Strings, w \in Strings :
                   /\ Tidy(a) /\ Len(a) < Len(t)
                   /\ \A i \in 1 .. Len(w) : w[i] \notin {CR, LF}
                   /\ t = a \o (w \o CRLF)
        BY <2>1, <3>3, LastLine
      <4>2. SplitLines(EatBeforeLF(a)) = SplitLines(a)
        <5>1. Len(a) \in Nat
          BY StringFacts
        <5>2. Len(a) <= n
          BY <2>1, <3>1, <4>1, <5>1
        <5> QED BY <4>1, <5>2
      <4> HIDE DEF T
      <4> DEFINE l == w \o CRLF
                 v == w \o <<LF>>
      <4>3. l \in Strings /\ v \in Strings
        BY CRLFFacts, OneLF, ConcatFacts
      <4>4. EatBeforeLF(l) = v
        <5>1. Open(w) /\ ~EndsInCR(w)
          <6>1. Len(w) # 0 => Len(w) \in 1 .. Len(w)
            BY StringFacts
          <6> QED BY <4>1, <6>1 DEF Open, EndsInCR
        <5>2. EatBeforeLF(w) = w
          BY <5>1, OpenFacts
        <5>3. EatBeforeLF(w \o CRLF) = EatBeforeLF(w) \o EatBeforeLF(CRLF)
          BY <5>1, CRLFFacts, BeforeLFConcat
        <5> QED BY <5>2, <5>3, CRLFFacts
      <4>5. SplitLines(l) = <<w>>
        <5>1. CRLF \in {<<>>, <<LF>>, <<CR, LF>>} /\ CRLF # <<>>
          BY CRLFFacts, Nothing DEF CRLF
        <5> QED BY <4>1, <5>1, OneLine
      <4>6. SplitLines(v) = <<w>>
        <5>1. <<LF>> \in {<<>>, <<LF>>, <<CR, LF>>} /\ <<LF>> # <<>>
          BY OneLF, Nothing
        <5> QED BY <4>1, <5>1, OneLine
      <4> HIDE DEF l, v
      <4>7. Paired(a) /\ Ended(a) /\ ~EndsInCR(a) /\ t = a \o l
        BY <4>1, PairedFacts DEF Tidy, l
      <4>8. EatBeforeLF(t) = EatBeforeLF(a) \o v
        BY <4>3, <4>4, <4>7, BeforeLFConcat
      <4>9. EatBeforeLF(a) \in Strings /\ Ended(EatBeforeLF(a))
        BY <4>7, EndStays
      <4>10. SplitLines(t) = SplitLines(a) \o <<w>>
        BY <4>3, <4>5, <4>7, SplitConcat
      <4>11. SplitLines(EatBeforeLF(a) \o v) = SplitLines(EatBeforeLF(a)) \o <<w>>
        BY <4>3, <4>6, <4>9, SplitConcat
      <4> QED BY <4>2, <4>8, <4>10, <4>11
    <3> QED BY <3>2, <3>3
  <2>2. n + 1 \in Nat
    OBVIOUS
  <2> QED BY <2>1, <2>2
<1>3. T \in SUBSET Nat
  OBVIOUS
<1> HIDE DEF T
<1>4. T = Nat
  BY <1>1, <1>2, <1>3, NatSetInduction
<1>5. Len(s) \in T /\ Len(s) <= Len(s)
  BY <1>4, StringFacts
<1> QED BY <1>5 DEF T

-----------------------------------------------------------------------------
(* Blank lines at the end.                                                 *)

(* One blank line more at the end is not seen once they are trimmed.       *)
LEMMA TrimmedBlank ==
  ASSUME NEW lines \in Seq(Strings)
  PROVE  Trimmed(lines \o << <<>> >>) = Trimmed(lines)
<1> DEFINE n == Len(lines)
           more == lines \o << <<>> >>
           K == {k \in DOMAIN lines : lines[k] # <<>>}
           L == {k \in DOMAIN more : more[k] # <<>>}
<1>1. n \in Nat /\ DOMAIN lines = 1 .. n
  OBVIOUS
<1>2. << <<>> >> \in Seq(Strings) /\ Len(<< <<>> >>) = 1
  BY Nothing
<1>3. /\ more \in Seq(Strings) /\ Len(more) = n + 1 /\ DOMAIN more = 1 .. n + 1
      /\ \A k \in 1 .. n : more[k] = lines[k]
      /\ more[n + 1] = <<>>
  BY <1>1, <1>2
<1>0. more = lines \o << <<>> >>
  OBVIOUS
<1> HIDE DEF more, n
<1>4. K = L
  <2>1. ASSUME NEW k
        PROVE  k \in K <=> k \in L
    <3>1. k \in 1 .. n + 1 <=> k \in 1 .. n \/ k = n + 1
      BY <1>1
    <3> QED BY <1>1, <1>3, <3>1
  <2> HIDE DEF K, L
  <2> QED BY <2>1
<1>5. K \in SUBSET (1 .. n)
  BY <1>1
<1> HIDE DEF K
<1> DEFINE m == Greatest(K)
<1>6. m \in 0 .. n
  <2>1. /\ Greatest(K) = 0 <=> K = {}
        /\ K # {} => Greatest(K) \in K
    BY <1>1, <1>5, GreatestIs
  <2>2. K # {} => m \in 1 .. n
    BY <1>5, <2>1
  <2> QED BY <1>1, <2>1, <2>2
<1> HIDE DEF m
<1>7. SubSeq(more, 1, m) = SubSeq(lines, 1, m)
  <2>1. /\ SubSeq(more, 1, m) = [k \in 1 .. m |-> more[k]]
        /\ SubSeq(lines, 1, m) = [k \in 1 .. m |-> lines[k]]
    BY <1>1, <1>3, <1>6 DEF n
  <2>2. \A k \in 1 .. m : more[k] = lines[k]
    BY <1>1, <1>3, <1>6
  <2> QED BY <2>1, <2>2
<1>8. Trimmed(lines) = SubSeq(lines, 1, m)
  BY DEF Trimmed, m, K
<1>9. Trimmed(more) = SubSeq(more, 1, m)
  BY <1>4 DEF Trimmed, m, L
<1> QED BY <1>0, <1>7, <1>8, <1>9

(* A line feed behind a text ends its last line or adds a blank one.       *)
LEMMA TrimmedEnd ==
  ASSUME NEW s \in Strings, NoCR(s)
  PROVE  Trimmed(SplitLines(s \o <<LF>>)) = Trimmed(SplitLines(s))
<1> DEFINE K == {i \in 1 .. Len(s) : s[i] = LF}
           m == Greatest(K)
           a == SubSeq(s, 1, m)
           k == m + 1
           w == SubSeq(s, k, Len(s))
<1>1. Len(s) \in Nat /\ DOMAIN s = 1 .. Len(s)
  BY StringFacts
<1>2. /\ m \in 0 .. Len(s)
      /\ m # 0 => s[m] = LF
      /\ \A i \in 1 .. Len(s) : s[i] = LF => i <= m
  <2>1. K \in SUBSET (1 .. Len(s)) /\ \A i \in K : s[i] = LF
    OBVIOUS
  <2>2. \A i \in 1 .. Len(s) : s[i] = LF => i \in K
    OBVIOUS
  <2> HIDE DEF K
  <2>3. /\ Greatest(K) = 0 <=> K = {}
        /\ K # {} => Greatest(K) \in K /\ \A i \in K : i <= Greatest(K)
    BY <1>1, <2>1, GreatestIs
  <2>4. CASE K = {}
    BY <1>1, <2>2, <2>3, <2>4
  <2>5. CASE K # {}
    <3>1. m \in K /\ \A i \in K : i <= m
      BY <2>3, <2>5
    <3>2. m \in 1 .. Len(s) /\ s[m] = LF
      BY <2>1, <3>1
    <3> HIDE DEF m
    <3> QED BY <1>1, <2>2, <3>1, <3>2
  <2> QED BY <2>4, <2>5
<1> HIDE DEF K, m
<1>3. s = a \o w
  BY <1>2, CutInTwo
<1>4. a \in Strings /\ Len(a) = m /\ Ended(a)
  <2>1. 1 \in 1 .. Len(s) + 1 /\ m \in 1 - 1 .. Len(s) /\ m - 1 + 1 = m /\ \A i \in 1 .. m : 1 + i - 1 = i
    BY <1>1, <1>2
  <2>2. a \in Strings /\ Len(a) = m /\ \A i \in 1 .. m : a[i] = s[i]
    BY <2>1, PartFacts
  <2>3. m # 0 => m \in 1 .. m
    BY <1>2
  <2> QED BY <1>2, <2>2, <2>3 DEF Ended
<1>5. w \in Strings /\ \A i \in 1 .. Len(w) : w[i] \notin {CR, LF}
  <2>1. /\ k \in 1 .. Len(s) + 1 /\ Len(s) \in k - 1 .. Len(s) /\ Len(s) - k + 1 = Len(s) - m
        /\ \A i \in 1 .. Len(s) - m : k + i - 1 = m + i
    BY <1>1, <1>2
  <2> HIDE DEF k
  <2>2. /\ w \in Strings /\ Len(w) = Len(s) - m
        /\ \A i \in 1 .. Len(s) - m : w[i] = s[m + i]
    BY <2>1, PartFacts
  <2> HIDE DEF w
  <2>3. ASSUME NEW i \in 1 .. Len(w)
        PROVE  w[i] \notin {CR, LF}
    <3> DEFINE j == m + i
    <3>1. j \in 1 .. Len(s) /\ ~(j <= m) /\ w[i] = s[j]
      BY <1>1, <1>2, <2>2
    <3> HIDE DEF j
    <3>2. s[j] # LF /\ s[j] # CR
      BY <1>2, <3>1 DEF NoCR
    <3> QED BY <3>1, <3>2
  <2> QED BY <2>2, <2>3
<1> HIDE DEF a, w
<1> DEFINE nl == <<LF>>
           v == w \o nl
<1>6. nl \in Strings /\ v \in Strings /\ s \o nl = a \o v
  BY <1>3, <1>4, <1>5, OneLF DEF Strings
<1>7. SplitLines(v) = <<w>>
  <2>1. nl \in {<<>>, <<LF>>, <<CR, LF>>} /\ nl # <<>>
    BY OneLF, Nothing
  <2> HIDE DEF nl
  <2> QED BY <1>5, <2>1, OneLine
<1> HIDE DEF nl, v
<1>8. /\ SplitLines(s \o nl) = SplitLines(a) \o <<w>>
      /\ SplitLines(a) \in Seq(Strings)
  BY <1>4, <1>6, <1>7, SplitConcat
<1>9. CASE Len(w) = 0
  <2>1. w = <<>> /\ s = a
    BY <1>3, <1>4, <1>5, <1>9, Nothing
  <2> QED BY <1>8, <2>1, TrimmedBlank DEF nl
<1>10. CASE Len(w) # 0
  <2>1. SplitLines(w) = <<w>>
    <3>1. w \o <<>> = w /\ <<>> \in {<<>>, <<LF>>, <<CR, LF>>}
      BY <1>5, Nothing
    <3>2. SplitLines(w \o <<>>) = <<w>>
      BY <1>5, <1>10, <3>1, OneLine
    <3> QED BY <3>1, <3>2
  <2>2. SplitLines(s) = SplitLines(a) \o <<w>>
    BY <1>3, <1>4, <1>5, <2>1, SplitConcat
  <2> QED BY <1>8, <2>2 DEF nl
<1> QED BY <1>9, <1>10

-----------------------------------------------------------------------------
(* What has been read of such a text, before the prompt is complete: of    *)
(* its first m characters, which end its last whole line, the carriage     *)
(* returns are dropped; the rest is as it came.                            *)
WholeTo(m) ==
  /\ m \in 0 .. arrived /\ m < PromptAt(text)
  /\ m # 0 => text[m] = LF
  /\ \A i \in m + 1 .. arrived : text[i] # LF
  /\ received = EatBeforeLF(SubSeq(text, 1, m)) \o SubSeq(text, m + 1, arrived)
  /\ lineStart = Len(EatBeforeLF(SubSeq(text, 1, m)))

WholeLines ==
  result # "matched" /\ WellFormed /\ PromptAt(text) # 0 => \E m \in Nat : WholeTo(m)

(* A prompt is found in what has arrived once all of it has.               *)
LEMMA PromptReached ==
  ASSUME text \in Strings, PromptAt(text) # 0, NEW k \in 0 .. Len(text)
  PROVE  /\ PromptAt(SubSeq(text, 1, k)) = 0 => k <= PromptAt(text)
         /\ PromptAt(SubSeq(text, 1, k)) # 0 => PromptAt(text) + 1 <= k
<1> DEFINE p == PromptAt(text)
           c == SubSeq(text, 1, k)
<1>1. /\ p \in 0 .. Len(text) /\ Len(text) \in Nat /\ p # 0
      /\ Prompt(text, p) /\ \A i : Prompt(text, i) => p <= i
  BY PromptAtIs, StringFacts
<1>2. c \in Strings /\ Len(c) = k /\ \A i \in 1 .. k : c[i] = text[i]
  <2>1. 1 \in 1 .. Len(text) + 1 /\ k \in 1 - 1 .. Len(text) /\ k - 1 + 1 = k /\ \A i \in 1 .. k : 1 + i - 1 = i
    BY <1>1
  <2> QED BY <2>1, PartFacts
<1> HIDE DEF p, c
<1>3. ASSUME ~(k <= p)
      PROVE  PromptAt(c) # 0
  <2>1. p \in 1 .. k /\ p + 1 \in 1 .. k
    BY <1>1, <1>3
  <2>2. Prompt(c, p)
    BY <1>1, <1>2, <2>1 DEF Prompt
  <2> QED BY <1>2, <2>2, PromptAtIs
<1>4. ASSUME PromptAt(c) # 0
      PROVE  p + 1 <= k
  <2>1. PICK i : Prompt(c, i)
    BY <1>2, <1>4, PromptAtIs
  <2>2. i \in 1 .. k /\ i + 1 \in 1 .. k /\ c[i] = "h" /\ c[i + 1] = "#"
    BY <1>2, <2>1 DEF Prompt
  <2>3. text[i] = "h" /\ text[i + 1] = "#" /\ i \in 1 .. Len(text) /\ i + 1 \in 1 .. Len(text)
    BY <1>1, <1>2, <2>2
  <2>4. p <= i
    BY <1>1, <2>3 DEF Prompt
  <2> QED BY <1>1, <2>2, <2>4
<1> QED BY <1>3, <1>4 DEF p, c

(* What a round joins its chunk to.                                        *)
LEMMA JoinedTo ==
  ASSUME TypeInv, NEW m \in Nat, WholeTo(m), PromptAt(text) # 0, WellFormed,
         NEW n \in 1 .. MaxLength, arrived + n <= Len(text)
  PROVE  /\ Kept(n) = EatBeforeLF(SubSeq(text, 1, m))
         /\ Fresh(n) = FixupCarriageReturns(SubSeq(text, m + 1, arrived + n))
         /\ SubSeq(text, 1, m) \in Strings
         /\ Paired(SubSeq(text, 1, m)) /\ Ended(SubSeq(text, 1, m))
         /\ EatBeforeLF(SubSeq(text, 1, m)) \in Strings /\ Ended(EatBeforeLF(SubSeq(text, 1, m)))
         /\ ~EndsInCR(SubSeq(text, 1, m))
<1> DEFINE V == EatBeforeLF(SubSeq(text, 1, m))
           k == m + 1
           y == SubSeq(text, k, arrived)
           c == SubSeq(text, arrived + 1, arrived + n)
           l == arrived + n
           p == PromptAt(text)
<1>1. /\ text \in Strings /\ Len(text) \in Nat /\ arrived \in Nat /\ arrived <= Len(text)
      /\ n \in Nat /\ n >= 1
  BY TextFacts, MaxLengthAssumption
<1>2. /\ m \in 0 .. arrived /\ m < p
      /\ m # 0 => text[m] = LF
      /\ received = V \o y /\ lineStart = Len(V)
  BY DEF WholeTo
<1>3. Neat(text, p) /\ p \in 1 .. Len(text)
  BY <1>1, WellFormedIs
<1>4. /\ SubSeq(text, 1, m) \in Strings
      /\ Paired(SubSeq(text, 1, m)) /\ Ended(SubSeq(text, 1, m))
  <2>1. m \in 0 .. p - 1 /\ 0 \in 0 .. m /\ 0 + 1 = 1 /\ 0 < m => text[m] = LF
    BY <1>1, <1>2, <1>3
  <2> HIDE DEF p
  <2>2. /\ SubSeq(text, 0 + 1, m) \in Strings
        /\ Paired(SubSeq(text, 0 + 1, m)) /\ Ended(SubSeq(text, 0 + 1, m))
    <3>1. m \in 0 .. p - 1 /\ 0 \in 0 .. m
      BY <1>1, <1>2, <1>3
    <3>2. 0 < m => text[m] = LF
      BY <1>2
    <3> QED BY <1>1, <1>3, <3>1, <3>2, WholePart
  <2> QED BY <2>2
<1>5. V \in Strings /\ Ended(V) /\ ~EndsInCR(SubSeq(text, 1, m))
  BY <1>4, EndStays, PairedFacts
<1>6. y \in Strings /\ c \in Strings
  <2>1. k \in 1 .. Len(text) + 1 /\ arrived \in k - 1 .. Len(text)
    BY <1>1, <1>2
  <2>2. c \in Strings
    BY ChunkFacts DEF Chunk
  <2> HIDE DEF k
  <2> QED BY <1>1, <2>1, <2>2, PartFacts
<1>7. SubSeq(text, k, l) = y \o c
  <2>1. k \in 1 .. Len(text) + 1 /\ arrived \in k - 1 .. Len(text) /\ l \in arrived .. Len(text)
    BY <1>1, <1>2
  <2> HIDE DEF k, l
  <2>2. SubSeq(text, k, l) = SubSeq(text, k, arrived) \o SubSeq(text, arrived + 1, l)
    BY <1>1, <2>1, CutPart
  <2> QED BY <2>2 DEF l
<1> HIDE DEF V, y, c
<1> DEFINE z == y \o c
<1>8. z \in Strings /\ Raw(n) = V \o z
  <2>1. Raw(n) = (V \o y) \o c
    BY <1>2 DEF Raw, Chunk, c
  <2> QED BY <1>5, <1>6, <2>1 DEF Strings
<1> HIDE DEF z
<1>9. SubSeq(Raw(n), lineStart + 1, Len(Raw(n))) = z
  BY <1>2, <1>5, <1>8, EndOfTwo
<1>10. Kept(n) = V
  <2>1. SubSeq(V \o z, 1, Len(V)) = SubSeq(V, 1, Len(V))
    <3>1. Len(V) \in 0 .. Len(V)
      BY <1>5, StringFacts
    <3> QED BY <1>5, <1>8, <3>1, BeginningOfConcat
  <2>2. SubSeq(V, 1, Len(V)) = V
    BY <1>5 DEF Strings
  <2> QED BY <1>2, <1>8, <2>1, <2>2 DEF Kept
<1>11. Fresh(n) = FixupCarriageReturns(SubSeq(text, k, l))
  BY <1>7, <1>9 DEF Fresh, z
<1> QED BY <1>4, <1>5, <1>10, <1>11 DEF V

(* A round before the prompt is complete.                                  *)
LEMMA ReceiveWhole ==
  ASSUME Inv, NEW m \in Nat, WholeTo(m), PromptAt(text) # 0, WellFormed,
         NEW n \in 1 .. MaxLength, arrived + n <= Len(text), arrived + n <= PromptAt(text)
  PROVE  \E h \in Nat :
           /\ h \in 0 .. arrived + n /\ h < PromptAt(text)
           /\ h # 0 => text[h] = LF
           /\ \A i \in h + 1 .. arrived + n : text[i] # LF
           /\ Data(n) = EatBeforeLF(SubSeq(text, 1, h)) \o SubSeq(text, h + 1, arrived + n)
           /\ LastLF(Data(n)) = Len(EatBeforeLF(SubSeq(text, 1, h)))
<1> DEFINE l == arrived + n
           p == PromptAt(text)
           K == {i \in 1 .. l : text[i] = LF}
           h == Greatest(K)
<1>1. /\ text \in Strings /\ Len(text) \in Nat /\ arrived \in Nat /\ arrived <= Len(text)
      /\ n \in Nat /\ n >= 1 /\ TypeInv
  BY TextFacts, MaxLengthAssumption DEF Inv
<1>2. /\ m \in 0 .. arrived /\ m < p
      /\ m # 0 => text[m] = LF
  BY DEF WholeTo
<1>3. Neat(text, p) /\ p \in 1 .. Len(text)
  BY <1>1, WellFormedIs
<1>4. /\ h \in 0 .. l /\ m <= h
      /\ h # 0 => text[h] = LF
      /\ \A i \in 1 .. l : text[i] = LF => i <= h
  <2>1. K \in SUBSET (1 .. l) /\ \A i \in K : text[i] = LF
    OBVIOUS
  <2>2. /\ \A i \in 1 .. l : text[i] = LF => i \in K
        /\ l \in Nat
        /\ m # 0 => m \in 1 .. l
    BY <1>1, <1>2
  <2> HIDE DEF K, l, p
  <2>3. /\ Greatest(K) = 0 <=> K = {}
        /\ K # {} => Greatest(K) \in K /\ \A i \in K : i <= Greatest(K)
    BY <2>1, <2>2, GreatestIs
  <2>4. CASE K = {}
    <3>1. h = 0
      BY <2>3, <2>4
    <3>2. m = 0
      BY <1>2, <2>2, <2>4
    <3> QED BY <2>2, <2>4, <3>1, <3>2
  <2>5. CASE K # {}
    <3>1. h \in K /\ \A i \in K : i <= h
      BY <2>3, <2>5
    <3>2. h \in 1 .. l /\ text[h] = LF
      BY <2>1, <3>1
    <3> HIDE DEF h
    <3>3. m <= h
      <4>1. m # 0 => m \in K
        BY <1>2, <2>2
      <4> QED BY <2>2, <3>1, <3>2, <4>1
    <3> QED BY <2>2, <3>1, <3>2, <3>3
  <2> QED BY <2>4, <2>5
<1>5. l <= p /\ l \in Nat /\ l <= Len(text) /\ l = arrived + n /\ l \in m .. Len(text)
  BY <1>1, <1>2
<1> HIDE DEF K, h
<1>6. h < p
  <2>1. text[p] # LF
    BY <1>3, CharFacts DEF Neat, Prompt
  <2> HIDE DEF p, l
  <2> QED BY <1>2, <1>3, <1>4, <1>5, <2>1
<1>7. \A i \in h + 1 .. l : text[i] # LF
  <2> HIDE DEF l
  <2>1. ASSUME NEW i \in h + 1 .. l
        PROVE  text[i] # LF
    <3>1. i \in 1 .. l /\ ~(i <= h)
      BY <1>4, <1>5
    <3> QED BY <1>4, <3>1
  <2> QED BY <2>1
<1> HIDE DEF l, p
<1> DEFINE A == SubSeq(text, 1, m)
           B == SubSeq(text, 1, h)
           x == SubSeq(text, m + 1, h)
           y == SubSeq(text, h + 1, l)
           V == EatBeforeLF(A)
           X == EatBeforeLF(x)
           W == EatBeforeLF(B)
<1>8. /\ Kept(n) = V
      /\ Fresh(n) = FixupCarriageReturns(SubSeq(text, m + 1, l))
      /\ A \in Strings /\ V \in Strings /\ ~EndsInCR(A)
  <2>1. arrived + n <= Len(text)
    BY <1>5
  <2> HIDE DEF A
  <2>2. /\ Kept(n) = EatBeforeLF(SubSeq(text, 1, m))
        /\ Fresh(n) = FixupCarriageReturns(SubSeq(text, m + 1, arrived + n))
        /\ SubSeq(text, 1, m) \in Strings
        /\ EatBeforeLF(SubSeq(text, 1, m)) \in Strings
        /\ ~EndsInCR(SubSeq(text, 1, m))
    BY <1>1, <2>1, JoinedTo
  <2> QED BY <1>5, <2>2 DEF A
<1>9. x \in Strings /\ Paired(x) /\ Ended(x) /\ B \in Strings /\ Paired(B) /\ Ended(B)
  <2>1. h \in 0 .. p - 1 /\ m \in 0 .. h /\ 0 \in 0 .. h
    BY <1>2, <1>3, <1>4, <1>5, <1>6
  <2>2. /\ m < h => text[h] = LF
        /\ 0 < h => text[h] = LF
    BY <1>2, <1>4
  <2>3. x \in Strings /\ Paired(x) /\ Ended(x)
    BY <1>1, <1>3, <2>1, <2>2, WholePart
  <2>4. /\ SubSeq(text, 0 + 1, h) \in Strings
        /\ Paired(SubSeq(text, 0 + 1, h)) /\ Ended(SubSeq(text, 0 + 1, h))
    BY <1>1, <1>3, <2>1, <2>2, WholePart
  <2> QED BY <2>3, <2>4
<1>10. y \in Strings /\ Open(y)
  <2>1. l \in 0 .. p /\ h \in 0 .. l
    BY <1>3, <1>4, <1>5
  <2> QED BY <1>1, <1>3, <1>7, <2>1, OpenPart
<1>11. SubSeq(text, m + 1, l) = x \o y
  <2> DEFINE k == m + 1
  <2>1. k \in 1 .. Len(text) + 1 /\ h \in k - 1 .. Len(text) /\ l \in h .. Len(text)
    BY <1>1, <1>2, <1>4, <1>5
  <2> HIDE DEF k
  <2>2. SubSeq(text, k, l) = SubSeq(text, k, h) \o SubSeq(text, h + 1, l)
    BY <1>1, <2>1, CutPart
  <2> QED BY <2>2 DEF k
<1>12. B = A \o x
  <2>1. 1 \in 1 .. Len(text) + 1 /\ m \in 1 - 1 .. Len(text) /\ h \in m .. Len(text)
    BY <1>1, <1>2, <1>4, <1>5
  <2> QED BY <1>1, <2>1, CutPart
<1> HIDE DEF A, B, x, y
<1>13. Fresh(n) = X \o y
  <2>1. 1 < Len(EatBeforeLF(EatRepeated(y))) => EatBeforeLF(EatRepeated(y))[1] # CR
    BY <1>10, OpenFacts
  <2>2. FixupCarriageReturns(x \o y) = EatBeforeLF(x) \o FixupCarriageReturns(y)
    BY <1>9, <1>10, <2>1, FixupConcat
  <2>3. FixupCarriageReturns(y) = y
    BY <1>10, OpenFacts
  <2> QED BY <1>8, <1>11, <2>2, <2>3
<1>14. W = V \o X
  BY <1>8, <1>9, <1>12, BeforeLFConcat
<1>15. X \in Strings /\ W \in Strings /\ Ended(W)
  BY <1>9, EndStays
<1> HIDE DEF V, X, W
<1>16. Data(n) = W \o y
  <2>1. Data(n) = V \o (X \o y)
    BY <1>8, <1>13 DEF Data
  <2> QED BY <1>8, <1>10, <1>14, <1>15, <2>1 DEF Strings
<1>17. LastLF(W \o y) = Len(W)
  <2> DEFINE s == W \o y
             q == Len(W)
  <2>1. /\ s \in Strings /\ Len(s) = q + Len(y) /\ q \in Nat /\ Len(y) \in Nat
        /\ \A i \in 1 .. q : s[i] = W[i]
        /\ \A i \in 1 .. Len(y) : s[q + i] = y[i]
    BY <1>10, <1>15, ConcatFacts, StringFacts
  <2>2. q # 0 => W[q] = LF
    BY <1>15 DEF Ended
  <2> HIDE DEF s, q
  <2>3. q \in 0 .. Len(s)
    BY <2>1
  <2>4. q # 0 => s[q] = LF
    BY <2>1, <2>2
  <2>5. ASSUME NEW i \in q + 1 .. Len(s)
        PROVE  s[i] # LF
    <3> DEFINE j == i - q
    <3>1. j \in 1 .. Len(y) /\ i = q + j
      BY <2>1
    <3> HIDE DEF j
    <3> QED BY <1>10, <2>1, <3>1 DEF Open
  <2>6. LastLF(s) = q
    BY <2>1, <2>3, <2>4, <2>5, LastLFIs
  <2> QED BY <2>6 DEF s, q
<1>18. /\ h \in Nat /\ h \in 0 .. l /\ h < p
       /\ h # 0 => text[h] = LF
       /\ \A i \in h + 1 .. l : text[i] # LF
       /\ Data(n) = W \o y /\ LastLF(Data(n)) = Len(W)
  BY <1>4, <1>6, <1>7, <1>16, <1>17
<1> QED BY <1>18 DEF W, B, y, l, p

-----------------------------------------------------------------------------
(* The round that completes the prompt.                                    *)

(* Concatenation is associative.                                           *)
LEMMA ConcatTwice ==
  ASSUME NEW a \in Strings, NEW b \in Strings, NEW c \in Strings
  PROVE  (a \o b) \o c = a \o (b \o c)
BY DEF Strings

(* The lines before a prompt at the start of a line.                       *)
LEMMA HitBehind ==
  ASSUME NEW a \in Strings, Ended(a), PromptAt(a) = 0, NEW b \in Strings, Prompt(b, 1)
  PROVE  LET lines == SplitLines(a \o b)
             n == Hit(lines)
         IN  /\ n # 0
             /\ Join(SubSeq(lines, 1, n - 1)) = Join(SplitLines(a))
             /\ SubSeq(lines[n], 1, PromptAt(lines[n]) - 1) = <<>>
<1> DEFINE A == SplitLines(a)
           B == SplitLines(b)
           lines == A \o B
           m == Len(A)
           h == m + 1
<1>1. SplitLines(a \o b) = lines /\ A \in Seq(Strings) /\ B \in Seq(Strings)
  BY SplitConcat
<1>2. PICK d : /\ Lists(d, Starts(a)) /\ Len(d) \in Nat
               /\ A = [k \in 1 .. Len(d) |-> LineAt(a, d[k])]
  BY SplitLinesIs
<1>3. PICK e : /\ Lists(e, Starts(b)) /\ Len(e) \in Nat
               /\ B = [k \in 1 .. Len(e) |-> LineAt(b, e[k])]
  BY SplitLinesIs
<1>4. Len(b) \in Nat /\ Len(b) # 0 /\ 1 \in 1 .. Len(b)
  BY StringFacts DEF Prompt
<1>5. 1 \in 1 .. Len(e) /\ e[1] = 1
  BY <1>3, <1>4, LinesCover
<1>6. /\ m = Len(d) /\ \A k \in 1 .. m : A[k] = LineAt(a, d[k])
      /\ Len(B) = Len(e) /\ B[1] = LineAt(b, 1)
  <2>1. Len(A) = Len(d) /\ \A k \in 1 .. Len(d) : A[k] = LineAt(a, d[k])
    <3>1. \A k \in 1 .. Len(d) : LineAt(a, d[k]) \in Strings
      BY <1>2, LineIs
    <3> HIDE DEF A
    <3> QED BY <1>2, <3>1
  <2>2. Len(B) = Len(e) /\ \A k \in 1 .. Len(e) : B[k] = LineAt(b, e[k])
    <3>1. \A k \in 1 .. Len(e) : LineAt(b, e[k]) \in Strings
      BY <1>3, LineIs
    <3> HIDE DEF B
    <3> QED BY <1>3, <3>1
  <2> HIDE DEF A, B
  <2> QED BY <1>5, <2>1, <2>2
<1> HIDE DEF A, B
<1>7. /\ lines \in Seq(Strings) /\ Len(lines) = m + Len(B) /\ m \in Nat
      /\ DOMAIN lines = 1 .. m + Len(B) /\ Len(B) \in Nat /\ 1 \in 1 .. Len(B)
      /\ \A k \in 1 .. m : lines[k] = A[k]
      /\ \A k \in 1 .. Len(B) : lines[m + k] = B[k]
  BY <1>1, <1>3, <1>5, <1>6
<1>0. lines = A \o B
  OBVIOUS
<1> HIDE DEF lines, m
<1>8. ASSUME NEW k \in 1 .. m
      PROVE  PromptAt(lines[k]) = 0
  <2>1. lines[k] = LineAt(a, d[k]) /\ k \in 1 .. Len(d)
    BY <1>6, <1>7
  <2>2. LineAt(a, d[k]) \in Strings
    BY <1>2, <2>1, LineIs
  <2>3. \A i : ~Prompt(a, i)
    BY PromptAtIs
  <2>4. \A i : ~Prompt(LineAt(a, d[k]), i)
    BY <1>2, <2>1, <2>3, PromptInLine
  <2> QED BY <2>1, <2>2, <2>4, PromptAtIs
<1>9. /\ h \in DOMAIN lines /\ PromptAt(lines[h]) = 1
  <2>1. lines[h] = LineAt(b, 1) /\ h \in DOMAIN lines
    <3>1. lines[m + 1] = B[1]
      BY <1>7
    <3>2. m + 1 \in 1 .. m + Len(B)
      BY <1>7
    <3> QED BY <1>6, <1>7, <3>1, <3>2
  <2>2. LineAt(b, 1) \in Strings
    BY <1>3, <1>5, LineIs
  <2>3. 1 < NextStart(b, e, 1)
    <3>1. NextStart(b, e, 1) \in e[1] + 1 .. Len(b) + 1
      BY <1>3, <1>5, LineFacts
    <3> QED BY <1>4, <1>5, <3>1
  <2>4. Prompt(LineAt(b, 1), 1)
    <3>1. \A q : Prompt(b, q) /\ e[1] <= q /\ q < NextStart(b, e, 1) =>
                   Prompt(LineAt(b, e[1]), q - e[1] + 1)
      BY <1>3, <1>5, PromptInLine
    <3>2. Prompt(LineAt(b, e[1]), 1 - e[1] + 1)
      BY <1>5, <2>3, <3>1
    <3>3. 1 - e[1] + 1 = 1
      BY <1>5
    <3> QED BY <1>5, <3>2, <3>3
  <2>5. \A j : Prompt(LineAt(b, 1), j) => 1 <= j
    BY DEF Prompt
  <2>6. PromptAt(LineAt(b, 1)) = 1
    BY <2>2, <2>4, <2>5, PromptAtIs
  <2> QED BY <2>1, <2>6
<1>10. Hit(lines) = h
  <2> DEFINE K == {k \in DOMAIN lines : PromptAt(lines[k]) # 0}
  <2>1. h \in K
    BY <1>9
  <2>2. ASSUME NEW k \in K
        PROVE  h <= k
    <3>1. k \in 1 .. m + Len(B) /\ ~(k \in 1 .. m)
      BY <1>7, <1>8
    <3> QED BY <1>7, <3>1
  <2>3. K \in SUBSET (Nat \ {0})
    BY <1>7
  <2> HIDE DEF K, h
  <2>4. Least(K) = h
    BY <2>1, <2>2, <2>3, LeastIs
  <2> QED BY <2>4 DEF Hit, K
<1>11. SubSeq(lines, 1, h - 1) = A
  <2>1. h - 1 = m /\ m \in Nat
    BY <1>7
  <2>2. /\ SubSeq(lines, 1, m) = [k \in 1 .. m |-> lines[k]]
    BY <1>7
  <2>3. A = [k \in 1 .. m |-> A[k]]
    BY <1>1 DEF m
  <2>4. SubSeq(lines, 1, m) = A
    BY <1>7, <2>2, <2>3
  <2> QED BY <2>1, <2>4
<1>12. h # 0 /\ 1 - 1 = 0
  BY <1>7
<1>13. SubSeq(lines[h], 1, PromptAt(lines[h]) - 1) = <<>>
  <2>1. lines[h] \in Strings
    <3> HIDE DEF h
    <3> QED BY <1>7, <1>9
  <2> QED BY <1>9, <1>12, <2>1, Nothing
<1> HIDE DEF h
<1> QED BY <1>1, <1>10, <1>11, <1>12, <1>13 DEF A

(* What has been returned by then are the lines before the prompt.         *)
LEMMA MatchWhole ==
  ASSUME Inv, NEW m \in Nat, WholeTo(m), PromptAt(text) # 0, WellFormed,
         NEW n \in 1 .. MaxLength, arrived + n <= Len(text), PromptAt(text) + 1 <= arrived + n
  PROVE  Trimmed(SplitLines(Kept(n) \o FrontOf(n) \o PartOf(n))) = Trimmed(SplitLines(Before))
<1> DEFINE l == arrived + n
           p == PromptAt(text)
           q == p - 1
<1>1. /\ text \in Strings /\ Len(text) \in Nat /\ arrived \in Nat /\ arrived <= Len(text)
      /\ n \in Nat /\ n >= 1 /\ TypeInv
  BY TextFacts, MaxLengthAssumption DEF Inv
<1>2. /\ m \in 0 .. arrived /\ m < p
      /\ m # 0 => text[m] = LF
  BY DEF WholeTo
<1>3. Neat(text, p) /\ p \in 1 .. Len(text) /\ Before = SubSeq(text, 1, q)
  BY <1>1, WellFormedIs
<1>4. /\ p \in Nat /\ q \in m .. p - 1 /\ q + 1 = p /\ p + 1 <= l /\ l <= Len(text)
      /\ l \in Nat /\ q \in Nat /\ q \in 0 .. p - 1 /\ m \in 0 .. q
  BY <1>1, <1>2, <1>3
<1>5. \A i \in 1 .. q : /\ text[i] = CR => i + 1 <= q /\ text[i + 1] = LF
                        /\ text[i] = LF => 1 < i /\ text[i - 1] = CR
  BY <1>3 DEF Neat
<1>6. q # 0 => text[q] = LF
  BY <1>3, <1>4 DEF Neat
<1> DEFINE A == SubSeq(text, 1, m)
           B == SubSeq(text, 1, q)
           x == SubSeq(text, m + 1, q)
           y == SubSeq(text, p, l)
           V == EatBeforeLF(A)
           X == EatBeforeLF(x)
           W == EatBeforeLF(B)
           F == FixupCarriageReturns(y)
<1>8. /\ Kept(n) = V
      /\ Fresh(n) = FixupCarriageReturns(SubSeq(text, m + 1, l))
      /\ A \in Strings /\ V \in Strings /\ Ended(V) /\ ~EndsInCR(A)
  <2> HIDE DEF A
  <2>2. /\ Kept(n) = EatBeforeLF(SubSeq(text, 1, m))
        /\ Fresh(n) = FixupCarriageReturns(SubSeq(text, m + 1, arrived + n))
        /\ SubSeq(text, 1, m) \in Strings
        /\ EatBeforeLF(SubSeq(text, 1, m)) \in Strings /\ Ended(EatBeforeLF(SubSeq(text, 1, m)))
        /\ ~EndsInCR(SubSeq(text, 1, m))
    BY <1>1, JoinedTo
  <2> QED BY <2>2 DEF A
<1> HIDE DEF l, p, q
<1>9. x \in Strings /\ Paired(x) /\ Ended(x) /\ B \in Strings /\ Paired(B) /\ Ended(B)
  <2>1. 0 \in 0 .. q
    BY <1>4
  <2>2. /\ m < q => text[q] = LF
        /\ 0 < q => text[q] = LF
    BY <1>2, <1>4, <1>6
  <2>3. x \in Strings /\ Paired(x) /\ Ended(x)
    BY <1>1, <1>3, <1>4, <2>2, WholePart
  <2>4. /\ SubSeq(text, 0 + 1, q) \in Strings
        /\ Paired(SubSeq(text, 0 + 1, q)) /\ Ended(SubSeq(text, 0 + 1, q))
    BY <1>1, <1>3, <1>4, <2>1, <2>2, WholePart
  <2> QED BY <2>3, <2>4
<1>10. Tidy(B)
  <2>1. 1 \in 1 .. Len(text) + 1 /\ q \in 1 - 1 .. Len(text) /\ q - 1 + 1 = q
        /\ \A i \in 1 .. q : 1 + i - 1 = i
    BY <1>1, <1>3, <1>4
  <2>2. Len(B) = q /\ DOMAIN B = 1 .. q /\ \A i \in 1 .. q : B[i] = text[i]
    BY <1>1, <2>1, PartFacts
  <2> HIDE DEF B
  <2>3. ASSUME NEW i \in 1 .. q, B[i] = LF
        PROVE  At(B, i - 1, {CR})
    <3>1. 1 < i /\ text[i - 1] = CR
      BY <1>5, <2>2, <2>3
    <3>2. i - 1 \in 1 .. q
      BY <1>4, <3>1
    <3> QED BY <2>2, <3>1, <3>2 DEF At
  <2> QED BY <1>9, <2>2, <2>3 DEF Tidy
<1>11. y \in Strings /\ Prompt(y, 1)
  <2>1. /\ p \in 1 .. Len(text) + 1 /\ l \in p - 1 .. Len(text)
        /\ 1 \in 1 .. l - p + 1 /\ 2 \in 1 .. l - p + 1 /\ p + 1 - 1 = p /\ p + 2 - 1 = p + 1
    BY <1>1, <1>3, <1>4
  <2>2. /\ y \in Strings /\ Len(y) = l - p + 1
        /\ \A i \in 1 .. l - p + 1 : y[i] = text[p + i - 1]
    BY <1>1, <2>1, PartFacts
  <2>3. y[1] = text[p] /\ y[2] = text[p + 1]
    BY <2>1, <2>2
  <2> HIDE DEF y
  <2>4. 1 + 1 = 2
    OBVIOUS
  <2> QED BY <1>3, <2>1, <2>2, <2>3, <2>4 DEF Neat, Prompt
<1>12. SubSeq(text, m + 1, l) = x \o y
  <2> DEFINE k == m + 1
  <2>1. k \in 1 .. Len(text) + 1 /\ q \in k - 1 .. Len(text) /\ l \in q .. Len(text)
    BY <1>1, <1>3, <1>4
  <2> HIDE DEF k
  <2>2. SubSeq(text, k, l) = SubSeq(text, k, q) \o SubSeq(text, q + 1, l)
    BY <1>1, <2>1, CutPart
  <2> QED BY <1>4, <2>2 DEF k
<1>13. B = A \o x
  <2>1. 1 \in 1 .. Len(text) + 1 /\ m \in 1 - 1 .. Len(text) /\ q \in m .. Len(text)
    BY <1>1, <1>3, <1>4
  <2> QED BY <1>1, <2>1, CutPart
<1>14. PromptAt(x) = 0
  <2>1. PromptAt(A \o x) = 0
    <3>1. q \in 0 .. Len(text) /\ ~(PromptAt(text) + 1 <= q) /\ PromptAt(text) # 0
      BY <1>1, <1>3, <1>4 DEF p
    <3>2. PromptAt(B) = 0
      BY <1>1, <3>1, PromptReached
    <3> QED BY <1>13, <3>2
  <2> HIDE DEF A, x
  <2>2. ASSUME NEW i
        PROVE  ~Prompt(x, i)
    <3>1. \A j : ~Prompt(A \o x, j)
      BY <1>8, <1>9, <2>1, ConcatFacts, PromptAtIs
    <3> SUFFICES ASSUME Prompt(x, i)
                 PROVE  FALSE
      OBVIOUS
    <3>2. Len(A) \in Nat /\ i \in Nat
      BY <1>8, <1>9, StringFacts DEF Prompt
    <3> DEFINE j == Len(A) + i
    <3>3. j \in Nat /\ j - Len(A) = i
      BY <3>2
    <3> HIDE DEF j
    <3>4. Prompt(A \o x, j)
      BY <1>8, <1>9, <3>3, PromptsOfConcat
    <3> QED BY <3>1, <3>4
  <2> QED BY <1>9, <2>2, PromptAtIs
<1> HIDE DEF A, B, x, y
<1>15. Fresh(n) = X \o F /\ F \in Strings /\ Prompt(F, 1)
  <2>1. F \in Strings /\ Prompt(F, 1) /\ EatBeforeLF(EatRepeated(y))[1] # CR
    BY <1>11, FixupLeads
  <2>2. FixupCarriageReturns(x \o y) = EatBeforeLF(x) \o FixupCarriageReturns(y)
    BY <1>9, <1>11, <2>1, FixupConcat
  <2> QED BY <1>8, <1>12, <2>1, <2>2
<1>16. W = V \o X
  BY <1>8, <1>9, <1>13, BeforeLFConcat
<1>17. /\ X \in Strings /\ Ended(X) /\ NoCR(X)
       /\ Len(x) = 0 <=> Len(X) = 0
       /\ W \in Strings /\ NoCR(W)
  BY <1>9, EndStays, PairedFacts DEF NoCR
<1>18. PromptAt(X) = 0
  <2> DEFINE K == {i \in DOMAIN x : ~BeforeLF(x, i)}
  <2>1. /\ K \in SUBSET (1 .. Len(x))
        /\ \A i \in 1 .. Len(x) : i \notin K => x[i] = CR /\ At(x, i + 1, {LF})
    BY <1>9, StringFacts DEF BeforeLF
  <2>2. X = Filter(x, K)
    BY DEF EatBeforeLF
  <2> HIDE DEF K
  <2>3. Agree(x, X)
    BY <1>9, <2>1, <2>2, FilterAgrees
  <2> QED BY <1>14, <2>3 DEF Agree
<1>19. SplitLines(W) = SplitLines(B)
  BY <1>9, <1>10, SplitSame
<1> HIDE DEF V, X, W, F
<1>20. FrontOf(n) = Join(SplitLines(X)) /\ PartOf(n) = <<>>
  BY <1>15, <1>17, <1>18, HitBehind DEF FrontOf, PartOf, LinesOf, HitOf
<1>21. Trimmed(SplitLines(V \o Join(SplitLines(X)) \o <<>>)) = Trimmed(SplitLines(W))
  <2>1. CASE Len(X) = 0
    <3>1. X = <<>> /\ W = V
      BY <1>8, <1>16, <1>17, <2>1, Nothing
    <3>2. Join(SplitLines(X)) = <<>>
      <4>1. SplitLines(<<>>) = <<>>
        <5>1. PICK e : Lists(e, Starts(<<>>)) /\ Len(e) \in Nat
                       /\ SplitLines(<<>>) = [k \in 1 .. Len(e) |-> LineAt(<<>>, e[k])]
          BY Nothing, SplitLinesIs
        <5>2. Starts(<<>>) = {}
          BY DEF Starts
        <5>3. Len(e) = 0
          BY <5>1, <5>2 DEF Lists
        <5> QED BY <5>1, <5>3
      <4>2. Len(<<>>) \in Nat
        OBVIOUS
      <4>3. Join(<<>>) = <<>>
        BY <4>2, JoinUnfolds
      <4> QED BY <3>1, <4>1, <4>3
    <3>3. V \o <<>> \o <<>> = V
      BY <1>8, Nothing
    <3> QED BY <3>1, <3>2, <3>3
  <2>2. CASE Len(X) # 0
    <3> DEFINE J == Join(SplitLines(X))
               nl == <<LF>>
               s == V \o J
    <3>1. J \in Strings /\ J \o nl = X /\ nl \in Strings
      BY <1>17, <2>2, JoinSplit, OneLF
    <3> HIDE DEF J, nl
    <3>2. s \in Strings /\ s \o nl = W
      <4>1. s \in Strings
        BY <1>8, <3>1, ConcatFacts
      <4>2. (V \o J) \o nl = V \o (J \o nl)
        BY <1>8, <3>1, ConcatTwice
      <4> QED BY <1>16, <3>1, <4>1, <4>2
    <3>3. NoCR(s)
      <4> HIDE DEF s
      <4>1. \A i \in 1 .. Len(s) : W[i] = s[i] /\ i \in 1 .. Len(W)
        <5>1. Len(W) = Len(s) + Len(nl) /\ Len(s) \in Nat /\ Len(nl) \in Nat
              /\ \A i \in 1 .. Len(s) : (s \o nl)[i] = s[i]
          BY <3>1, <3>2, ConcatFacts, StringFacts
        <5> QED BY <3>2, <5>1
      <4> QED BY <1>17, <4>1 DEF NoCR
    <3>4. s \o <<>> = s
      <4> HIDE DEF s
      <4> QED BY <3>2, Nothing
    <3>5. Trimmed(SplitLines(s \o nl)) = Trimmed(SplitLines(s))
      <4> HIDE DEF s
      <4> QED BY <3>2, <3>3, TrimmedEnd DEF nl
    <3> QED BY <3>2, <3>4, <3>5 DEF J
  <2> QED BY <2>1, <2>2
<1> QED BY <1>3, <1>8, <1>19, <1>20, <1>21 DEF B

-----------------------------------------------------------------------------
(* So wherever the chunks are cut, the lines before the prompt come back.  *)

(* At first nothing has been read.                                         *)
LEMMA InitWhole == Init => WholeLines
<1> SUFFICES ASSUME Init, PromptAt(text) # 0
             PROVE  WholeTo(0)
  BY DEF WholeLines
<1>1. text \in Strings /\ arrived = 0 /\ received = <<>> /\ lineStart = 0
  BY TextsAre DEF Init
<1>2. SubSeq(text, 1, 0) = <<>> /\ <<>> \in Strings /\ Len(<<>>) = 0
  BY <1>1, Nothing
<1>3. EatBeforeLF(<<>>) = <<>> /\ Len(EatBeforeLF(<<>>)) = 0
  <2>1. EatBeforeLF(<<>>) \in Strings /\ Len(EatBeforeLF(<<>>)) = 0
    BY <1>2, EndStays DEF Ended
  <2> QED BY <2>1, Nothing
<1>4. <<>> \o <<>> = <<>> /\ 0 + 1 = 1
  BY Nothing
<1>5. PromptAt(text) \in 0 .. Len(text) /\ Len(text) \in Nat
  BY <1>1, PromptAtIs, StringFacts
<1>6. 0 < PromptAt(text) /\ \A i \in 1 .. 0 : text[i] # LF
  BY <1>5
<1>7. SubSeq(text, 0 + 1, arrived) = <<>> /\ 0 \in 0 .. arrived
      /\ \A i \in 0 + 1 .. arrived : text[i] # LF
  BY <1>1, <1>2, <1>4, <1>6
<1>8. received = EatBeforeLF(SubSeq(text, 1, 0)) \o SubSeq(text, 0 + 1, arrived)
  BY <1>1, <1>2, <1>3, <1>4, <1>7
<1>9. lineStart = Len(EatBeforeLF(SubSeq(text, 1, 0)))
  BY <1>1, <1>2, <1>3
<1> QED BY <1>6, <1>7, <1>8, <1>9 DEF WholeTo

(* Each round keeps this form, and the one that matches returns the        *)
(* lines.                                                                  *)
LEMMA ReceiveLines ==
  ASSUME Inv, Inv', WholeLines, ChunksInvisible, NEW n \in 1 .. MaxLength, Receive(n)
  PROVE  WholeLines' /\ ChunksInvisible'
<1>1. /\ result = "reading" /\ arrived + n <= Len(text) /\ TypeInv
      /\ arrived' = arrived + n /\ received' = Data(n) /\ text' = text
      /\ HitOf(n) # 0 => /\ result' = "matched"
                         /\ output' = Kept(n) \o FrontOf(n) \o PartOf(n)
      /\ HitOf(n) = 0 => /\ result' = result /\ output' = output
                         /\ lineStart' = LastLF(Data(n))
  BY ReceiveIs DEF Inv
<1>2. /\ text \in Strings /\ arrived + n \in 0 .. Len(text)
  BY <1>1, TextFacts, MaxLengthAssumption
<1>3. Before' = Before /\ (WellFormed' <=> WellFormed) /\ PromptAt(text)' = PromptAt(text)
      /\ Consumed' = SubSeq(text, 1, arrived + n)
  BY <1>1 DEF Before, WellFormed, Consumed
<1>4. CASE HitOf(n) = 0
  <2>1. result' = "reading" /\ result' # "matched"
    BY <1>1, <1>4
  <2>2. ASSUME WellFormed, PromptAt(text) # 0
        PROVE  \E h \in Nat : WholeTo(h)'
    <3>1. PICK m \in Nat : WholeTo(m)
      BY <1>1, <2>2 DEF WholeLines
    <3>2. arrived + n <= PromptAt(text)
      <4>1. PromptAt(SubSeq(text, 1, arrived + n)) = 0
        BY <1>3, <2>1 DEF Inv, KeptAgrees
      <4> QED BY <1>2, <2>2, <4>1, PromptReached
    <3>3. PICK h \in Nat :
             /\ h \in 0 .. arrived + n /\ h < PromptAt(text)
             /\ h # 0 => text[h] = LF
             /\ \A i \in h + 1 .. arrived + n : text[i] # LF
             /\ Data(n) = EatBeforeLF(SubSeq(text, 1, h)) \o SubSeq(text, h + 1, arrived + n)
             /\ LastLF(Data(n)) = Len(EatBeforeLF(SubSeq(text, 1, h)))
      BY <1>1, <2>2, <3>1, <3>2, ReceiveWhole
    <3>4. WholeTo(h)'
      BY <1>1, <1>4, <3>3 DEF WholeTo
    <3> QED BY <3>4
  <2>3. WholeLines'
    BY <1>3, <2>2 DEF WholeLines
  <2> QED BY <2>1, <2>3 DEF ChunksInvisible
<1>5. CASE HitOf(n) # 0
  <2>1. result' = "matched" /\ output' = Kept(n) \o FrontOf(n) \o PartOf(n)
    BY <1>1, <1>5
  <2>2. ASSUME WellFormed
        PROVE  Trimmed(SplitLines(output')) = Trimmed(SplitLines(Before))
    <3>1. PromptAt(SubSeq(text, 1, arrived + n)) # 0
      BY <1>3, <2>1 DEF Inv, OutputShows
    <3>2. PromptAt(text) # 0
      <4> DEFINE c == SubSeq(text, 1, arrived + n)
                 d == SubSeq(text, arrived + n + 1, Len(text))
      <4>1. text = c \o d
        BY <1>2, CutInTwo
      <4>2. c \in Strings /\ d \in Strings
        <5> DEFINE l == arrived + n
                   k == l + 1
        <5>1. /\ 1 \in 1 .. Len(text) + 1 /\ l \in 1 - 1 .. Len(text)
              /\ k \in 1 .. Len(text) + 1 /\ Len(text) \in k - 1 .. Len(text)
          BY <1>2
        <5> HIDE DEF k, l
        <5>2. SubSeq(text, 1, l) \in Strings /\ SubSeq(text, k, Len(text)) \in Strings
          BY <1>2, <5>1, PartFacts
        <5> QED BY <5>2 DEF k, l
      <4> HIDE DEF c, d
      <4> QED BY <3>1, <4>1, <4>2, PromptInFront DEF c
    <3>3. PICK m \in Nat : WholeTo(m)
      BY <1>1, <2>2, <3>2 DEF WholeLines
    <3>4. PromptAt(text) + 1 <= arrived + n
      BY <1>2, <3>1, <3>2, PromptReached
    <3> QED BY <1>1, <2>1, <2>2, <3>2, <3>3, <3>4, MatchWhole
  <2>3. ChunksInvisible'
    BY <1>3, <2>2 DEF ChunksInvisible
  <2> QED BY <2>1, <2>3 DEF WholeLines
<1> QED BY <1>4, <1>5

(* An appliance that ends its lines with "\r\n" has the lines it printed   *)
(* before the prompt returned as they were sent, however recv cut them:    *)
(* what a round keeps depends on the text alone, not on its chunks.        *)
THEOREM LinesAreReturned == Spec => []ChunksInvisible
<1>1. Init => WholeLines /\ ChunksInvisible
  BY InitWhole DEF Init, ChunksInvisible
<1>2. Inv /\ Inv' /\ WholeLines /\ ChunksInvisible /\ [Next]_vars
        => WholeLines' /\ ChunksInvisible'
  <2> SUFFICES ASSUME Inv, Inv', WholeLines, ChunksInvisible, [Next]_vars
               PROVE  WholeLines' /\ ChunksInvisible'
    OBVIOUS
  <2>1. CASE \E n \in 1 .. MaxLength : Receive(n)
    BY <2>1, ReceiveLines
  <2>2. CASE GiveUp
    <3>1. /\ result = "reading" /\ result' # "matched"
          /\ text' = text /\ arrived' = arrived /\ received' = received
          /\ lineStart' = lineStart
      BY <2>2 DEF GiveUp
    <3>2. (WellFormed' <=> WellFormed) /\ \A m \in Nat : WholeTo(m)' <=> WholeTo(m)
      BY <3>1 DEF WellFormed, Before, WholeTo
    <3> QED BY <3>1, <3>2 DEF WholeLines, ChunksInvisible
  <2>3. CASE UNCHANGED vars
    <3>1. /\ result' = result /\ output' = output
          /\ text' = text /\ arrived' = arrived /\ received' = received
          /\ lineStart' = lineStart
      BY <2>3 DEF vars
    <3>2. /\ WellFormed' <=> WellFormed
          /\ Before' = Before
          /\ \A m \in Nat : WholeTo(m)' <=> WholeTo(m)
      BY <3>1 DEF WellFormed, Before, WholeTo
    <3> QED BY <3>1, <3>2 DEF WholeLines, ChunksInvisible
  <2> QED BY <2>1, <2>2, <2>3 DEF Next
<1> QED BY <1>1, <1>2, Invariance, PTL DEF Spec
=============================================================================
