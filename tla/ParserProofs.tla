---------------------------- MODULE ParserProofs ----------------------------
(***************************************************************************)
(* Proofs about two of the parsers of parsers.py.                          *)
(*                                                                         *)
(* CliTable, for lines of any width: no row loses, repeats or reorders     *)
(* text, and every field stands below its header.  What a recursive        *)
(* function computes is shown by induction in the form the provers can     *)
(* use, about sets of numbers (NatSetInduction).                           *)
(*                                                                         *)
(* SaasInfo, for every set of regions, mailboxes and addresses and every   *)
(* length of output: everything is filed where it belongs.  The parser     *)
(* keeps one variable for the region of a mailbox line and for the region  *)
(* whose addresses follow.  What makes the properties inductive is that    *)
(* the second use never sees the first (InRegion), and that the regions it *)
(* knows are those with a mailbox (Mailed).                                *)
(***************************************************************************)
EXTENDS CliTable, SaasInfo, WellFoundedInduction, TLAPS

-----------------------------------------------------------------------------
(* Induction, and functions defined by recursion.                          *)

(* A set that has 0, and with a number its successor, has all numbers.     *)
LEMMA NatSetInduction ==
  ASSUME NEW T \in SUBSET Nat, 0 \in T, \A n \in T : n + 1 \in T
  PROVE  T = Nat
<1> DEFINE R == OpToRel(<, Nat)
           U == Nat \ T
<1>1. IsWellFoundedOn(R, Nat)
  BY NatLessThanWellFounded
<1>2. SUFFICES ASSUME U # {} PROVE FALSE
  OBVIOUS
<1>3. U \subseteq Nat
  OBVIOUS
<1> HIDE DEF U
<1>4. PICK x \in U : \A y \in U : ~(<<y, x>> \in R)
  <2> HIDE DEF R
  <2> QED BY <1>1, <1>2, <1>3, WFMin
<1>5. x \in Nat /\ x # 0 /\ x - 1 \in Nat /\ x - 1 < x
  BY DEF U
<1>6. <<x - 1, x>> \in R
  BY <1>5 DEF OpToRel
<1>7. x - 1 \in T
  BY <1>4, <1>5, <1>6 DEF U
<1> QED BY <1>5, <1>7 DEF U

(* Places from n down to 1, each of which is led on to one further right,  *)
(* or is where the way ends.                                               *)
Onward(n, next) == next \in [1 .. n -> 1 .. n] /\ \A i \in 1 .. n : next[i] >= i

(* The equation of a function that follows such a way to its end.          *)
Follows(n, next, g) == g = [i \in 1 .. n |-> IF next[i] = i THEN i ELSE g[next[i]]]

(* There is a function with that equation.                                 *)
LEMMA WayExists ==
  ASSUME NEW n \in Nat, NEW next, Onward(n, next)
  PROVE  \E g : Follows(n, next, g)
<1> DEFINE D(k) == {i \in 1 .. n : i > n - k}
           Eq(k, g) == g = [i \in D(k) |-> IF next[i] = i THEN i ELSE g[next[i]]]
           T == {k \in Nat : \E g : Eq(k, g)}
<1>1. 0 \in T
  <2>1. D(0) = {}
    OBVIOUS
  <2>2. Eq(0, [i \in {} |-> i])
    BY <2>1
  <2> QED BY <2>2
<1>2. ASSUME NEW k \in T
      PROVE  k + 1 \in T
  <2>1. PICK g : Eq(k, g)
    OBVIOUS
  <2> DEFINE h == [i \in D(k + 1) |->
                    IF i \in D(k) THEN g[i] ELSE IF next[i] = i THEN i ELSE g[next[i]]]
  <2>2. k \in Nat /\ D(k) \subseteq D(k + 1)
    OBVIOUS
  <2>3. ASSUME NEW i \in D(k + 1), next[i] # i
        PROVE  next[i] \in D(k) /\ next[i] \in D(k + 1)
    BY <2>2, <2>3 DEF Onward
  <2>4. ASSUME NEW i \in D(k + 1)
        PROVE  h[i] = IF next[i] = i THEN i ELSE h[next[i]]
    <3>1. CASE i \in D(k)
      <4>1. g[i] = IF next[i] = i THEN i ELSE g[next[i]]
        BY <2>1, <3>1
      <4> QED BY <2>3, <3>1, <4>1
    <3>2. CASE i \notin D(k)
      BY <2>3, <3>2
    <3> QED BY <3>1, <3>2
  <2>5. h = [i \in D(k + 1) |-> IF next[i] = i THEN i ELSE h[next[i]]]
    <3> DEFINE rhs == [i \in D(k + 1) |-> IF next[i] = i THEN i ELSE h[next[i]]]
    <3>1. \A i \in D(k + 1) : rhs[i] = IF next[i] = i THEN i ELSE h[next[i]]
      OBVIOUS
    <3>2. h = [i \in D(k + 1) |-> h[i]]
      OBVIOUS
    <3> HIDE DEF h
    <3> QED BY <2>4, <3>2
  <2> HIDE DEF h
  <2>6. Eq(k + 1, h)
    BY <2>5
  <2> HIDE DEF Eq, D
  <2> QED BY <2>2, <2>6
<1>3. T \subseteq Nat
  OBVIOUS
<1> HIDE DEF T
<1>4. n \in T
  BY <1>1, <1>2, <1>3, NatSetInduction
<1>5. D(n) = 1 .. n
  OBVIOUS
<1>6. PICK g : Eq(n, g)
  BY <1>4 DEF T
<1> QED BY <1>5, <1>6 DEF Follows

(* What is true where a way ends, and is handed back along it, is true of  *)
(* the whole way.                                                          *)
LEMMA WayKeeps ==
  ASSUME NEW n \in Nat, NEW next, Onward(n, next), NEW g, Follows(n, next, g),
         NEW P \in SUBSET (1 .. n),
         \A i \in 1 .. n : next[i] = i \/ next[i] \in P => i \in P
  PROVE  P = 1 .. n
<1> DEFINE T == {k \in Nat : \A i \in 1 .. n : i > n - k => i \in P}
<1>1. 0 \in T
  OBVIOUS
<1>2. ASSUME NEW k \in T
      PROVE  k + 1 \in T
  <2>1. ASSUME NEW i \in 1 .. n, i > n - (k + 1)
        PROVE  i \in P
    <3>1. next[i] = i \/ (next[i] > n - k /\ next[i] \in 1 .. n)
      BY <2>1 DEF Onward
    <3> QED BY <3>1
  <2> QED BY <2>1
<1>3. T \subseteq Nat
  OBVIOUS
<1> HIDE DEF T
<1>4. n \in T
  BY <1>1, <1>2, <1>3, NatSetInduction
<1>5. \A i \in 1 .. n : i > n - n => i \in P
  BY <1>4 DEF T
<1>6. \A i \in 1 .. n : i > n - n
  OBVIOUS
<1> QED BY <1>5, <1>6

-----------------------------------------------------------------------------
(* The numbers of this model.                                              *)
LEMMA Numbers ==
  /\ Width \in Nat /\ Width >= 1 /\ Width + 1 \in Nat
  /\ Places = 1 .. Width /\ Span = 1 .. Width
BY WidthAssumption DEF Places, Span

(* Where the match of a field, and where a word, goes on.                  *)
Onto(i) == IF ~Filled(i) THEN i
           ELSE IF Filled(i + 2) /\ ~Filled(i + 1) THEN i + 3 ELSE i + 1
Along(i) == IF Filled(i) THEN i + 1 ELSE i

(* The search for the end of a match follows that way.                     *)
LEMMA MatchWay ==
  LET n    == Width + 1
      next == [j \in 1 .. n |-> Onto(j)]
  IN  /\ Follows(n, next, MatchEnd)
      /\ \A j \in 1 .. n : MatchEnd[j] = IF next[j] = j THEN j ELSE MatchEnd[next[j]]
<1> DEFINE n == Width + 1
           next == [j \in 1 .. n |-> Onto(j)]
<1>1. n \in Nat
  BY Numbers
<1>2. \A j \in 1 .. n : next[j] \in j .. n /\ (next[j] = j <=> ~Filled(j))
  BY Numbers DEF Onto, Filled
<1>3. Onward(n, next)
  BY <1>1, <1>2 DEF Onward
<1>4. \E g : Follows(n, next, g)
  BY <1>1, <1>3, WayExists
<1>5. \A g : Follows(n, next, g) <=>
        g = [j \in 1 .. n |->
              IF ~Filled(j) THEN j
              ELSE IF Filled(j + 2) /\ ~Filled(j + 1) THEN g[j + 3] ELSE g[j + 1]]
  <2> SUFFICES ASSUME NEW g
               PROVE  \A j \in 1 .. n :
                        (IF next[j] = j THEN j ELSE g[next[j]])
                        = IF ~Filled(j) THEN j
                          ELSE IF Filled(j + 2) /\ ~Filled(j + 1) THEN g[j + 3] ELSE g[j + 1]
    BY DEF Follows
  <2> QED BY <1>2 DEF Onto
<1>6. MatchEnd = CHOOSE g : g = [j \in 1 .. n |->
              IF ~Filled(j) THEN j
              ELSE IF Filled(j + 2) /\ ~Filled(j + 1) THEN g[j + 3] ELSE g[j + 1]]
  BY DEF MatchEnd
<1>7. Follows(n, next, MatchEnd)
  BY <1>4, <1>5, <1>6
<1>8. \A j \in 1 .. n : MatchEnd[j] = IF next[j] = j THEN j ELSE MatchEnd[next[j]]
  BY <1>7 DEF Follows
<1> QED BY <1>7, <1>8

(* A field's match begins where it is looked for and ends behind it, where *)
(* nothing is.                                                             *)
LEMMA MatchEnds ==
  ASSUME NEW i \in 1 .. Width + 1
  PROVE  /\ MatchEnd[i] \in i .. Width + 1
         /\ ~Filled(MatchEnd[i])
         /\ Filled(i) => MatchEnd[i] > i
<1> DEFINE n == Width + 1
           next == [j \in 1 .. n |-> Onto(j)]
           P == {j \in 1 .. n : /\ MatchEnd[j] \in j .. n /\ ~Filled(MatchEnd[j])
                                /\ Filled(j) => MatchEnd[j] > j}
<1>1. n \in Nat
  BY Numbers
<1>2. \A j \in 1 .. n : next[j] \in j .. n /\ (next[j] = j <=> ~Filled(j))
  BY Numbers DEF Onto, Filled
<1>3. Onward(n, next)
  BY <1>1, <1>2 DEF Onward
<1>7. Follows(n, next, MatchEnd)
  BY MatchWay
<1>8. \A j \in 1 .. n : MatchEnd[j] = IF next[j] = j THEN j ELSE MatchEnd[next[j]]
  BY MatchWay
<1>9. P \in SUBSET (1 .. n)
  OBVIOUS
<1>10. ASSUME NEW j \in 1 .. n, next[j] = j \/ next[j] \in P
       PROVE  j \in P
  <2>1. CASE next[j] = j
    BY <1>1, <1>2, <1>8, <2>1
  <2>2. CASE next[j] # j
    BY <1>1, <1>2, <1>8, <1>10, <2>2
  <2> QED BY <2>1, <2>2
<1> HIDE DEF P, next, n
<1>11. P = 1 .. n
  BY <1>1, <1>3, <1>7, <1>9, <1>10, WayKeeps
<1> QED BY <1>11 DEF P, n

(* A word is filled up to its end, where nothing is.                       *)
LEMMA WordEnds ==
  ASSUME NEW i \in 1 .. Width + 1
  PROVE  /\ WordEnd[i] \in i .. Width + 1
         /\ ~Filled(WordEnd[i])
         /\ \A j \in i .. WordEnd[i] - 1 : Filled(j)
<1> DEFINE n == Width + 1
           next == [j \in 1 .. n |-> Along(j)]
           P == {j \in 1 .. n : /\ WordEnd[j] \in j .. n /\ ~Filled(WordEnd[j])
                                /\ \A k \in j .. WordEnd[j] - 1 : Filled(k)}
<1>1. n \in Nat
  BY Numbers
<1>2. \A j \in 1 .. n : next[j] \in j .. n /\ (next[j] = j <=> ~Filled(j))
  BY Numbers DEF Along, Filled
<1>3. Onward(n, next)
  BY <1>1, <1>2 DEF Onward
<1>4. \E g : Follows(n, next, g)
  BY <1>1, <1>3, WayExists
<1>5. \A g : Follows(n, next, g) <=>
        g = [j \in 1 .. n |-> IF Filled(j) THEN g[j + 1] ELSE j]
  <2> SUFFICES ASSUME NEW g
               PROVE  \A j \in 1 .. n :
                        (IF next[j] = j THEN j ELSE g[next[j]])
                        = IF Filled(j) THEN g[j + 1] ELSE j
    BY DEF Follows
  <2> QED BY <1>2 DEF Along
<1>6. WordEnd = CHOOSE g : g = [j \in 1 .. n |-> IF Filled(j) THEN g[j + 1] ELSE j]
  BY DEF WordEnd
<1>7. Follows(n, next, WordEnd)
  BY <1>4, <1>5, <1>6
<1>8. \A j \in 1 .. n : WordEnd[j] = IF next[j] = j THEN j ELSE WordEnd[next[j]]
  BY <1>7 DEF Follows
<1>9. P \in SUBSET (1 .. n)
  OBVIOUS
<1>10. ASSUME NEW j \in 1 .. n, next[j] = j \/ next[j] \in P
       PROVE  j \in P
  <2>1. CASE next[j] = j
    BY <1>1, <1>2, <1>8, <2>1
  <2>2. CASE next[j] # j
    <3>1. next[j] = j + 1 /\ Filled(j) /\ WordEnd[j] = WordEnd[j + 1] /\ j + 1 \in P
      BY <1>2, <1>8, <1>10, <2>2 DEF Along
    <3>2. \A k \in j .. WordEnd[j] - 1 : k = j \/ k \in j + 1 .. WordEnd[j + 1] - 1
      BY <1>1, <3>1
    <3>3. WordEnd[j] \in j .. n /\ ~Filled(WordEnd[j])
      BY <1>1, <3>1
    <3>4. \A k \in j .. WordEnd[j] - 1 : Filled(k)
      BY <3>1, <3>2
    <3> QED BY <3>3, <3>4
  <2> QED BY <2>1, <2>2
<1> HIDE DEF P, next, n
<1>11. P = 1 .. n
  BY <1>1, <1>3, <1>7, <1>9, <1>10, WayKeeps
<1> QED BY <1>11 DEF P, n

-----------------------------------------------------------------------------
(* Folds from left to right.                                               *)

(* The greatest of the numbers up to k is k.                               *)
LEMMA MaxUpTo ==
  ASSUME NEW k \in Nat \ {0}, NEW s \in SUBSET (1 .. k), k \in s
  PROVE  Max(s) = k
<1>1. \A x \in s : x \in 1 .. k
  OBVIOUS
<1>2. k \in s /\ \A y \in s : k >= y
  BY <1>1
<1>3. \A x \in s : (\A y \in s : x >= y) => x = k
  BY <1>1
<1> QED BY <1>2, <1>3 DEF Max

(* Words filed one after the other.                                        *)
Folded(r, w) == FoldLeft(File, r, w)

(* A fold files one word after the other.                                  *)
LEMMA FoldSteps ==
  ASSUME NEW S, NEW w \in Seq(S), NEW r
  PROVE  \E acc : /\ acc[0] = r /\ Folded(r, w) = acc[Len(w)]
                  /\ \A k \in 1 .. Len(w) : acc[k] = File(acc[k - 1], w[k])
<1> DEFINE n == Len(w)
           F(g, s) == IF s = {} THEN r ELSE File(g[s \ {Max(s)}], w[Max(s)])
           Eq(k, g) == g = [s \in SUBSET (1 .. k) |-> F(g, s)]
           T == {k \in Nat : \E g : Eq(k, g)}
<1> HIDE DEF F
<1>1. \A g, s : F(g, s) = IF s = {} THEN r ELSE File(g[s \ {Max(s)}], w[Max(s)])
  BY DEF F
<1>2. \A g, h : \A s : (s # {} => g[s \ {Max(s)}] = h[s \ {Max(s)}]) => F(g, s) = F(h, s)
  BY DEF F
<1>3. 0 \in T
  <2>1. SUBSET (1 .. 0) = {{}}
    OBVIOUS
  <2> DEFINE g == [s \in SUBSET (1 .. 0) |-> r]
  <2>2. \A s \in SUBSET (1 .. 0) : F(g, s) = r
    BY <1>1, <2>1
  <2>3. Eq(0, g)
    BY <2>2
  <2> QED BY <2>3
<1>4. ASSUME NEW k \in T
      PROVE  k + 1 \in T
  <2>1. PICK g : Eq(k, g)
    OBVIOUS
  <2> DEFINE h == [s \in SUBSET (1 .. (k + 1)) |->
                     IF k + 1 \in s THEN F(g, s) ELSE g[s]]
  <2>2. k \in Nat /\ \A s \in SUBSET (1 .. (k + 1)) : k + 1 \notin s => s \in SUBSET (1 .. k)
    OBVIOUS
  <2>3. ASSUME NEW s \in SUBSET (1 .. (k + 1))
        PROVE  h[s] = F(h, s)
    <3>1. CASE k + 1 \in s
      <4>1. Max(s) = k + 1
        BY <2>2, <3>1, MaxUpTo
      <4>2. s \ {k + 1} \in SUBSET (1 .. (k + 1)) /\ k + 1 \notin s \ {k + 1}
        OBVIOUS
      <4>3. h[s \ {Max(s)}] = g[s \ {Max(s)}]
        BY <4>1, <4>2
      <4>4. h[s] = F(g, s)
        BY <3>1
      <4> HIDE DEF h
      <4> QED BY <1>2, <4>3, <4>4
    <3>2. CASE k + 1 \notin s
      <4>1. s \in SUBSET (1 .. k) /\ h[s] = g[s]
        BY <2>2, <3>2
      <4>2. g[s] = F(g, s)
        BY <2>1, <4>1
      <4>3. ASSUME s # {}
            PROVE  h[s \ {Max(s)}] = g[s \ {Max(s)}]
        BY <2>2, <3>2, <4>1
      <4> HIDE DEF h
      <4> QED BY <1>2, <4>1, <4>2, <4>3
    <3> QED BY <3>1, <3>2
  <2>4. h = [s \in SUBSET (1 .. (k + 1)) |-> h[s]]
    OBVIOUS
  <2> HIDE DEF h
  <2>5. Eq(k + 1, h)
    BY <2>3, <2>4
  <2> HIDE DEF Eq
  <2> QED BY <2>2, <2>5
<1>5. T \subseteq Nat
  OBVIOUS
<1> HIDE DEF T
<1>6. n \in Nat /\ DOMAIN w = 1 .. n
  OBVIOUS
<1>7. n \in T
  BY <1>3, <1>4, <1>5, <1>6, NatSetInduction
<1> DEFINE iter == CHOOSE g : Eq(n, g)
<1>8. Eq(n, iter)
  <2>1. \E g : Eq(n, g)
    BY <1>7 DEF T
  <2> HIDE DEF Eq
  <2> QED BY <2>1
<1>9. Folded(r, w) = iter[DOMAIN w]
  <2>1. iter = CHOOSE g : g = [s \in SUBSET (DOMAIN w) |->
                 IF s = {} THEN r ELSE File(g[s \ {Max(s)}], w[Max(s)])]
    BY <1>6 DEF F
  <2> HIDE DEF iter
  <2> QED BY <2>1 DEF Folded, FoldLeft, MapThenFoldSet
<1>10. \A s \in SUBSET (1 .. n) : iter[s] = F(iter, s)
  <2> HIDE DEF iter
  <2> QED BY <1>8
<1> HIDE DEF iter, n, Eq
<1> DEFINE acc == [k \in 0 .. n |-> iter[1 .. k]]
<1>11. acc[0] = r
  <2>1. 1 .. 0 = {}
    OBVIOUS
  <2>2. 0 \in 0 .. n
    BY <1>6
  <2>3. iter[{}] = r
    BY <1>1, <1>10
  <2> QED BY <2>1, <2>2, <2>3
<1>12. acc[n] = iter[DOMAIN w]
  BY <1>6
<1>13. ASSUME NEW k \in 1 .. n
       PROVE  acc[k] = File(acc[k - 1], w[k])
  <2>1. 1 .. k \in SUBSET (1 .. n) /\ 1 .. k # {} /\ Max(1 .. k) = k
    <3>1. k \in Nat \ {0} /\ k \in 1 .. k /\ 1 .. k \in SUBSET (1 .. k)
      BY <1>6
    <3>2. 1 .. k \in SUBSET (1 .. n)
      BY <1>6
    <3> QED BY <3>1, <3>2, MaxUpTo
  <2>2. (1 .. k) \ {k} = 1 .. (k - 1)
    BY <1>6
  <2>3. iter[1 .. k] = File(iter[1 .. (k - 1)], w[k])
    BY <1>1, <1>10, <2>1, <2>2
  <2> QED BY <1>6, <2>3
<1> HIDE DEF acc
<1> QED BY <1>9, <1>11, <1>12, <1>13 DEF n

-----------------------------------------------------------------------------
(* The words of a field.                                                   *)

Spans == Span \X Span

(* Those that begin at places up to j: each inside the field, one behind   *)
(* the other, and with everything that is filled up to j.                  *)
WordsUpTo(f, j, s) ==
  /\ s \in Seq(Spans)
  /\ \A k \in DOMAIN s : /\ f[1] <= s[k][1] /\ s[k][1] <= j
                         /\ s[k][1] <= s[k][2] /\ s[k][2] <= f[2]
                         /\ s[k] = <<s[k][1], WordEnd[s[k][1]] - 1>>
  /\ \A k, l \in DOMAIN s : k < l => s[k][2] < s[l][1]
  /\ \A i \in f[1] .. j : Filled(i) => \E k \in DOMAIN s : s[k][1] <= i /\ i <= s[k][2]

(* One more word, or place.                                                *)
LEMMA NextWord ==
  ASSUME NEW a \in Span, NEW b \in Span, ~Filled(b + 1),
         NEW j \in a .. b, NEW s, WordsUpTo(<<a, b>>, j - 1, s)
  PROVE  WordsUpTo(<<a, b>>, j,
           IF Filled(j) /\ (j = a \/ ~Filled(j - 1))
           THEN Append(s, <<j, WordEnd[j] - 1>>) ELSE s)
<1> DEFINE f == <<a, b>>
           x == <<j, WordEnd[j] - 1>>
<1>1. /\ s \in Seq(Spans) /\ f[1] = a /\ f[2] = b /\ x[1] = j
      /\ j \in Nat /\ a \in Nat /\ b \in Nat /\ j \in 1 .. Width + 1 /\ j \in Span
  BY Numbers DEF WordsUpTo
<1>2. \A k \in DOMAIN s : s[k] \in Spans /\ s[k][1] \in Span /\ s[k][2] \in Span
  BY <1>1 DEF Spans
<1>3. CASE Filled(j) /\ (j = a \/ ~Filled(j - 1))
  <2> DEFINE t == Append(s, x)
  <2>1. WordEnd[j] \in j .. Width + 1 /\ ~Filled(WordEnd[j])
        /\ \A i \in j .. WordEnd[j] - 1 : Filled(i)
    BY <1>1, WordEnds
  <2>2. WordEnd[j] # j
    BY <1>3, <2>1
  <2>3. WordEnd[j] <= b + 1
    <3>1. ~(b + 1 \in j .. WordEnd[j] - 1)
      BY <2>1
    <3> QED BY <1>1, <2>1, <3>1, Numbers
  <2>4. x \in Spans /\ x[1] <= x[2] /\ x[2] <= b
    BY <1>1, <2>1, <2>2, <2>3, Numbers DEF Spans
  <2>5. ASSUME NEW k \in DOMAIN s
        PROVE  s[k][2] < j
    <3>1. s[k] = <<s[k][1], WordEnd[s[k][1]] - 1>> /\ a <= s[k][1] /\ s[k][1] <= j - 1
      BY <1>1 DEF WordsUpTo
    <3> DEFINE i == s[k][1]
    <3>2. i \in Nat /\ i \in 1 .. Width + 1 /\ i \in Span
      BY <1>2, Numbers
    <3>3. WordEnd[i] \in i .. Width + 1 /\ \A y \in i .. WordEnd[i] - 1 : Filled(y)
      BY <3>2, WordEnds
    <3>4. j # a /\ ~Filled(j - 1)
      BY <1>1, <1>3, <3>1, <3>2
    <3>5. ~(j - 1 \in i .. WordEnd[i] - 1)
      BY <3>3, <3>4
    <3>6. WordEnd[i] <= j - 1
      BY <1>1, <3>1, <3>2, <3>3, <3>5, Numbers
    <3>7. s[k][2] = WordEnd[i] - 1
      BY <3>1
    <3> QED BY <1>1, <3>3, <3>6, <3>7, Numbers
  <2> HIDE DEF x
  <2>6. /\ t \in Seq(Spans) /\ DOMAIN t = 1 .. Len(s) + 1 /\ DOMAIN s = 1 .. Len(s)
        /\ t[Len(s) + 1] = x /\ \A k \in DOMAIN s : t[k] = s[k]
        /\ Len(s) \in Nat
    BY <1>1, <2>4
  <2>7. \A k \in DOMAIN t : k \in DOMAIN s \/ k = Len(s) + 1
    BY <2>6
  <2> HIDE DEF t
  <2>8. ASSUME NEW k \in DOMAIN t
        PROVE  /\ f[1] <= t[k][1] /\ t[k][1] <= j /\ t[k][1] <= t[k][2] /\ t[k][2] <= f[2]
               /\ t[k] = <<t[k][1], WordEnd[t[k][1]] - 1>>
    <3>1. CASE k \in DOMAIN s
      <4>1. t[k] = s[k] /\ s[k][1] \in Nat
        BY <1>2, <2>6, <3>1, Numbers
      <4>2. s[k][1] <= j - 1 => s[k][1] <= j
        BY <1>1, <4>1
      <4> QED BY <3>1, <4>1, <4>2 DEF WordsUpTo
    <3>2. CASE k = Len(s) + 1
      <4>1. t[k] = x /\ x = <<j, WordEnd[j] - 1>>
        BY <2>6, <3>2 DEF x
      <4> QED BY <1>1, <2>4, <4>1
    <3> QED BY <2>7, <3>1, <3>2
  <2>9. ASSUME NEW k \in DOMAIN t, NEW l \in DOMAIN t, k < l
        PROVE  t[k][2] < t[l][1]
    <3>1. k \in DOMAIN s
      BY <2>6, <2>7, <2>9
    <3>2. CASE l \in DOMAIN s
      BY <2>6, <2>9, <3>1, <3>2 DEF WordsUpTo
    <3>3. CASE l = Len(s) + 1
      BY <1>1, <2>5, <2>6, <3>1, <3>3
    <3> QED BY <2>7, <3>2, <3>3
  <2>10. ASSUME NEW i \in a .. j, Filled(i)
         PROVE  \E k \in DOMAIN t : t[k][1] <= i /\ i <= t[k][2]
    <3>1. CASE i = j
      BY <1>1, <2>4, <2>6, <3>1
    <3>2. CASE i # j
      <4>1. i \in a .. j - 1
        BY <1>1, <3>2
      <4>2. PICK k \in DOMAIN s : s[k][1] <= i /\ i <= s[k][2]
        BY <1>1, <2>10, <4>1 DEF WordsUpTo
      <4>3. k \in DOMAIN t /\ t[k] = s[k]
        BY <2>6
      <4> QED BY <4>2, <4>3
    <3> QED BY <3>1, <3>2
  <2>11. WordsUpTo(f, j, t)
    BY <1>1, <2>6, <2>8, <2>9, <2>10 DEF WordsUpTo
  <2> QED BY <1>3, <2>11 DEF t, x
<1>4. CASE ~(Filled(j) /\ (j = a \/ ~Filled(j - 1)))
  <2>1. ASSUME NEW i \in a .. j, Filled(i)
        PROVE  \E k \in DOMAIN s : s[k][1] <= i /\ i <= s[k][2]
    <3>1. CASE i = j
      <4>1. j # a /\ Filled(j - 1) /\ j - 1 \in a .. j - 1
        BY <1>1, <1>4, <2>1, <3>1
      <4>2. PICK k \in DOMAIN s : s[k][1] <= j - 1 /\ j - 1 <= s[k][2]
        BY <1>1, <4>1 DEF WordsUpTo
      <4> DEFINE y == s[k][1]
      <4>3. y \in Nat /\ y \in 1 .. Width + 1 /\ s[k][2] = WordEnd[y] - 1
        BY <1>1, <1>2, Numbers DEF WordsUpTo
      <4>4. WordEnd[y] \in y .. Width + 1 /\ ~Filled(WordEnd[y])
        BY <4>3, WordEnds
      <4>5. WordEnd[y] # j
        BY <2>1, <3>1, <4>4
      <4>6. y <= j /\ j <= WordEnd[y] - 1
        BY <1>1, <4>2, <4>3, <4>4, <4>5, Numbers
      <4> QED BY <3>1, <4>3, <4>6
    <3>2. CASE i # j
      <4>1. i \in a .. j - 1
        BY <1>1, <3>2
      <4> QED BY <1>1, <2>1, <4>1 DEF WordsUpTo
    <3> QED BY <3>1, <3>2
  <2>2. \A k \in DOMAIN s : s[k][1] <= j - 1 => s[k][1] <= j
    BY <1>1, <1>2, Numbers
  <2>3. WordsUpTo(f, j, s)
    BY <1>1, <2>1, <2>2 DEF WordsUpTo
  <2> QED BY <1>4, <2>3
<1> QED BY <1>3, <1>4

(* The words of a field that ends where nothing follows.                   *)
LEMMA WordsOfField ==
  ASSUME NEW a \in Span, NEW b \in Span, a <= b, ~Filled(b + 1)
  PROVE  WordsUpTo(<<a, b>>, b, Words(<<a, b>>))
<1> DEFINE begins(i) == Filled(i) /\ (i = a \/ ~Filled(i - 1))
           F(g, i) == IF i < a THEN <<>>
                      ELSE IF begins(i) THEN Append(g[i - 1], <<i, WordEnd[i] - 1>>)
                      ELSE g[i - 1]
           Eq(n, g) == g = [i \in 0 .. n |-> F(g, i)]
           T == {n \in Nat : \E g : Eq(n, g)}
<1>1. a \in Nat /\ a >= 1 /\ b \in Nat
  BY Numbers
<1>2. ASSUME NEW g, NEW h, NEW i \in Nat, i >= a => g[i - 1] = h[i - 1]
      PROVE  F(g, i) = F(h, i)
  BY <1>1, <1>2
<1>3. \A g, i : i < a => F(g, i) = <<>>
  OBVIOUS
<1>4. \A g, i : ~(i < a) => F(g, i) = IF begins(i) THEN Append(g[i - 1], <<i, WordEnd[i] - 1>>)
                                      ELSE g[i - 1]
  OBVIOUS
<1>5. Words(<<a, b>>) = (CHOOSE g : g = [i \in 0 .. b |-> F(g, i)])[b]
  BY DEF Words
<1> HIDE DEF F
<1>6. 0 \in T
  <2> DEFINE g == [i \in 0 .. 0 |-> <<>>]
  <2>1. \A i \in 0 .. 0 : F(g, i) = <<>>
    BY <1>1, <1>3
  <2>2. Eq(0, g)
    BY <2>1
  <2> QED BY <2>2
<1>7. ASSUME NEW n \in T
      PROVE  n + 1 \in T
  <2>1. PICK g : Eq(n, g)
    OBVIOUS
  <2> DEFINE h == [i \in 0 .. (n + 1) |-> IF i = n + 1 THEN F(g, n + 1) ELSE g[i]]
  <2>2. n \in Nat
    OBVIOUS
  <2>3. ASSUME NEW i \in 0 .. (n + 1)
        PROVE  h[i] = F(h, i)
    <3>1. i >= a => g[i - 1] = h[i - 1]
      BY <1>1, <2>2
    <3>2. F(g, i) = F(h, i)
      <4> HIDE DEF h
      <4> QED BY <1>2, <3>1
    <3>3. h[i] = F(g, i)
      <4>1. CASE i = n + 1
        BY <4>1
      <4>2. CASE i # n + 1
        <5>1. i \in 0 .. n
          BY <2>2, <4>2
        <5>2. g[i] = F(g, i)
          BY <2>1, <5>1
        <5> QED BY <4>2, <5>2
      <4> QED BY <4>1, <4>2
    <3> QED BY <3>2, <3>3
  <2>4. h = [i \in 0 .. (n + 1) |-> h[i]]
    OBVIOUS
  <2> HIDE DEF h
  <2>5. Eq(n + 1, h)
    BY <2>3, <2>4
  <2> HIDE DEF Eq
  <2> QED BY <2>2, <2>5
<1>8. T \subseteq Nat
  OBVIOUS
<1> HIDE DEF T
<1>9. b \in T
  BY <1>1, <1>6, <1>7, <1>8, NatSetInduction
<1> DEFINE upTo == CHOOSE g : Eq(b, g)
<1>10. Eq(b, upTo)
  <2>1. \E g : Eq(b, g)
    BY <1>9 DEF T
  <2> HIDE DEF Eq
  <2> QED BY <2>1
<1>11. Words(<<a, b>>) = upTo[b]
  BY <1>5
<1>12. \A i \in 0 .. b : upTo[i] = F(upTo, i)
  <2> HIDE DEF upTo
  <2> QED BY <1>10
<1> HIDE DEF upTo, Eq
<1> DEFINE U == {n \in Nat : n \in a - 1 .. b => WordsUpTo(<<a, b>>, n, upTo[n])}
<1>13. ASSUME NEW n \in Nat, n < a
       PROVE  n \in U
  <2>1. n \in a - 1 .. b => n \in 0 .. b /\ upTo[n] = <<>> /\ a .. n = {}
    BY <1>1, <1>3, <1>12, <1>13
  <2>2. a .. n = {} => WordsUpTo(<<a, b>>, n, <<>>)
    BY DEF WordsUpTo
  <2> QED BY <2>1, <2>2
<1>14. ASSUME NEW n \in U
       PROVE  n + 1 \in U
  <2>1. n \in Nat /\ n + 1 \in Nat
    OBVIOUS
  <2>2. CASE n + 1 < a
    BY <1>13, <2>1, <2>2
  <2>3. CASE n + 1 > b
    BY <1>1, <2>1, <2>3
  <2>4. CASE n + 1 \in a .. b
    <3>1. WordsUpTo(<<a, b>>, (n + 1) - 1, upTo[n])
      BY <1>1, <2>1, <2>4
    <3>2. upTo[n + 1] = IF begins(n + 1) THEN Append(upTo[n], <<n + 1, WordEnd[n + 1] - 1>>)
                        ELSE upTo[n]
      <4>1. upTo[n + 1] = F(upTo, n + 1) /\ ~(n + 1 < a) /\ (n + 1) - 1 = n
        BY <1>1, <1>12, <2>1, <2>4
      <4> HIDE DEF begins
      <4> QED BY <1>4, <4>1
    <3>3. WordsUpTo(<<a, b>>, n + 1, upTo[n + 1])
      BY <2>4, <3>1, <3>2, NextWord
    <3> QED BY <2>1, <3>3
  <2> QED BY <1>1, <2>1, <2>2, <2>3, <2>4
<1>15. 0 \in U
  BY <1>1, <1>13
<1>16. U \subseteq Nat
  OBVIOUS
<1> HIDE DEF U
<1>17. b \in U
  BY <1>1, <1>14, <1>15, <1>16, NatSetInduction
<1>18. b \in a - 1 .. b
  BY <1>1
<1> QED BY <1>11, <1>17, <1>18 DEF U

-----------------------------------------------------------------------------
(* Rows.                                                                   *)

Rows == [Headers -> Seq(Spans)]

(* The headers are read from left to right.                                *)
InOrder == /\ domains \in Domains
           /\ domains[1].left < domains[1].right /\ domains[1].right <= domains[2].left
           /\ domains[2].left < domains[2].right

(* Something of the row.                                                   *)
Held(r, f) == \E h \in Headers : \E k \in DOMAIN r[h] : r[h][k] = f

(* A row of what stands before place p: each field below one header, under *)
(* which it is filed, and one behind the other.                            *)
Aligned(r, p) ==
  /\ r \in Rows
  /\ \A h \in Headers : \A k \in DOMAIN r[h] :
       /\ r[h][k][1] <= r[h][k][2] /\ r[h][k][2] < p
       /\ Leftmost(r[h][k]) = h /\ Rightmost(r[h][k]) = h
  /\ \A h \in Headers : \A k, l \in DOMAIN r[h] : k < l => r[h][k][2] < r[h][l][1]
  /\ \A k \in DOMAIN r[1], l \in DOMAIN r[2] : r[1][k][2] < r[2][l][1]

(* The types of the headers' places.                                       *)
LEMMA DomainFacts ==
  ASSUME InOrder
  PROVE  /\ domains[1].left \in Nat /\ domains[1].right \in Nat
         /\ domains[2].left \in Nat /\ domains[2].right \in Nat
         /\ domains[1].left < domains[1].right /\ domains[1].right <= domains[2].left
         /\ domains[2].left < domains[2].right
<1>1. PICK a, b \in [left : Places, right : 2 .. Width + 1] : domains = <<a, b>>
  BY DEF InOrder, Domains
<1>2. domains[1] = a /\ domains[2] = b
  BY <1>1
<1>3. a.left \in Nat /\ a.right \in Nat /\ b.left \in Nat /\ b.right \in Nat
  BY Numbers
<1> QED BY <1>2, <1>3 DEF InOrder

(* The smallest and the greatest of the headers.                           *)
LEMMA HeaderBounds ==
  /\ Min({1}) = 1 /\ Min({2}) = 2 /\ Min({1, 2}) = 1
  /\ Max({1}) = 1 /\ Max({2}) = 2 /\ Max({1, 2}) = 2
<1>1. \A m \in {1} : (\A y \in {1} : m =< y) <=> m = 1
  OBVIOUS
<1>2. \A m \in {2} : (\A y \in {2} : m =< y) <=> m = 2
  OBVIOUS
<1>3. \A m \in {1, 2} : (\A y \in {1, 2} : m =< y) <=> m = 1
  OBVIOUS
<1>4. \A m \in {1} : (\A y \in {1} : m >= y) <=> m = 1
  OBVIOUS
<1>5. \A m \in {2} : (\A y \in {2} : m >= y) <=> m = 2
  OBVIOUS
<1>6. \A m \in {1, 2} : (\A y \in {1, 2} : m >= y) <=> m = 2
  OBVIOUS
<1> QED BY <1>1, <1>2, <1>3, <1>4, <1>5, <1>6 DEF Min, Max

(* Which header a field is below, first and last.                          *)
LEMMA Sides ==
  ASSUME InOrder, NEW f \in Spans
  PROVE  /\ f[1] \in Nat /\ f[2] \in Nat
         /\ Leftmost(f) = IF f[1] < domains[1].right THEN 1
                          ELSE IF f[1] < domains[2].right THEN 2 ELSE 3
         /\ Rightmost(f) = IF f[2] > domains[2].left THEN 2
                           ELSE IF f[2] > domains[1].left THEN 1 ELSE 0
<1>1. f[1] \in Nat /\ f[2] \in Nat
  BY Numbers DEF Spans
<1> DEFINE E == {h \in Headers : f[1] < domains[h].right}
           B == {h \in Headers : f[2] > domains[h].left}
<1>2. /\ f[1] < domains[1].right => E = {1, 2}
      /\ ~(f[1] < domains[1].right) /\ f[1] < domains[2].right => E = {2}
      /\ ~(f[1] < domains[1].right) /\ ~(f[1] < domains[2].right) => E = {}
  BY <1>1, DomainFacts DEF Headers
<1>3. /\ f[2] > domains[2].left => B = {1, 2}
      /\ ~(f[2] > domains[2].left) /\ f[2] > domains[1].left => B = {1}
      /\ ~(f[2] > domains[2].left) /\ ~(f[2] > domains[1].left) => B = {}
  BY <1>1, DomainFacts DEF Headers
<1>4. Leftmost(f) = IF E = {} THEN 3 ELSE Min(E)
  BY DEF Leftmost
<1>5. Rightmost(f) = IF B = {} THEN 0 ELSE Max(B)
  BY DEF Rightmost
<1> HIDE DEF E, B
<1> QED BY <1>1, <1>2, <1>3, <1>4, <1>5, HeaderBounds

(* A field or word that stands behind all of the row, filed.               *)
LEMMA FileKeeps ==
  ASSUME InOrder, NEW r, NEW p \in Nat, Aligned(r, p), NEW f \in Spans,
         p <= f[1], f[1] <= f[2], Leftmost(f) = Rightmost(f)
  PROVE  /\ Leftmost(f) \in Headers
         /\ Aligned(File(r, f), f[2] + 1)
         /\ Held(File(r, f), f)
         /\ \A g : Held(r, g) => Held(File(r, f), g)
<1> DEFINE x == Leftmost(f)
           t == File(r, f)
<1>1. x \in Headers /\ f[1] \in Nat /\ f[2] \in Nat
  BY Sides DEF Headers
<1>2. r \in Rows /\ \A h \in Headers : r[h] \in Seq(Spans)
  BY DEF Aligned, Rows
<1>3. /\ t \in Rows /\ t[x] = Append(r[x], f)
      /\ \A h \in Headers \ {x} : t[h] = r[h]
  BY <1>1, <1>2 DEF File, Rows
<1>4. /\ DOMAIN t[x] = 1 .. Len(r[x]) + 1 /\ DOMAIN r[x] = 1 .. Len(r[x])
      /\ t[x][Len(r[x]) + 1] = f /\ Len(r[x]) \in Nat
      /\ \A k \in DOMAIN r[x] : t[x][k] = r[x][k]
  BY <1>1, <1>2, <1>3
<1> DEFINE n == Len(r[x]) + 1
<1>5. \A k \in DOMAIN t[x] : k \in DOMAIN r[x] \/ k = n
  BY <1>4
<1>6. \A h \in Headers : \A k \in DOMAIN r[h] :
        /\ r[h][k] \in Spans /\ r[h][k][1] \in Nat /\ r[h][k][2] \in Nat
        /\ r[h][k][2] < f[1] /\ r[h][k][1] <= r[h][k][2]
  <2> SUFFICES ASSUME NEW h \in Headers, NEW k \in DOMAIN r[h]
               PROVE  /\ r[h][k] \in Spans /\ r[h][k][1] \in Nat /\ r[h][k][2] \in Nat
                      /\ r[h][k][2] < f[1] /\ r[h][k][1] <= r[h][k][2]
    OBVIOUS
  <2>1. r[h][k] \in Spans
    BY <1>2
  <2>2. r[h][k][1] \in Nat /\ r[h][k][2] \in Nat
    BY <2>1, Sides
  <2>3. r[h][k][2] < p /\ r[h][k][1] <= r[h][k][2]
    BY DEF Aligned
  <2> QED BY <1>1, <2>1, <2>2, <2>3
<1>7. x = 1 => DOMAIN r[2] = {}
  <2> SUFFICES ASSUME x = 1, NEW l \in DOMAIN r[2]
               PROVE  FALSE
    OBVIOUS
  <2>1. 2 \in Headers /\ r[2][l] \in Spans /\ r[2][l][2] < f[1] /\ r[2][l][1] <= r[2][l][2]
        /\ r[2][l][1] \in Nat /\ r[2][l][2] \in Nat
    BY <1>6 DEF Headers
  <2>2. Leftmost(r[2][l]) = 2
    BY <2>1 DEF Aligned
  <2>3. ~(r[2][l][1] < domains[1].right) /\ f[1] < domains[1].right
    BY <2>1, <2>2, Sides
  <2> QED BY <1>1, <2>1, <2>3, DomainFacts
<1> HIDE DEF x, t, n
<1>8. ASSUME NEW h \in Headers, NEW k \in DOMAIN t[h]
      PROVE  /\ t[h][k][1] <= t[h][k][2] /\ t[h][k][2] < f[2] + 1
             /\ Leftmost(t[h][k]) = h /\ Rightmost(t[h][k]) = h
  <2>1. CASE h = x /\ k = n
    BY <1>1, <1>4, <2>1 DEF n, x
  <2>2. CASE ~(h = x /\ k = n)
    <3>1. k \in DOMAIN r[h] /\ t[h][k] = r[h][k]
      BY <1>3, <1>4, <1>5, <2>2
    <3>2. r[h][k][2] < f[2] + 1
      BY <1>1, <1>6, <3>1
    <3> QED BY <3>1, <3>2 DEF Aligned
  <2> QED BY <2>1, <2>2
<1>9. ASSUME NEW h \in Headers, NEW k \in DOMAIN t[h], NEW l \in DOMAIN t[h], k < l
      PROVE  t[h][k][2] < t[h][l][1]
  <2>1. CASE h # x
    <3>1. t[h] = r[h]
      BY <1>3, <2>1
    <3> QED BY <1>9, <3>1 DEF Aligned
  <2>2. CASE h = x
    <3>1. k \in DOMAIN r[x] /\ t[x][k] = r[x][k]
      BY <1>4, <1>5, <1>9, <2>2 DEF n
    <3>2. CASE l = n
      BY <1>1, <1>4, <1>6, <2>2, <3>1, <3>2 DEF n
    <3>3. CASE l # n
      <4>1. l \in DOMAIN r[x] /\ t[x][l] = r[x][l]
        BY <1>4, <1>5, <2>2, <3>3
      <4> QED BY <1>1, <1>9, <2>2, <3>1, <4>1 DEF Aligned
    <3> QED BY <3>2, <3>3
  <2> QED BY <2>1, <2>2
<1>10. ASSUME NEW k \in DOMAIN t[1], NEW l \in DOMAIN t[2]
       PROVE  t[1][k][2] < t[2][l][1]
  <2>1. CASE x = 1
    BY <1>3, <1>7, <2>1 DEF Headers
  <2>2. CASE x = 2
    <3>1. 1 \in Headers /\ 2 \in Headers /\ t[1] = r[1]
      BY <1>3, <2>2 DEF Headers
    <3>2. CASE l = n
      BY <1>4, <1>6, <2>2, <3>1, <3>2 DEF n
    <3>3. CASE l # n
      <4>1. l \in DOMAIN r[2] /\ t[2][l] = r[2][l]
        BY <1>4, <1>5, <2>2, <3>3
      <4> QED BY <3>1, <4>1 DEF Aligned
    <3> QED BY <3>2, <3>3
  <2> QED BY <1>1, <2>1, <2>2 DEF Headers
<1>11. Aligned(t, f[2] + 1)
  BY <1>3, <1>8, <1>9, <1>10 DEF Aligned
<1>12. Held(t, f)
  BY <1>1, <1>4 DEF Held
<1>13. ASSUME NEW g, Held(r, g)
       PROVE  Held(t, g)
  <2>1. PICK h \in Headers : \E k \in DOMAIN r[h] : r[h][k] = g
    BY <1>13 DEF Held
  <2>2. PICK k \in DOMAIN r[h] : r[h][k] = g
    BY <2>1
  <2>3. k \in DOMAIN t[h] /\ t[h][k] = g
    BY <1>3, <1>4, <2>2
  <2> QED BY <2>3 DEF Held
<1> QED BY <1>1, <1>11, <1>12, <1>13 DEF t, x

(* The words of a field, each below one header, filed one by one.          *)
LEMMA WordsKeep ==
  ASSUME InOrder, NEW r0, NEW p \in Nat, Aligned(r0, p),
         NEW a \in Span, NEW b \in Span, p <= a, a <= b, NEW w, WordsUpTo(<<a, b>>, b, w),
         \A k \in DOMAIN w : Leftmost(w[k]) = Rightmost(w[k])
  PROVE  LET r == Folded(r0, w)
         IN  /\ Aligned(r, b + 1)
             /\ \A g : Held(r0, g) => Held(r, g)
             /\ \A k \in DOMAIN w : Held(r, w[k])
<1>1. /\ w \in Seq(Spans) /\ DOMAIN w = 1 .. Len(w) /\ Len(w) \in Nat
      /\ a \in Nat /\ b \in Nat
  BY Numbers DEF WordsUpTo
<1>2. PICK acc : /\ acc[0] = r0 /\ Folded(r0, w) = acc[Len(w)]
                 /\ \A k \in 1 .. Len(w) : acc[k] = File(acc[k - 1], w[k])
  BY <1>1, FoldSteps
<1> DEFINE n == Len(w)
           end(k) == IF k = 0 THEN p ELSE w[k][2] + 1
           T == {k \in Nat : k <= n =>
                   /\ Aligned(acc[k], end(k))
                   /\ \A g : Held(r0, g) => Held(acc[k], g)
                   /\ \A l \in 1 .. k : Held(acc[k], w[l])}
<1>3. \A k \in 1 .. n :
        /\ w[k] \in Spans /\ w[k][1] \in Nat /\ w[k][2] \in Nat
        /\ a <= w[k][1] /\ w[k][1] <= w[k][2] /\ w[k][2] <= b
        /\ \A l \in 1 .. n : l < k => w[l][2] < w[k][1]
  BY <1>1, Sides DEF WordsUpTo
<1>4. 0 \in T
  BY <1>2
<1>5. ASSUME NEW k \in T
      PROVE  k + 1 \in T
  <2>1. k \in Nat /\ k + 1 \in Nat
    OBVIOUS
  <2>2. SUFFICES ASSUME k + 1 <= n
                 PROVE  /\ Aligned(acc[k + 1], end(k + 1))
                        /\ \A g : Held(r0, g) => Held(acc[k + 1], g)
                        /\ \A l \in 1 .. k + 1 : Held(acc[k + 1], w[l])
    BY <2>1
  <2>3. k + 1 \in 1 .. n /\ k <= n /\ (k + 1) - 1 = k /\ k + 1 # 0
    BY <1>1, <2>1, <2>2
  <2>4. /\ Aligned(acc[k], end(k))
        /\ \A g : Held(r0, g) => Held(acc[k], g)
        /\ \A l \in 1 .. k : Held(acc[k], w[l])
    BY <2>3
  <2>5. end(k) \in Nat /\ end(k) <= w[k + 1][1]
    <3>1. CASE k = 0
      BY <1>1, <1>3, <2>3, <3>1
    <3>2. CASE k # 0
      <4>1. k \in 1 .. n /\ k < k + 1
        BY <1>1, <2>1, <2>3, <3>2
      <4>2. w[k][2] < w[k + 1][1] /\ w[k][2] \in Nat /\ w[k + 1][1] \in Nat
        BY <1>3, <2>3, <4>1
      <4> QED BY <3>2, <4>2
    <3> QED BY <3>1, <3>2
  <2>6. acc[k + 1] = File(acc[k], w[k + 1]) /\ end(k + 1) = w[k + 1][2] + 1
    BY <1>2, <2>3
  <2>7. w[k + 1] \in Spans /\ w[k + 1][1] <= w[k + 1][2]
        /\ Leftmost(w[k + 1]) = Rightmost(w[k + 1])
    BY <1>1, <1>3, <2>3
  <2> DEFINE e == end(k)
  <2>8. e \in Nat /\ e <= w[k + 1][1] /\ Aligned(acc[k], e)
    BY <2>4, <2>5
  <2> HIDE DEF e, T, end
  <2>9. /\ Aligned(File(acc[k], w[k + 1]), w[k + 1][2] + 1)
        /\ Held(File(acc[k], w[k + 1]), w[k + 1])
        /\ \A g : Held(acc[k], g) => Held(File(acc[k], w[k + 1]), g)
    BY <2>7, <2>8, FileKeeps
  <2>10. \A l \in 1 .. k + 1 : l \in 1 .. k \/ l = k + 1
    BY <2>1
  <2> QED BY <2>4, <2>6, <2>9, <2>10
<1>6. T \subseteq Nat
  OBVIOUS
<1> HIDE DEF T
<1>7. n \in T
  BY <1>1, <1>4, <1>5, <1>6, NatSetInduction
<1>8. /\ Aligned(acc[n], end(n))
      /\ \A g : Held(r0, g) => Held(acc[n], g)
      /\ \A l \in 1 .. n : Held(acc[n], w[l])
  BY <1>1, <1>7 DEF T
<1>9. end(n) <= b + 1 /\ end(n) \in Nat
  <2>1. CASE n = 0
    BY <1>1, <2>1
  <2>2. CASE n # 0
    <3>1. n \in 1 .. n
      BY <1>1, <2>2
    <3>2. w[n][2] \in Nat /\ w[n][2] <= b
      BY <1>3, <3>1
    <3> QED BY <1>1, <2>2, <3>2
  <2> QED BY <2>1, <2>2
<1> DEFINE e == end(n)
<1>10. e <= b + 1 /\ e \in Nat /\ Aligned(acc[n], e)
  BY <1>8, <1>9
<1> HIDE DEF e, end
<1>11. Aligned(acc[n], b + 1)
  <2>1. ASSUME NEW h \in Headers, NEW k \in DOMAIN acc[n][h]
        PROVE  acc[n][h][k][2] < b + 1
    <3>1. acc[n][h][k] \in Spans
      BY <1>10 DEF Aligned, Rows
    <3>2. acc[n][h][k][2] \in Nat /\ acc[n][h][k][2] < e
      BY <1>10, <3>1, Sides DEF Aligned
    <3> QED BY <1>1, <1>10, <3>2
  <2> QED BY <1>10, <2>1 DEF Aligned
<1> QED BY <1>1, <1>2, <1>8, <1>11

-----------------------------------------------------------------------------
(* The inductive invariant.                                                *)

(* What has been scanned is in the row.                                    *)
Complete(r, p) == \A i \in 1 .. p - 1 : Filled(i) =>
                    \E f \in Spans : Held(r, f) /\ f[1] <= i /\ i <= f[2]

IInv == /\ line \in Lines /\ InOrder /\ at \in 1 .. Width + 1
        /\ result \in {"scanning", "row", "UnexpectedOutput"}
        /\ Aligned(row, at)
        /\ result # "UnexpectedOutput" => Complete(row, at)
        /\ result = "row" => \A i \in at .. Width : ~Filled(i)

(* What has been filed stays where it is.                                  *)
LEMMA AlignedFurther ==
  ASSUME InOrder, NEW r, NEW p \in Nat, NEW q \in Nat, p <= q, Aligned(r, p)
  PROVE  Aligned(r, q)
<1>1. ASSUME NEW h \in Headers, NEW k \in DOMAIN r[h]
      PROVE  r[h][k][2] < q
  <2>1. r[h][k] \in Spans
    BY DEF Aligned, Rows
  <2>2. r[h][k][2] \in Nat /\ r[h][k][2] < p
    BY <2>1, Sides DEF Aligned
  <2> QED BY <2>2
<1> QED BY <1>1 DEF Aligned

(* The headers stay where they are.                                        *)
LEMMA SidesStay ==
  ASSUME UNCHANGED domains, NEW f
  PROVE  Leftmost(f)' = Leftmost(f) /\ Rightmost(f)' = Rightmost(f)
<1>1. {h \in Headers : f[1] < domains[h].right}' = {h \in Headers : f[1] < domains[h].right}
  OBVIOUS
<1>2. {h \in Headers : f[2] > domains[h].left}' = {h \in Headers : f[2] > domains[h].left}
  OBVIOUS
<1> QED BY <1>1, <1>2 DEF Leftmost, Rightmost

(* So what is aligned stays aligned.                                       *)
LEMMA AlignedNext ==
  ASSUME UNCHANGED domains, Aligned(row', at')
  PROVE  Aligned(row, at)'
BY SidesStay DEF Aligned

(* One field.                                                              *)
LEMMA NextFieldKeeps ==
  ASSUME IInv, NextField
  PROVE  IInv'
<1>1. PICK i \in at .. Width :
        /\ Filled(i) /\ \A j \in at .. i - 1 : ~Filled(j)
        /\ at' = MatchEnd[i]
        /\ SplitField(Field(i)) \/ StrayField(Field(i)) \/ FileField(Field(i))
  BY DEF NextField
<1>2. UNCHANGED <<line, domains>> /\ result = "scanning"
  BY DEF NextField
<1>3. /\ at \in Nat /\ i \in Nat /\ i \in 1 .. Width + 1 /\ i \in Span /\ at <= i
      /\ line \in Lines /\ InOrder /\ Aligned(row, at) /\ Complete(row, at)
  BY <1>1, <1>2, Numbers DEF IInv
<1> DEFINE a == i
           b == MatchEnd[i] - 1
<1>4. /\ MatchEnd[i] \in i .. Width + 1 /\ ~Filled(MatchEnd[i]) /\ MatchEnd[i] > i
  BY <1>1, <1>3, MatchEnds
<1>5. /\ at' \in Nat /\ at' \in 1 .. Width + 1 /\ at' = b + 1 /\ b \in Span /\ b \in Nat
      /\ a <= b /\ at <= at' /\ Field(i) = <<a, b>> /\ <<a, b>> \in Spans /\ ~Filled(b + 1)
  BY <1>1, <1>3, <1>4, Numbers DEF Field, Spans
<1> HIDE DEF a, b
<1>6. InOrder' /\ line' \in Lines /\ (Aligned(row', at') => Aligned(row, at)')
  BY <1>2, <1>3, AlignedNext DEF InOrder
<1>7. ASSUME NEW r, NEW w, w \in Seq(Spans), row' = r,
             \A g : Held(row, g) => Held(r, g),
             \A k \in DOMAIN w : Held(r, w[k]),
             \A j \in a .. b : Filled(j) => \E k \in DOMAIN w : w[k][1] <= j /\ j <= w[k][2]
      PROVE  Complete(row, at)'
  <2> SUFFICES ASSUME NEW j \in 1 .. b, Filled(j)
               PROVE  \E f \in Spans : Held(r, f) /\ f[1] <= j /\ j <= f[2]
    BY <1>2, <1>5, <1>7 DEF Complete, Filled, Held
  <2>1. CASE j \in 1 .. at - 1
    BY <1>3, <1>7, <2>1 DEF Complete
  <2>2. CASE j \in at .. i - 1
    BY <1>1, <2>2
  <2>3. CASE j \in a .. b
    <3>1. PICK k \in DOMAIN w : w[k][1] <= j /\ j <= w[k][2]
      BY <1>7, <2>3
    <3>2. w[k] \in Spans
      BY <1>7
    <3> QED BY <1>7, <3>1, <3>2
  <2>4. j \in 1 .. at - 1 \/ j \in at .. i - 1 \/ j \in a .. b
    BY <1>3, <1>5 DEF a
  <2> QED BY <2>1, <2>2, <2>3, <2>4
<1>8. ASSUME row' = row, result' = "UnexpectedOutput"
      PROVE  IInv'
  <2>1. Aligned(row, at')
    BY <1>3, <1>5, AlignedFurther
  <2>2. Aligned(row, at)'
    BY <1>6, <1>8, <2>1
  <2> QED BY <1>5, <1>6, <1>8, <2>2, Numbers DEF IInv
<1>9. CASE SplitField(Field(i))
  <2> DEFINE w == Words(Field(i))
  <2>1. WordsUpTo(<<a, b>>, b, w)
    BY <1>3, <1>5, WordsOfField DEF a
  <2>2. CASE ~(\A k \in DOMAIN w : Leftmost(w[k]) = Rightmost(w[k]))
    BY <1>8, <1>9, <2>2 DEF SplitField, Fail
  <2>3. CASE \A k \in DOMAIN w : Leftmost(w[k]) = Rightmost(w[k])
    <3>1. row' = Folded(row, w) /\ result' = result
      BY <1>9, <2>3 DEF SplitField, Folded
    <3>2. a \in Span /\ at <= a
      BY <1>3 DEF a
    <3> HIDE DEF w
    <3>3. /\ Aligned(Folded(row, w), b + 1)
          /\ \A g : Held(row, g) => Held(Folded(row, w), g)
          /\ \A k \in DOMAIN w : Held(Folded(row, w), w[k])
      BY <1>3, <1>5, <2>1, <2>3, <3>2, WordsKeep
    <3>4. Complete(row, at)'
      BY <1>7, <2>1, <3>1, <3>3 DEF WordsUpTo
    <3>5. Aligned(row, at)'
      BY <1>5, <1>6, <3>1, <3>3
    <3> QED BY <1>2, <1>5, <1>6, <3>1, <3>4, <3>5, Numbers DEF IInv
  <2> QED BY <2>2, <2>3
<1>10. CASE StrayField(Field(i))
  BY <1>8, <1>10 DEF StrayField, Fail
<1>11. CASE FileField(Field(i))
  <2> DEFINE f == Field(i)
             h == Leftmost(Field(i))
  <2>1. CASE row[h] # <<>>
    BY <1>8, <1>11, <2>1 DEF FileField, Fail
  <2>2. CASE row[h] = <<>>
    <3>1. row' = [row EXCEPT ![h] = <<f>>] /\ result' = result /\ h = Rightmost(f)
      BY <1>11, <2>2 DEF FileField
    <3>2. f \in Spans /\ f[1] = a /\ f[2] = b /\ at <= f[1] /\ f[1] <= f[2]
      BY <1>3, <1>5 DEF a
    <3>3. /\ h \in Headers /\ Aligned(File(row, f), f[2] + 1) /\ Held(File(row, f), f)
          /\ \A g : Held(row, g) => Held(File(row, f), g)
      <4> DEFINE x == Field(i)
      <4>1. x \in Spans /\ at <= x[1] /\ x[1] <= x[2] /\ Leftmost(x) = Rightmost(x)
        BY <3>1, <3>2
      <4> HIDE DEF x
      <4>2. /\ Leftmost(x) \in Headers /\ Aligned(File(row, x), x[2] + 1)
            /\ Held(File(row, x), x) /\ \A g : Held(row, g) => Held(File(row, x), g)
        BY <1>3, <4>1, FileKeeps
      <4> QED BY <4>2 DEF x
    <3>4. row' = File(row, f)
      <4>1. Append(row[h], f) = <<f>>
        BY <2>2
      <4>2. File(row, f) = [row EXCEPT ![h] = Append(row[h], f)]
        BY DEF File
      <4> QED BY <3>1, <4>1, <4>2
    <3>5. Complete(row, at)'
      <4> DEFINE w == <<f>>
                 r == File(row, f)
      <4>1. w \in Seq(Spans) /\ DOMAIN w = {1} /\ w[1] = f
        BY <3>2
      <4>2. \A j \in a .. b : w[1][1] <= j /\ j <= w[1][2]
        BY <3>2, <4>1
      <4>3. \A k \in DOMAIN w : Held(r, w[k])
        BY <3>3, <4>1
      <4>4. row' = r /\ \A g : Held(row, g) => Held(r, g)
        BY <3>3, <3>4
      <4>5. \A j \in a .. b : Filled(j) => \E k \in DOMAIN w : w[k][1] <= j /\ j <= w[k][2]
        BY <4>1, <4>2
      <4> HIDE DEF w, r
      <4> QED BY <1>7, <4>1, <4>3, <4>4, <4>5
    <3>6. Aligned(row, at)'
      BY <1>5, <1>6, <3>2, <3>3, <3>4
    <3> QED BY <1>2, <1>5, <1>6, <3>1, <3>5, <3>6, Numbers DEF IInv
  <2> QED BY <2>1, <2>2
<1> QED BY <1>1, <1>9, <1>10, <1>11

(* The end of the line, and steps that do not read on.                     *)
LEMMA RestKeeps ==
  ASSUME IInv, EndOfLine \/ UNCHANGED vars
  PROVE  IInv'
<1>1. UNCHANGED <<line, domains, at, row>>
  BY DEF EndOfLine, vars
<1>2. Aligned(row, at)'
  BY <1>1, AlignedNext DEF IInv
<1>3. InOrder'
  BY <1>1 DEF IInv, InOrder
<1>4. \A i : Filled(i)' <=> Filled(i)
  BY <1>1 DEF Filled
<1>5. Complete(row, at) => Complete(row, at)'
  BY <1>1, <1>4 DEF Complete, Held
<1>6. UNCHANGED result \/ (result = "scanning" /\ result' = "row"
                            /\ \A i \in at .. Width : ~Filled(i))
  BY DEF EndOfLine, vars
<1> QED BY <1>1, <1>2, <1>3, <1>4, <1>5, <1>6 DEF IInv

(* A line nothing was read of.                                             *)
LEMMA InitIInv == Init => IInv
<1> SUFFICES ASSUME Init
             PROVE  IInv
  OBVIOUS
<1>1. at = 1 /\ row = [h \in Headers |-> <<>>] /\ result = "scanning" /\ line \in Lines
  BY DEF Init
<1>2. InOrder
  BY DEF Init, InOrder
<1>3. \A h \in Headers : row[h] = <<>> /\ DOMAIN row[h] = {}
  BY <1>1
<1>4. row \in Rows
  <2>1. <<>> \in Seq(Spans)
    OBVIOUS
  <2> QED BY <1>1, <2>1 DEF Rows
<1>5. 1 \in Headers /\ 2 \in Headers
  BY DEF Headers
<1>6. Aligned(row, at)
  BY <1>3, <1>4, <1>5 DEF Aligned
<1>7. Complete(row, at)
  <2>1. \A i \in 1 .. at - 1 : FALSE
    BY <1>1
  <2> QED BY <2>1 DEF Complete
<1>8. at \in 1 .. Width + 1
  BY <1>1, Numbers
<1> QED BY <1>1, <1>2, <1>6, <1>7, <1>8 DEF IInv

(* The invariant holds in every reachable state.                           *)
THEOREM Invariance == Spec => []IInv
<1>1. IInv /\ [Next]_vars => IInv'
  BY NextFieldKeeps, RestKeeps DEF Next
<1> QED BY <1>1, InitIInv, PTL DEF Spec

-----------------------------------------------------------------------------
(* The properties.                                                         *)

(* Every variable has its type, for lines of any width.                    *)
THEOREM TypeCorrect == Spec => []TypeOK
<1>1. IInv => TypeOK
  BY DEF IInv, InOrder, Aligned, Rows, Spans, TypeOK
<1> QED BY <1>1, Invariance, PTL

(* Two sequences, one after the other.                                     *)
LEMMA ConcatFacts ==
  ASSUME NEW S, NEW a \in Seq(S), NEW b \in Seq(S)
  PROVE  /\ Len(a) \in Nat /\ Len(b) \in Nat
         /\ DOMAIN a = 1 .. Len(a) /\ DOMAIN b = 1 .. Len(b)
         /\ DOMAIN (a \o b) = 1 .. Len(a) + Len(b) /\ Len(a \o b) = Len(a) + Len(b)
         /\ \A k \in 1 .. Len(a) : (a \o b)[k] = a[k]
         /\ \A k \in 1 .. Len(b) : (a \o b)[Len(a) + k] = b[k]
OBVIOUS

(* The fields under the first header and those under the second, in that   *)
(* order.                                                                  *)
LEMMA FiledParts ==
  ASSUME IInv, NEW m, m = Len(row[1]), NEW n, n = Len(row[2])
  PROVE  /\ m \in Nat /\ n \in Nat
         /\ DOMAIN row[1] = 1 .. m /\ DOMAIN row[2] = 1 .. n
         /\ DOMAIN Filed = 1 .. m + n /\ Len(Filed) = m + n
         /\ \A k \in 1 .. m : Filed[k] = row[1][k]
         /\ \A k \in 1 .. n : Filed[m + k] = row[2][k]
<1>1. row[1] \in Seq(Spans) /\ row[2] \in Seq(Spans)
  BY DEF IInv, Aligned, Rows, Headers
<1> DEFINE a == row[1]
           b == row[2]
<1>2. a \in Seq(Spans) /\ b \in Seq(Spans) /\ m = Len(a) /\ n = Len(b)
  BY <1>1
<1>3. Filed = a \o b
  BY DEF Filed
<1> HIDE DEF a, b
<1>4. /\ m \in Nat /\ n \in Nat /\ DOMAIN a = 1 .. m /\ DOMAIN b = 1 .. n
      /\ DOMAIN Filed = 1 .. m + n /\ Len(Filed) = m + n
      /\ \A k \in 1 .. m : Filed[k] = a[k]
      /\ \A k \in 1 .. n : Filed[m + k] = b[k]
  BY <1>2, <1>3, ConcatFacts
<1> QED BY <1>4 DEF a, b

(* A row read from left to right is the line, word for word: what was      *)
(* scanned is in it, and its fields stand one behind the other.            *)
THEOREM NothingMoved == Spec => []RowIsLine
<1>1. ASSUME IInv, result = "row"
      PROVE  /\ UNION {Covers(Filed[k]) : k \in DOMAIN Filed} = {i \in Places : Filled(i)}
             /\ \A k \in 1 .. Len(Filed) - 1 : Filed[k][2] < Filed[k + 1][1]
  <2>1. /\ Aligned(row, at) /\ Complete(row, at) /\ \A i \in at .. Width : ~Filled(i)
        /\ at \in Nat /\ at \in 1 .. Width + 1
    BY <1>1, Numbers DEF IInv
  <2> DEFINE m == Len(row[1])
             n == Len(row[2])
  <2> HIDE DEF m, n
  <2>0. /\ m \in Nat /\ n \in Nat
        /\ DOMAIN row[1] = 1 .. m /\ DOMAIN row[2] = 1 .. n
        /\ DOMAIN Filed = 1 .. m + n /\ Len(Filed) = m + n
        /\ \A k \in 1 .. m : Filed[k] = row[1][k]
        /\ \A k \in 1 .. n : Filed[m + k] = row[2][k]
    BY <1>1, FiledParts DEF m, n
  <2>2. ASSUME NEW i \in Places, Filled(i)
        PROVE  \E k \in DOMAIN Filed : i \in Covers(Filed[k])
    <3>1. i \in 1 .. at - 1
      BY <2>1, <2>2, Numbers
    <3>2. PICK f \in Spans : Held(row, f) /\ f[1] <= i /\ i <= f[2]
      BY <2>1, <2>2, <3>1 DEF Complete
    <3>3. PICK k \in DOMAIN Filed : Filed[k] = f
      <4>1. PICK h \in Headers : \E j \in DOMAIN row[h] : row[h][j] = f
        BY <3>2 DEF Held
      <4>2. PICK j \in DOMAIN row[h] : row[h][j] = f
        BY <4>1
      <4>3. CASE h = 1
        <5>1. j \in 1 .. m /\ j \in 1 .. m + n
          BY <2>0, <4>3
        <5>2. j \in DOMAIN Filed /\ Filed[j] = f
          BY <2>0, <4>2, <4>3, <5>1
        <5> QED BY <5>2
      <4>4. CASE h = 2
        <5>1. j \in 1 .. n /\ m + j \in 1 .. m + n
          BY <2>0, <4>4
        <5>2. m + j \in DOMAIN Filed /\ Filed[m + j] = f
          BY <2>0, <4>2, <4>4, <5>1
        <5> QED BY <5>2
      <4> QED BY <4>3, <4>4 DEF Headers
    <3>4. f[1] \in Nat /\ f[2] \in Nat /\ i \in f[1] .. f[2]
      BY <3>2, Numbers DEF Spans
    <3> QED BY <2>2, <3>3, <3>4 DEF Covers
  <2>3. \A f : \A i \in Covers(f) : i \in Places /\ Filled(i)
    BY DEF Covers, Filled
  <2>4. UNION {Covers(Filed[k]) : k \in DOMAIN Filed} = {i \in Places : Filled(i)}
    BY <2>2, <2>3
  <2>5. ASSUME NEW k \in 1 .. Len(Filed) - 1
        PROVE  Filed[k][2] < Filed[k + 1][1]
    <3>0. k \in Nat /\ k >= 1 /\ k + 1 <= m + n
      BY <2>0
    <3>1. CASE k + 1 <= m
      <4>1. k \in 1 .. m /\ k + 1 \in 1 .. m /\ k < k + 1
        BY <2>0, <3>0, <3>1
      <4> QED BY <2>0, <2>1, <4>1 DEF Aligned, Headers
    <3>2. CASE k = m
      <4>1. k \in 1 .. m /\ 1 \in 1 .. n /\ m + 1 = k + 1
        BY <2>0, <3>0, <3>2
      <4>2. Filed[k] = row[1][k] /\ Filed[k + 1] = row[2][1]
        BY <2>0, <4>1
      <4> QED BY <2>0, <2>1, <4>1, <4>2 DEF Aligned
    <3>3. CASE k > m
      <4> DEFINE j == k - m
      <4>1. /\ j \in 1 .. n /\ j + 1 \in 1 .. n /\ j < j + 1
            /\ m + j = k /\ m + (j + 1) = k + 1
        BY <2>0, <3>0, <3>3
      <4> HIDE DEF j
      <4>2. Filed[k] = row[2][j] /\ Filed[k + 1] = row[2][j + 1]
        BY <2>0, <4>1
      <4> QED BY <2>0, <2>1, <4>1, <4>2 DEF Aligned, Headers
    <3> QED BY <2>0, <3>0, <3>1, <3>2, <3>3
  <2> QED BY <2>4, <2>5
<1>2. IInv => RowIsLine
  BY <1>1 DEF RowIsLine
<1> QED BY <1>2, Invariance, PTL

(* A field is filed under the one header that it stands below, but for a   *)
(* last character that stands below the first of the next header.          *)
THEOREM RightHeader == Spec => []FiledBelowHeader
<1>1. ASSUME IInv, NEW h \in Headers, NEW k \in DOMAIN row[h]
      PROVE  /\ Below(row[h][k], h)
             /\ \A g \in Headers \ {h} :
                  Below(row[h][k], g) => g > h /\ row[h][k][2] = domains[g].left
  <2> DEFINE f == row[h][k]
  <2>1. f \in Spans /\ Leftmost(f) = h /\ Rightmost(f) = h /\ InOrder
    BY <1>1 DEF IInv, Aligned, Rows
  <2> HIDE DEF f
  <2>2. f[1] \in Nat /\ f[2] \in Nat
    BY <2>1, Sides
  <2>3. h = 1 => f[1] < domains[1].right /\ f[2] > domains[1].left /\ ~(f[2] > domains[2].left)
    BY <2>1, Sides
  <2>4. h = 2 => ~(f[1] < domains[1].right) /\ f[1] < domains[2].right /\ f[2] > domains[2].left
    BY <2>1, Sides
  <2>5. Below(f, h)
    BY <2>1, <2>2, <2>3, <2>4, DomainFacts DEF Below, Headers
  <2>6. ASSUME NEW g \in Headers \ {h}, Below(f, g)
        PROVE  g > h /\ f[2] = domains[g].left
    BY <2>1, <2>2, <2>3, <2>4, <2>6, DomainFacts DEF Below, Headers
  <2> QED BY <2>5, <2>6 DEF f
<1>2. IInv => FiledBelowHeader
  BY <1>1 DEF FiledBelowHeader
<1> QED BY <1>2, Invariance, PTL

-----------------------------------------------------------------------------
(* Lines that are accepted.                                                *)

(* Without one-letter words, a match goes on to where two blanks, or the   *)
(* end of the line, follow.                                                *)
LEMMA MatchesDataField ==
  ASSUME LongWords, NEW i \in Places, Filled(i)
  PROVE  LET e == MatchEnd[i]
         IN  /\ Ends(e - 1) /\ ~Filled(e) /\ ~Filled(e + 1)
             /\ \A k \in i .. e - 2 : ~Ends(k)
<1> DEFINE n == Width + 1
           next == [j \in 1 .. n |-> Onto(j)]
           Run(j) == Filled(j) => /\ Filled(MatchEnd[j] - 1) /\ ~Filled(MatchEnd[j] + 1)
                                  /\ \A k \in j .. MatchEnd[j] - 2 : ~Ends(k)
           P == {j \in 1 .. n : Run(j)}
<1>1. n \in Nat /\ \A j : Filled(j) => j \in 1 .. Width
  BY Numbers DEF Filled
<1>2. \A j \in 1 .. n : next[j] \in j .. n /\ (next[j] = j <=> ~Filled(j))
  BY Numbers DEF Onto, Filled
<1>3. Onward(n, next)
  BY <1>1, <1>2 DEF Onward
<1>4. \A j \in 1 .. n : MatchEnd[j] = IF next[j] = j THEN j ELSE MatchEnd[next[j]]
  BY MatchWay
<1>5. ASSUME NEW j \in 1 .. n, next[j] = j \/ next[j] \in P
      PROVE  j \in P
  <2>1. SUFFICES ASSUME Filled(j)
                 PROVE  Run(j)
    OBVIOUS
  <2>2. /\ next[j] # j /\ Run(next[j]) /\ MatchEnd[j] = MatchEnd[next[j]]
        /\ next[j] \in j .. n /\ j \in Nat
    BY <1>1, <1>2, <1>4, <1>5, <2>1
  <2>3. MatchEnd[next[j]] \in next[j] .. n
    BY <2>2, MatchEnds
  <2>4. CASE Filled(j + 2) /\ ~Filled(j + 1)
    <3>1. next[j] = j + 3
      BY <2>1, <2>4 DEF Onto
    <3>2. Filled(j + 3)
      <4>1. j + 2 \in Places /\ (j + 2) - 1 = j + 1 /\ (j + 2) + 1 = j + 3
        BY <1>1, <2>2, <2>4, Numbers
      <4> QED BY <2>4, <4>1 DEF LongWords
    <3>3. ~Ends(j) /\ ~Ends(j + 1) /\ ~Ends(j + 2)
      BY <2>2, <2>4, <3>2 DEF Ends, Blank
    <3>4. \A k \in j .. MatchEnd[j] - 2 :
            k = j \/ k = j + 1 \/ k = j + 2 \/ k \in j + 3 .. MatchEnd[j] - 2
      BY <1>1, <2>2, <2>3
    <3> HIDE DEF next
    <3> QED BY <2>2, <3>1, <3>2, <3>3, <3>4
  <2>5. CASE ~(Filled(j + 2) /\ ~Filled(j + 1))
    <3>1. next[j] = j + 1
      BY <2>1, <2>5 DEF Onto
    <3>2. CASE Filled(j + 1)
      <4>1. ~Ends(j)
        BY <3>2 DEF Ends, Blank
      <4>2. \A k \in j .. MatchEnd[j] - 2 : k = j \/ k \in j + 1 .. MatchEnd[j] - 2
        BY <1>1, <2>2, <2>3
      <4> HIDE DEF next
      <4> QED BY <2>2, <3>1, <3>2, <4>1, <4>2
    <3>3. CASE ~Filled(j + 1)
      <4>1. MatchEnd[j] = j + 1
        BY <1>2, <1>4, <2>2, <3>1, <3>3
      <4>2. (j + 1) - 1 = j /\ (j + 1) + 1 = j + 2 /\ \A k \in j .. (j + 1) - 2 : FALSE
        BY <2>2
      <4> QED BY <2>1, <2>5, <3>3, <4>1, <4>2
    <3> QED BY <3>2, <3>3
  <2> QED BY <2>4, <2>5
<1>6. P \in SUBSET (1 .. n)
  OBVIOUS
<1>7. Follows(n, next, MatchEnd)
  BY MatchWay
<1> HIDE DEF P, next
<1>8. P = 1 .. n
  BY <1>1, <1>3, <1>5, <1>6, <1>7, WayKeeps
<1>9. i \in 1 .. n
  BY Numbers
<1>10. Run(i)
  BY <1>8, <1>9 DEF P
<1>11. MatchEnd[i] \in Nat /\ ~Filled(MatchEnd[i]) /\ (MatchEnd[i] - 1) + 1 = MatchEnd[i]
       /\ (MatchEnd[i] - 1) + 2 = MatchEnd[i] + 1
  BY <1>1, <1>9, MatchEnds
<1> QED BY <1>10, <1>11 DEF Ends, Blank

(* A tidy line: each of its fields below one header, and no two below the  *)
(* same.                                                                   *)
Tidied == /\ \A f \in DataFields : \E h \in Headers : {g \in Headers : PastFirst(f, g)} = {h}
          /\ \A f, g \in DataFields :
               (\E h \in Headers : PastFirst(f, h) /\ PastFirst(g, h)) => f = g

(* What has been read of it are fields of it, and the scan stands behind   *)
(* one or at the beginning.                                                *)
TidyInv == Tidied /\ LongWords =>
             /\ result # "UnexpectedOutput"
             /\ at = 1 \/ (~Filled(at) /\ ~Filled(at + 1))
             /\ \A f \in Spans : Held(row, f) => f \in DataFields

(* A field below one header, past its first character, is below that       *)
(* header for the code.                                                    *)
LEMMA PastIsBelow ==
  ASSUME InOrder, NEW f \in Spans, NEW h \in Headers
  PROVE  /\ {g \in Headers : PastFirst(f, g)} = {h} => Leftmost(f) = h /\ Rightmost(f) = h
         /\ Leftmost(f) = h /\ Rightmost(f) = h => PastFirst(f, h)
<1>1. f[1] \in Nat /\ f[2] \in Nat
  BY Sides
<1>2. \A g : PastFirst(f, g) <=> f[1] < domains[g].right /\ f[2] > domains[g].left
  BY DEF PastFirst
<1>3. 1 \in Headers /\ 2 \in Headers /\ (h = 1 \/ h = 2)
  BY DEF Headers
<1>4. ASSUME {g \in Headers : PastFirst(f, g)} = {h}
      PROVE  Leftmost(f) = h /\ Rightmost(f) = h
  <2>1. PastFirst(f, h) /\ (h = 1 => ~PastFirst(f, 2)) /\ (h = 2 => ~PastFirst(f, 1))
    BY <1>3, <1>4
  <2>2. CASE h = 1
    <3>1. f[1] < domains[1].right /\ f[2] > domains[1].left /\ ~(f[2] > domains[2].left)
      BY <1>1, <1>2, <2>1, <2>2, DomainFacts
    <3> QED BY <2>2, <3>1, Sides
  <2>3. CASE h = 2
    <3>1. ~(f[1] < domains[1].right) /\ f[1] < domains[2].right /\ f[2] > domains[2].left
      BY <1>1, <1>2, <2>1, <2>3, DomainFacts
    <3> QED BY <2>3, <3>1, Sides
  <2> QED BY <1>3, <2>2, <2>3
<1>5. ASSUME Leftmost(f) = h, Rightmost(f) = h
      PROVE  PastFirst(f, h)
  <2>1. /\ h = 1 => f[1] < domains[1].right /\ f[2] > domains[1].left
        /\ h = 2 => f[1] < domains[2].right /\ f[2] > domains[2].left
    BY <1>5, Sides
  <2> QED BY <1>2, <1>3, <2>1
<1> QED BY <1>4, <1>5

(* A tidy line is read on, field by field.                                 *)
LEMMA TidyStep ==
  ASSUME IInv, TidyInv, NextField, Tidied, LongWords
  PROVE  /\ result' # "UnexpectedOutput"
         /\ ~Filled(at') /\ ~Filled(at' + 1)
         /\ \A f \in Spans : Held(row', f) => f \in DataFields
<1>1. PICK i \in at .. Width :
        /\ Filled(i) /\ \A j \in at .. i - 1 : ~Filled(j)
        /\ at' = MatchEnd[i]
        /\ SplitField(Field(i)) \/ StrayField(Field(i)) \/ FileField(Field(i))
  BY DEF NextField
<1> DEFINE e == MatchEnd[i]
           f == Field(i)
<1>2. /\ at \in Nat /\ at >= 1 /\ i \in Nat /\ i \in Places /\ i \in 1 .. Width + 1 /\ at <= i
      /\ InOrder /\ Aligned(row, at) /\ result = "scanning"
  BY <1>1, Numbers DEF IInv, NextField
<1>3. e \in i .. Width + 1 /\ e > i /\ e - 1 \in Places /\ e - 1 \in Nat
  BY <1>1, <1>2, MatchEnds, Numbers
<1>4. /\ Ends(e - 1) /\ ~Filled(e) /\ ~Filled(e + 1)
      /\ \A k \in i .. e - 2 : ~Ends(k)
  BY <1>1, <1>2, MatchesDataField
<1>5. f = <<i, e - 1>> /\ f[1] = i /\ f[2] = e - 1 /\ f \in Spans
  BY <1>2, <1>3, Numbers DEF Field, Spans
<1>6. Begins(i)
  <2>1. ~Filled(i - 1)
    <3>1. CASE i - 1 >= at
      BY <1>1, <1>2, <3>1
    <3>2. CASE i = at
      <4>1. at = 1
        BY <1>1, <3>2 DEF TidyInv
      <4> QED BY <3>2, <4>1, Numbers DEF Filled
    <3> QED BY <1>2, <3>1, <3>2
  <2>2. ~Filled(i - 2)
    <3>1. CASE i - 2 >= at
      BY <1>1, <1>2, <3>1
    <3>2. CASE i - 2 < at /\ at = 1
      BY <1>2, <3>2, Numbers DEF Filled
    <3>3. CASE i - 2 < at /\ at # 1
      <4>1. ~Filled(at) /\ ~Filled(at + 1)
        BY <3>3 DEF TidyInv
      <4>2. i = at \/ i = at + 1
        BY <1>2, <3>3
      <4> QED BY <1>1, <4>1, <4>2
    <3> QED BY <1>2, <3>1, <3>2, <3>3
  <2> QED BY <1>1, <2>1, <2>2 DEF Begins, Blank
<1>7. f \in DataFields
  <2>1. f \in Places \X Places /\ f[1] <= f[2]
    BY <1>2, <1>3, <1>5
  <2>2. \A k \in f[1] .. f[2] - 1 : ~Ends(k)
    <3>1. f[2] - 1 = e - 2
      BY <1>3, <1>5
    <3> QED BY <1>4, <1>5, <3>1
  <2> QED BY <1>4, <1>5, <1>6, <2>1, <2>2 DEF DataFields
<1> HIDE DEF e, f
<1>8. PICK h \in Headers : {g \in Headers : PastFirst(f, g)} = {h}
  BY <1>7 DEF Tidied
<1>9. Leftmost(f) = h /\ Rightmost(f) = h /\ PastFirst(f, h)
  BY <1>2, <1>5, <1>8, PastIsBelow
<1>10. row[h] = <<>>
  <2> SUFFICES ASSUME row[h] # <<>>
               PROVE  FALSE
    OBVIOUS
  <2>1. row[h] \in Seq(Spans)
    BY <1>2 DEF Aligned, Rows
  <2>2. 1 \in DOMAIN row[h] /\ row[h][1] \in Spans
    BY <2>1
  <2> DEFINE g == row[h][1]
  <2>3. /\ g \in Spans /\ Held(row, g) /\ g[1] <= g[2] /\ g[2] < at
        /\ Leftmost(g) = h /\ Rightmost(g) = h
    BY <1>2, <2>2 DEF Aligned, Held
  <2> HIDE DEF g
  <2>4. g \in DataFields /\ PastFirst(g, h)
    BY <1>2, <2>3, PastIsBelow DEF TidyInv
  <2>5. f = g
    BY <1>7, <1>9, <2>4 DEF Tidied
  <2>6. g[2] \in Nat
    BY <1>2, <2>3, Sides
  <2> QED BY <1>2, <1>3, <1>5, <2>3, <2>5, <2>6
<1>11. h \in Nat
  BY DEF Headers
<1>12. row' = [row EXCEPT ![h] = <<f>>] /\ result' = result
  <2>1. ~SplitField(Field(i))
    BY <1>9, <1>11 DEF SplitField, f
  <2>2. ~StrayField(Field(i))
    BY <1>9, <1>11 DEF StrayField, f
  <2>3. FileField(Field(i))
    BY <1>1, <2>1, <2>2
  <2> QED BY <1>9, <1>10, <2>3 DEF FileField, f
<1>13. ASSUME NEW x \in Spans, Held(row', x)
       PROVE  x \in DataFields
  <2>1. PICK y \in Headers : \E k \in DOMAIN row'[y] : row'[y][k] = x
    BY <1>13 DEF Held
  <2>2. row \in [Headers -> Seq(Spans)]
    BY <1>2 DEF Aligned, Rows
  <2>3. CASE y = h
    <3>1. row'[y] = <<f>>
      BY <1>12, <2>2, <2>3
    <3>2. x = f
      BY <2>1, <3>1
    <3> QED BY <1>7, <3>2
  <2>4. CASE y # h
    <3>1. row'[y] = row[y]
      BY <1>12, <2>2, <2>4
    <3>2. Held(row, x)
      BY <2>1, <3>1 DEF Held
    <3> QED BY <3>2 DEF TidyInv
  <2> QED BY <2>3, <2>4
<1> QED BY <1>1, <1>2, <1>4, <1>12, <1>13 DEF e

(* A line of fields that reach past the first character of their header,   *)
(* without one-letter words, is accepted.                                  *)
THEOREM TidyLinesParse == Spec => []MostTidyLinesParse
<1>1. Init => TidyInv
  <2>1. Init => \A f : ~Held(row, f)
    <3> SUFFICES ASSUME Init, NEW f, NEW h \in Headers, NEW k \in DOMAIN row[h]
                 PROVE  FALSE
      BY DEF Held
    <3>1. row[h] = <<>>
      BY DEF Init
    <3> QED BY <3>1
  <2> QED BY <2>1 DEF Init, TidyInv
<1>2. ASSUME IInv, TidyInv, [Next]_vars
      PROVE  TidyInv'
  <2>1. UNCHANGED <<line, domains>>
    BY <1>2 DEF Next, NextField, EndOfLine, vars
  <2>2. \A i : Filled(i)' <=> Filled(i)
    BY <2>1 DEF Filled
  <2>3. LongWords' => LongWords
    BY <2>2 DEF LongWords
  <2>4. DataFields' = DataFields
    <3>1. \A i : (Begins(i)' <=> Begins(i)) /\ (Ends(i)' <=> Ends(i))
      BY <2>2 DEF Begins, Ends, Blank
    <3> QED BY <3>1 DEF DataFields
  <2>5. \A f, h : PastFirst(f, h)' <=> PastFirst(f, h)
    BY <2>1 DEF PastFirst
  <2>6. Tidied' => Tidied
    <3>1. \A f : {g \in Headers : PastFirst(f, g)}' = {g \in Headers : PastFirst(f, g)}
      BY <2>5
    <3> QED BY <2>4, <2>5, <3>1 DEF Tidied
  <2>7. SUFFICES ASSUME Tidied, LongWords
                 PROVE  /\ result' # "UnexpectedOutput"
                        /\ at' = 1 \/ (~Filled(at)' /\ ~Filled(at + 1)')
                        /\ \A f \in Spans : Held(row', f) => f \in DataFields
    BY <2>3, <2>4, <2>6 DEF TidyInv, Held
  <2>8. CASE NextField
    BY <1>2, <2>1, <2>7, <2>8, TidyStep DEF Filled
  <2>9. CASE EndOfLine \/ UNCHANGED vars
    BY <1>2, <2>1, <2>7, <2>9 DEF EndOfLine, vars, TidyInv, Filled
  <2> QED BY <1>2, <2>8, <2>9 DEF Next
<1>3. TidyInv => MostTidyLinesParse
  <2>1. Tidy(PastFirst) => Tidied
    BY DEF Tidy, Tidied
  <2> QED BY <2>1 DEF TidyInv, MostTidyLinesParse
<1>4. IInv /\ TidyInv /\ [Next]_vars => TidyInv'
  BY <1>2
<1> QED BY <1>1, <1>3, <1>4, Invariance, PTL DEF Spec

-----------------------------------------------------------------------------
(* parse_saasinfo_data.                                                    *)

(* What it files has its shape, and what the appliance printed as well;    *)
Record  == [mbx : Seq(Mailboxes) \ {<<>>}, ip : Seq(Ips)]

Shapes == /\ geodns \in [DOMAIN geodns -> Record]
          /\ entries \in [{"appid", "ip", "host"} -> Seq({"entry"})]
          /\ mailboxes \in [Regions -> Seq(Mailboxes)]
          /\ ips \in [Regions -> Seq(Ips)]
          /\ under \in Regions \cup {None}

(* an address is read in the section of the regions, after its own;        *)
InRegion == exc = "none" /\ under # None =>
              section = "region" /\ region = under /\ region \in DOMAIN geodns

(* a region with a mailbox is known.                                       *)
Mailed == mailed \subseteq DOMAIN geodns

SaasInv == SaasTypeOK /\ Shapes /\ InRegion /\ Mailed /\ FiledAsPrinted /\ RefusedForRegion

-----------------------------------------------------------------------------
(* Nothing is printed and nothing filed.                                   *)
LEMMA InitSaasInv == SaasInit => SaasInv
<1> SUFFICES ASSUME SaasInit PROVE SaasInv
  OBVIOUS
<1>1. DOMAIN geodns = {}
  BY DEF SaasInit
<1>2. Shapes
  <2>1. geodns \in [DOMAIN geodns -> Record]
    BY <1>1 DEF SaasInit
  <2>2. QED
    BY <2>1 DEF SaasInit, Shapes
<1>3. SaasTypeOK
  BY <1>1 DEF SaasInit, SaasTypeOK
<1>4. InRegion /\ Mailed /\ RefusedForRegion
  BY <1>1 DEF SaasInit, InRegion, Mailed, RefusedForRegion
<1>5. FiledAsPrinted
  BY <1>1 DEF SaasInit, FiledAsPrinted, FiledUnder
<1>6. QED
  BY <1>2, <1>3, <1>4, <1>5 DEF SaasInv

(* A title changes the section and ends the list of a region's addresses.  *)
LEMMA TitleStep ==
  ASSUME SaasInv, NEW title \in Sections, PrintTitle(title)
  PROVE  SaasInv'
<1> USE DEF SaasInv, PrintTitle, ReadTitle, More, printed
<1>1. SaasTypeOK' /\ Shapes'
  BY DEF SaasTypeOK, Shapes
<1>2. InRegion' /\ Mailed' /\ RefusedForRegion'
  BY DEF InRegion, Mailed, RefusedForRegion
<1>3. FiledAsPrinted'
  BY DEF FiledAsPrinted, FiledUnder
<1>4. QED
  BY <1>1, <1>2, <1>3

(* A line of a plain section goes to the end of that section's list.       *)
LEMMA EntryStep ==
  ASSUME SaasInv, NEW kind \in {"appid", "ip", "host"}, PrintEntry(kind)
  PROVE  SaasInv'
<1> USE DEF SaasInv, PrintEntry, ReadEntry, More
<1>1. entries' \in [{"appid", "ip", "host"} -> Seq({"entry"})]
  BY DEF Shapes
<1>2. SaasTypeOK' /\ Shapes'
  <2>1. ip' \in Seq({"entry"}) /\ host' \in Seq({"entry"})
    <3>1. ip \in Seq({"entry"}) /\ host \in Seq({"entry"}) /\ "entry" \in {"entry"}
      BY DEF SaasTypeOK
    <3>2. Append(ip, "entry") \in Seq({"entry"}) /\ Append(host, "entry") \in Seq({"entry"})
      BY <3>1
    <3>3. QED
      BY <3>1, <3>2, Zenon
  <2>2. appid' \in {"entry", None}
    BY DEF SaasTypeOK
  <2>3. UNCHANGED <<section, region, geodns, exc>>
    OBVIOUS
  <2>4. SaasTypeOK'
    BY <2>1, <2>2, <2>3 DEF SaasTypeOK
  <2>5. Shapes'
    BY <1>1 DEF Shapes
  <2>6. QED
    BY <2>4, <2>5
<1>3. InRegion' /\ Mailed' /\ RefusedForRegion'
  BY DEF InRegion, Mailed, RefusedForRegion
<1>4. FiledAsPrinted'
  <2>1. \A r \in Regions : /\ FiledUnder(r, "mbx")' = mailboxes'[r]
                           /\ FiledUnder(r, "ip")' = ips'[r]
    BY <1>1 DEF FiledAsPrinted, FiledUnder
  <2>2. ip' = entries'["ip"] /\ host' = entries'["host"]
    BY DEF FiledAsPrinted, Shapes
  <2>3. appid' = None <=> entries'["appid"] = <<>>
    <3>1. appid = None <=> entries["appid"] = <<>>
      BY DEF FiledAsPrinted
    <3>2. CASE kind = "appid"
      <4>1. entries'["appid"] = Append(entries["appid"], "entry")
        BY <3>2 DEF Shapes
      <4>2. entries["appid"] \in Seq({"entry"})
        BY DEF Shapes
      <4>3. entries'["appid"] # <<>>
        BY <4>1, <4>2
      <4>4. QED
        BY <3>2, <4>3 DEF None
    <3>3. CASE kind # "appid"
      BY <3>1, <3>3 DEF Shapes
    <3>4. QED
      BY <3>2, <3>3
  <2>4. QED
    BY <2>1, <2>2, <2>3 DEF FiledAsPrinted
<1>5. QED
  BY <1>2, <1>3, <1>4

(* A mailbox makes its region known, or joins the others of its region.    *)
LEMMA MailboxStep ==
  ASSUME SaasInv, NEW mbx \in Mailboxes, NEW r \in Regions, PrintMailbox(mbx, r)
  PROVE  SaasInv'
<1> USE DEF SaasInv, PrintMailbox, ReadMailbox, More
<1>1. mailboxes' \in [Regions -> Seq(Mailboxes)]
  BY DEF Shapes
<1>2. under = None
  BY DEF InRegion
<1>3. /\ DOMAIN geodns' = DOMAIN geodns \cup {r}
      /\ \A s \in DOMAIN geodns : s # r => geodns'[s] = geodns[s]
      /\ geodns'[r] = IF r \in DOMAIN geodns
                      THEN [mbx |-> Append(geodns[r].mbx, mbx), ip |-> geodns[r].ip]
                      ELSE [mbx |-> <<mbx>>, ip |-> <<>>]
      /\ geodns' \in [DOMAIN geodns' -> Record]
  <2>1. CASE r \in DOMAIN geodns
    <3>1. geodns' = [geodns EXCEPT ![r] = [mbx |-> Append(@.mbx, mbx), ip |-> @.ip]]
      BY <2>1
    <3>2. geodns[r] \in Record
      BY <2>1 DEF Shapes
    <3>3. Append(geodns[r].mbx, mbx) \in Seq(Mailboxes) \ {<<>>}
      BY <3>2 DEF Record
    <3>4. [mbx |-> Append(geodns[r].mbx, mbx), ip |-> geodns[r].ip] \in Record
      BY <3>2, <3>3 DEF Record
    <3>5. geodns \in [DOMAIN geodns -> Record]
      BY DEF Shapes
    <3>6. DOMAIN geodns' = DOMAIN geodns
      BY <3>1
    <3>7. geodns' \in [DOMAIN geodns -> Record]
      BY <3>1, <3>4, <3>5, Zenon
    <3>8. QED
      BY <2>1, <3>1, <3>6, <3>7
  <2>2. CASE r \notin DOMAIN geodns
    <3>1. geodns' = WithRegion(r, mbx)
      BY <2>2
    <3>2. Region(mbx) \in Record
      BY DEF Region, Record
    <3>3. QED
      BY <2>2, <3>1, <3>2 DEF Shapes, WithRegion, Region
  <2>3. QED
    BY <2>1, <2>2
<1>4. Shapes'
  BY <1>1, <1>3 DEF Shapes
<1>5. SaasTypeOK'
  BY <1>3 DEF SaasTypeOK, Record
<1>6. InRegion' /\ Mailed' /\ RefusedForRegion'
  BY <1>2, <1>3 DEF InRegion, Mailed, RefusedForRegion
<1>7. FiledAsPrinted'
  <2>1. ASSUME NEW s \in Regions
        PROVE  FiledUnder(s, "mbx")' = mailboxes'[s] /\ FiledUnder(s, "ip")' = ips'[s]
    <3>1. FiledUnder(s, "mbx") = mailboxes[s] /\ FiledUnder(s, "ip") = ips[s]
      BY DEF FiledAsPrinted
    <3>2. CASE s # r
      BY <1>1, <1>3, <3>1, <3>2 DEF FiledUnder, Shapes
    <3>3. CASE s = r
      <4>1. mailboxes'[r] = Append(mailboxes[r], mbx)
        BY <1>1 DEF Shapes
      <4>2. CASE r \in DOMAIN geodns
        BY <1>1, <1>3, <3>1, <3>3, <4>1, <4>2 DEF FiledUnder
      <4>3. CASE r \notin DOMAIN geodns
        BY <1>1, <1>3, <3>1, <3>3, <4>1, <4>3 DEF FiledUnder
      <4>4. QED
        BY <4>2, <4>3
    <3>4. QED
      BY <3>2, <3>3
  <2>2. QED
    BY <1>1, <2>1 DEF FiledAsPrinted
<1>8. QED
  BY <1>4, <1>5, <1>6, <1>7

(* A region that has a mailbox is known; any other is refused.             *)
LEMMA RegionStep ==
  ASSUME SaasInv, NEW r \in Regions, PrintRegion(r)
  PROVE  SaasInv'
<1> USE DEF SaasInv, PrintRegion, ReadRegional, More, printed
<1>1. r \notin Ips /\ geodns' = geodns
  BY RegionsAssumption
<1>2. r \in DOMAIN geodns <=> mailboxes[r] # <<>>
  <2>1. FiledUnder(r, "mbx") = mailboxes[r]
    BY DEF FiledAsPrinted
  <2>2. QED
    BY <2>1 DEF FiledUnder, SaasTypeOK
<1>3. SaasTypeOK' /\ Shapes'
  BY <1>1 DEF SaasTypeOK, Shapes
<1>4. InRegion' /\ Mailed'
  BY <1>1, <1>2 DEF InRegion, Mailed
<1>5. RefusedForRegion'
  <2>1. named = mailed
    BY DEF RefusedForRegion
  <2>2. CASE r \in DOMAIN geodns
    BY <1>1, <1>2, <2>1, <2>2 DEF RefusedForRegion
  <2>3. CASE r \notin DOMAIN geodns
    <3>1. named' # mailed' /\ exc' = "ValueError"
      BY <1>1, <1>2, <2>1, <2>3 DEF Mailed
    <3>2. QED
      BY <3>1 DEF RefusedForRegion
  <2>4. QED
    BY <2>2, <2>3
<1>6. FiledAsPrinted'
  BY <1>1 DEF FiledAsPrinted, FiledUnder
<1>7. QED
  BY <1>3, <1>4, <1>5, <1>6

(* An address goes to the region it is printed under.                      *)
LEMMA IpStep ==
  ASSUME SaasInv, NEW a \in Ips, PrintIp(a)
  PROVE  SaasInv'
<1> USE DEF SaasInv, PrintIp, ReadRegional, More
<1>1. region = under /\ under \in DOMAIN geodns /\ under \in Regions
  BY DEF InRegion, SaasTypeOK, None
<1>2. geodns' = [geodns EXCEPT ![under] = [mbx |-> @.mbx, ip |-> Append(@.ip, a)]]
      /\ UNCHANGED <<region, exc>>
  BY <1>1, RegionsAssumption DEF SaasTypeOK
<1>3. ips' \in [Regions -> Seq(Ips)]
  BY <1>1 DEF Shapes
<1>4. /\ DOMAIN geodns' = DOMAIN geodns
      /\ \A s \in DOMAIN geodns : s # under => geodns'[s] = geodns[s]
      /\ geodns'[under] = [mbx |-> geodns[under].mbx, ip |-> Append(geodns[under].ip, a)]
      /\ geodns' \in [DOMAIN geodns' -> Record]
  <2>1. geodns[under] \in Record
    BY <1>1 DEF Shapes
  <2>2. QED
    BY <1>1, <1>2, <2>1 DEF Shapes, Record
<1>5. Shapes'
  BY <1>3, <1>4 DEF Shapes
<1>6. SaasTypeOK'
  BY <1>2, <1>4 DEF SaasTypeOK, Record
<1>7. InRegion' /\ Mailed' /\ RefusedForRegion'
  BY <1>2, <1>4 DEF InRegion, Mailed, RefusedForRegion
<1>8. FiledAsPrinted'
  <2>1. ASSUME NEW s \in Regions
        PROVE  FiledUnder(s, "mbx")' = mailboxes'[s] /\ FiledUnder(s, "ip")' = ips'[s]
    <3>1. FiledUnder(s, "mbx") = mailboxes[s] /\ FiledUnder(s, "ip") = ips[s]
      BY DEF FiledAsPrinted
    <3>2. CASE s # under
      BY <1>3, <1>4, <3>1, <3>2 DEF FiledUnder, Shapes
    <3>3. CASE s = under
      BY <1>1, <1>3, <1>4, <3>1, <3>3 DEF FiledUnder, Shapes
    <3>4. QED
      BY <3>2, <3>3
  <2>2. QED
    BY <1>2, <1>3, <2>1 DEF FiledAsPrinted
<1>9. QED
  BY <1>5, <1>6, <1>7, <1>8

(* A message raises a KeyError, and nothing is filed.                      *)
LEMMA MessageStep ==
  ASSUME SaasInv, PrintMessage
  PROVE  SaasInv'
<1> USE DEF SaasInv, PrintMessage, ReadUnexpected, More, printed
<1>1. SaasTypeOK' /\ Shapes'
  BY DEF SaasTypeOK, Shapes
<1>2. InRegion' /\ Mailed' /\ RefusedForRegion' /\ FiledAsPrinted'
  BY DEF InRegion, Mailed, RefusedForRegion, FiledAsPrinted
<1>3. QED
  BY <1>1, <1>2

-----------------------------------------------------------------------------
(* The inductive invariant: the properties below, and that a region line   *)
(* always replaced what a mailbox line had left (InRegion).                *)
THEOREM SaasInvariance == SaasSpec => []SaasInv
<1>1. SaasInit => SaasInv
  BY InitSaasInv
<1>2. SaasInv /\ [SaasNext]_saasVars => SaasInv'
  <2> SUFFICES ASSUME SaasInv, [SaasNext]_saasVars PROVE SaasInv'
    OBVIOUS
  <2>1. CASE SaasNext
    BY <2>1, TitleStep, EntryStep, MailboxStep, RegionStep, IpStep, MessageStep DEF SaasNext
  <2>2. CASE UNCHANGED saasVars
    BY <2>2 DEF saasVars, parser, appliance, printed, SaasInv, SaasTypeOK, Shapes, InRegion, Mailed,
         FiledAsPrinted, RefusedForRegion, FiledUnder
  <2>3. QED
    BY <2>1, <2>2
<1>3. QED
  BY <1>1, <1>2, PTL DEF SaasSpec

(* Every reachable state has its type, and a region that is filed has a    *)
(* mailbox.                                                                *)
THEOREM SaasTypeCorrect == SaasSpec => []SaasTypeOK
<1>1. SaasInv => SaasTypeOK
  BY DEF SaasInv
<1>2. QED
  BY <1>1, SaasInvariance, PTL

(* Every mailbox and address is filed under the region it was printed for, *)
(* once, in order, however the sections are ordered and repeated.          *)
THEOREM Files == SaasSpec => []FiledAsPrinted
<1>1. SaasInv => FiledAsPrinted
  BY DEF SaasInv
<1>2. QED
  BY <1>1, SaasInvariance, PTL

(* A listing is refused exactly when a region with addresses had no        *)
(* mailbox before.                                                         *)
THEOREM Refuses == SaasSpec => []RefusedForRegion
<1>1. SaasInv => RefusedForRegion
  BY DEF SaasInv
<1>2. QED
  BY <1>1, SaasInvariance, PTL
=============================================================================
