------------------------------ MODULE PeekProofs ------------------------------
(***************************************************************************)
(* Theorems of Peek: what it answers is of its type, ends with the latest  *)
(* events of the shard (LatestShown) and has no gap (NoGaps), for any      *)
(* bodies, limits, page sizes and number of records.                       *)
(*                                                                         *)
(* The events of some records are a concatenation over a range, a function *)
(* that FlattenSeq defines by recursion.  What it yields is shown by the   *)
(* least counterexample (LeastOf): that there is such a function, that it  *)
(* gives a sequence in order with the elements of all it is made of, and   *)
(* that the events of two sets of records, one before the other, are those *)
(* of both.  So the pages of a peek, whatever they are, add up to          *)
(* EventsOf(R) for the set R of the records that it has read (ReadInv).    *)
(***************************************************************************)
EXTENDS Peek, NaturalsInduction, WellFoundedInduction, SequenceTheorems, TLAPS

-----------------------------------------------------------------------------
(* What FlattenSeq gives *)

\* A set of naturals that is not empty has a least element.
LEMMA LeastOf ==
    ASSUME NEW T \in SUBSET Nat, T # {}
    PROVE  \E m \in T : \A n \in T : m <= n
<1> DEFINE R == OpToRel(<, Nat)
<1>1. IsWellFoundedOn(R, Nat)
  BY NatLessThanWellFounded
<1>2. \A x, y \in Nat : <<x, y>> \in R <=> x < y
  BY DEF OpToRel
<1> HIDE DEF R
<1>3. PICK x \in T : \A y \in T : ~(<<y, x>> \in R)
  BY <1>1, WFMin
<1>4. x \in Nat /\ \A y \in T : y \in Nat
  OBVIOUS
<1>5. \A y \in T : ~(y < x)
  BY <1>2, <1>3, <1>4
<1>6. \A y \in T : x <= y
  BY <1>4, <1>5
<1> QED BY <1>6

\* f is the function that FlattenSeq(q) recurses on.
Flattens(f, q, n) ==
    f = [i \in 1..n |-> IF i = 1 THEN q[i] ELSE f[i - 1] \o q[i]]

\* FlattenSeq's recursion defines a function, of any length.
LEMMA FlattensExist ==
    ASSUME NEW q, NEW n \in Nat
    PROVE  \E f : Flattens(f, q, n)
<1> DEFINE T == {m \in Nat : ~\E f : Flattens(f, q, m)}
<1> SUFFICES ASSUME T # {} PROVE FALSE
  OBVIOUS
<1>1. PICK m \in T : \A k \in T : m <= k
  <2> T \in SUBSET Nat
    OBVIOUS
  <2> HIDE DEF T
  <2> QED BY LeastOf
<1>2. m \in Nat /\ ~\E f : Flattens(f, q, m)
  OBVIOUS
<1>3. m # 0
  <2>1. Flattens([i \in 1..0 |-> 0], q, 0)
    BY DEF Flattens
  <2> QED BY <1>2, <2>1
<1>4. m - 1 \in Nat /\ m - 1 \notin T
  BY <1>1, <1>2, <1>3
<1>5. PICK g : Flattens(g, q, m - 1)
  BY <1>4
<1> DEFINE f == [i \in 1..m |-> IF i = m THEN IF m = 1 THEN q[m] ELSE g[m - 1] \o q[m]
                                ELSE g[i]]
<1>6. Flattens(f, q, m)
  <2>1. \A i \in 1..m : i # m => i \in 1..(m - 1)
    BY <1>2
  <2>2. \A i \in 1..(m - 1) : g[i] = IF i = 1 THEN q[i] ELSE g[i - 1] \o q[i]
    BY <1>5 DEF Flattens
  <2>3. \A i \in 1..m : i # 1 => i - 1 \in 1..m /\ i - 1 # m
    BY <1>2
  <2>4. \A i \in 1..m : f[i] = IF i = 1 THEN q[i] ELSE f[i - 1] \o q[i]
    <3> SUFFICES ASSUME NEW i \in 1..m
                 PROVE  f[i] = IF i = 1 THEN q[i] ELSE f[i - 1] \o q[i]
      OBVIOUS
    <3>1. CASE i = m
      <4>1. CASE m = 1
        BY <3>1, <4>1
      <4>2. CASE m # 1
        <5>1. f[i] = g[m - 1] \o q[m]
          BY <3>1, <4>2
        <5>2. f[i - 1] = g[i - 1]
          BY <3>1, <4>2, <2>3
        <5> QED BY <3>1, <4>2, <5>1, <5>2
      <4> QED BY <4>1, <4>2
    <3>2. CASE i # m
      <4>1. f[i] = g[i]
        BY <3>2
      <4>2. i # 1 => f[i - 1] = g[i - 1]
        BY <2>3
      <4> QED BY <3>2, <4>1, <4>2, <2>1, <2>2
    <3> QED BY <3>1, <3>2
  <2> QED BY <2>4 DEF Flattens
<1> QED BY <1>2, <1>6

\* f[i] is what the first i sequences of q are together.
Sums(f, q, n) ==
    /\ n > 0 => f[1] = q[1]
    /\ \A i \in 2..n : f[i] = f[i - 1] \o q[i]

\* What FlattenSeq gives, whatever it is given, is the last of such sums.
LEMMA FlattenIs ==
    ASSUME NEW q, NEW n \in Nat \ {0}, Len(q) = n
    PROVE  \E f : Sums(f, q, n) /\ FlattenSeq(q) = f[n]
<1> DEFINE g == CHOOSE f : Flattens(f, q, n)
<1>1. Flattens(g, q, n)
  BY FlattensExist
<1>2. FlattenSeq(q) = g[n]
  BY DEF FlattenSeq, Flattens
<1>3. Sums(g, q, n)
  <2> HIDE DEF g
  <2>1. \A i \in 1..n : g[i] = IF i = 1 THEN q[i] ELSE g[i - 1] \o q[i]
    BY <1>1 DEF Flattens
  <2>2. 1 \in 1..n
    OBVIOUS
  <2>3. \A i \in 2..n : i \in 1..n /\ i # 1
    OBVIOUS
  <2> QED BY <2>1, <2>2, <2>3 DEF Sums
<1> QED BY <1>2, <1>3

\* Sums of sequences over S are sequences over S.
LEMMA SumsType ==
    ASSUME NEW S, NEW q, NEW n \in Nat, NEW f, Sums(f, q, n),
           \A i \in 1..n : q[i] \in Seq(S)
    PROVE  \A i \in 1..n : f[i] \in Seq(S)
<1> DEFINE T == {i \in 1..n : f[i] \notin Seq(S)}
<1> SUFFICES ASSUME T # {} PROVE FALSE
  OBVIOUS
<1>1. PICK m \in T : \A k \in T : m <= k
  <2> T \in SUBSET Nat
    OBVIOUS
  <2> HIDE DEF T
  <2> QED BY LeastOf
<1>2. m \in 1..n /\ f[m] \notin Seq(S)
  OBVIOUS
<1>3. m # 1
  <2> SUFFICES ASSUME m = 1 PROVE FALSE
    OBVIOUS
  <2>1. n > 0
    BY <1>2
  <2>2. f[1] = q[1]
    BY <2>1 DEF Sums
  <2> QED BY <1>2, <2>2
<1>4. m \in 2..n /\ m - 1 \in 1..n /\ m - 1 \notin T
  BY <1>1, <1>2, <1>3
<1>5. f[m - 1] \in Seq(S) /\ q[m] \in Seq(S)
  BY <1>2, <1>4
<1>6. f[m] = f[m - 1] \o q[m]
  BY <1>4 DEF Sums
<1>7. f[m] \in Seq(S)
  BY <1>5, <1>6, ConcatProperties
<1> QED BY <1>2, <1>7

Elems(s) == {s[i] : i \in DOMAIN s}
InOrder(s) == \A i, j \in DOMAIN s : i < j => Before(s[i], s[j])

\* A concatenation has the elements of both its parts.
LEMMA ElemsOfConcat ==
    ASSUME NEW S, NEW s \in Seq(S), NEW t \in Seq(S)
    PROVE  Elems(s \o t) = Elems(s) \cup Elems(t)
<1>1. s \o t \in Seq(S) /\ Len(s \o t) = Len(s) + Len(t)
  BY ConcatProperties
<1>2. \A i \in 1..(Len(s) + Len(t)) :
        (s \o t)[i] = IF i <= Len(s) THEN s[i] ELSE t[i - Len(s)]
  BY ConcatProperties
<1>3. /\ DOMAIN s = 1..Len(s) /\ DOMAIN t = 1..Len(t)
      /\ DOMAIN (s \o t) = 1..(Len(s) + Len(t))
      /\ Len(s) \in Nat /\ Len(t) \in Nat
  BY <1>1, LenProperties
<1> DEFINE u == s \o t
<1>4. \A i \in 1..(Len(s) + Len(t)) : u[i] = IF i <= Len(s) THEN s[i] ELSE t[i - Len(s)]
  BY <1>2
<1>5. DOMAIN u = 1..(Len(s) + Len(t))
  BY <1>3
<1> HIDE DEF u
<1>6. ASSUME NEW e \in Elems(u) PROVE e \in Elems(s) \cup Elems(t)
  <2>1. PICK i \in DOMAIN u : e = u[i]
    BY DEF Elems
  <2>2. CASE i <= Len(s)
    BY <1>3, <1>4, <1>5, <2>1, <2>2 DEF Elems
  <2>3. CASE ~(i <= Len(s))
    <3>1. i - Len(s) \in DOMAIN t /\ e = t[i - Len(s)]
      BY <1>3, <1>4, <1>5, <2>1, <2>3
    <3> QED BY <3>1 DEF Elems
  <2> QED BY <2>2, <2>3
<1>7. ASSUME NEW e \in Elems(s) PROVE e \in Elems(u)
  <2>1. PICK i \in DOMAIN s : e = s[i]
    BY DEF Elems
  <2>2. i \in DOMAIN u /\ e = u[i]
    BY <1>3, <1>4, <1>5, <2>1
  <2> QED BY <2>2 DEF Elems
<1>8. ASSUME NEW e \in Elems(t) PROVE e \in Elems(u)
  <2>1. PICK i \in DOMAIN t : e = t[i]
    BY DEF Elems
  <2>2. i + Len(s) \in DOMAIN u /\ e = u[i + Len(s)]
    BY <1>3, <1>4, <1>5, <2>1
  <2> QED BY <2>2 DEF Elems
<1>9. Elems(u) = Elems(s) \cup Elems(t)
  BY <1>6, <1>7, <1>8
<1> QED BY <1>9 DEF u

\* Two sequences in order, one before the other, are in order together.
LEMMA OrderOfConcat ==
    ASSUME NEW S, NEW s \in Seq(S), NEW t \in Seq(S), InOrder(s), InOrder(t),
           \A e \in Elems(s), d \in Elems(t) : Before(e, d)
    PROVE  InOrder(s \o t)
<1> DEFINE u == s \o t
<1>1. s \o t \in Seq(S) /\ Len(s \o t) = Len(s) + Len(t)
  BY ConcatProperties
<1>2. \A i \in 1..(Len(s) + Len(t)) : u[i] = IF i <= Len(s) THEN s[i] ELSE t[i - Len(s)]
  BY ConcatProperties
<1>3. /\ DOMAIN s = 1..Len(s) /\ DOMAIN t = 1..Len(t)
      /\ DOMAIN u = 1..(Len(s) + Len(t))
      /\ Len(s) \in Nat /\ Len(t) \in Nat
  BY <1>1, LenProperties
<1> HIDE DEF u
<1>4. ASSUME NEW i \in DOMAIN u, NEW j \in DOMAIN u, i < j PROVE Before(u[i], u[j])
  <2>1. CASE j <= Len(s)
    <3>1. i \in DOMAIN s /\ j \in DOMAIN s /\ u[i] = s[i] /\ u[j] = s[j]
      BY <1>2, <1>3, <1>4, <2>1
    <3> QED BY <1>4, <3>1 DEF InOrder
  <2>2. CASE i <= Len(s) /\ ~(j <= Len(s))
    <3>1. i \in DOMAIN s /\ u[i] = s[i]
      BY <1>2, <1>3, <2>2
    <3>2. j - Len(s) \in DOMAIN t /\ u[j] = t[j - Len(s)]
      BY <1>2, <1>3, <2>2
    <3>3. u[i] \in Elems(s) /\ u[j] \in Elems(t)
      BY <3>1, <3>2 DEF Elems
    <3> QED BY <3>3
  <2>3. CASE ~(i <= Len(s))
    <3>1. /\ i - Len(s) \in DOMAIN t /\ u[i] = t[i - Len(s)]
          /\ j - Len(s) \in DOMAIN t /\ u[j] = t[j - Len(s)]
          /\ i - Len(s) < j - Len(s)
      BY <1>2, <1>3, <1>4, <2>3
    <3> QED BY <3>1 DEF InOrder
  <2>4. i <= Len(s) \/ ~(i <= Len(s))
    OBVIOUS
  <2>5. j <= Len(s) \/ ~(j <= Len(s))
    OBVIOUS
  <2> QED BY <2>1, <2>2, <2>3
<1>5. InOrder(u)
  BY <1>4 DEF InOrder
<1> QED BY <1>5 DEF u

\* s has what is in any of the first n sequences of q.
Joins(s, q, n) == \A e : e \in Elems(s) <=> \E j \in 1..n : e \in Elems(q[j])

\* The i-th sum has the elements of the first i sequences.
LEMMA SumsElems ==
    ASSUME NEW S, NEW q, NEW n \in Nat, NEW f, Sums(f, q, n),
           \A i \in 1..n : q[i] \in Seq(S)
    PROVE  \A i \in 1..n : Joins(f[i], q, i)
<1>1. n > 0 => f[1] = q[1]
  BY DEF Sums
<1> DEFINE T == {i \in 1..n : ~Joins(f[i], q, i)}
<1> SUFFICES ASSUME T # {} PROVE FALSE
  OBVIOUS
<1>2. PICK m \in T : \A k \in T : m <= k
  <2> T \in SUBSET Nat
    OBVIOUS
  <2> HIDE DEF T
  <2> QED BY LeastOf
<1>3. m \in 1..n
  OBVIOUS
<1>4. PICK e : ~(e \in Elems(f[m]) <=> \E j \in 1..m : e \in Elems(q[j]))
  BY DEF Joins
<1>5. ASSUME NEW i \in 1..n, i \notin T
      PROVE  e \in Elems(f[i]) <=> \E j \in 1..i : e \in Elems(q[j])
  BY <1>5 DEF Joins
<1> HIDE DEF T
<1>6. m # 1
  <2> SUFFICES ASSUME m = 1 PROVE FALSE
    OBVIOUS
  <2>1. n > 0
    BY <1>3
  <2>2. f[1] = q[1]
    BY <2>1, <1>1
  <2>3. \A j : j \in 1..1 <=> j = 1
    OBVIOUS
  <2> QED BY <1>4, <2>2, <2>3
<1>7. m \in 2..n /\ m - 1 \in 1..n /\ ~(m <= m - 1)
  BY <1>3, <1>6
<1>8. m - 1 \notin T
  BY <1>2, <1>7
<1>9. e \in Elems(f[m - 1]) <=> \E j \in 1..(m - 1) : e \in Elems(q[j])
  BY <1>5, <1>7, <1>8
<1>10. f[m] = f[m - 1] \o q[m]
  BY <1>7 DEF Sums
<1>11. f[m - 1] \in Seq(S) /\ q[m] \in Seq(S)
  BY <1>3, <1>7, SumsType
<1>12. Elems(f[m]) = Elems(f[m - 1]) \cup Elems(q[m])
  BY <1>10, <1>11, ElemsOfConcat
<1>13. \A j : j \in 1..m <=> j \in 1..(m - 1) \/ j = m
  BY <1>7
<1> QED BY <1>4, <1>9, <1>12, <1>13

\* Sums of sequences in order, each before the next, are in order.
LEMMA SumsOrder ==
    ASSUME NEW S, NEW q, NEW n \in Nat, NEW f, Sums(f, q, n),
           \A i \in 1..n : q[i] \in Seq(S),
           \A i \in 1..n : InOrder(q[i]),
           \A i, j \in 1..n : i < j =>
             \A e \in Elems(q[i]), d \in Elems(q[j]) : Before(e, d)
    PROVE  \A i \in 1..n : InOrder(f[i])
<1>1. \A i \in 1..n : Joins(f[i], q, i)
  BY SumsElems
<1> DEFINE T == {i \in 1..n : ~InOrder(f[i])}
<1> SUFFICES ASSUME T # {} PROVE FALSE
  OBVIOUS
<1>2. PICK m \in T : \A k \in T : m <= k
  <2> T \in SUBSET Nat
    OBVIOUS
  <2> HIDE DEF T
  <2> QED BY LeastOf
<1>3. m \in 1..n /\ ~InOrder(f[m])
  OBVIOUS
<1>4. m # 1
  <2> SUFFICES ASSUME m = 1 PROVE FALSE
    OBVIOUS
  <2>1. n > 0
    BY <1>3
  <2>2. f[1] = q[1]
    BY <2>1 DEF Sums
  <2> QED BY <1>3, <2>2
<1>5. m \in 2..n /\ m - 1 \in 1..n /\ m - 1 \notin T
  BY <1>2, <1>3, <1>4
<1>6. InOrder(f[m - 1]) /\ InOrder(q[m])
  BY <1>3, <1>5
<1>7. f[m] = f[m - 1] \o q[m]
  BY <1>5 DEF Sums
<1>8. f[m - 1] \in Seq(S) /\ q[m] \in Seq(S)
  BY <1>3, <1>5, SumsType
<1>9. ASSUME NEW e \in Elems(f[m - 1]), NEW d \in Elems(q[m]) PROVE Before(e, d)
  <2>1. PICK j \in 1..(m - 1) : e \in Elems(q[j])
    BY <1>5, <1>1 DEF Joins
  <2>2. j \in 1..n /\ m \in 1..n /\ j < m
    BY <1>3
  <2> QED BY <2>1, <2>2
<1>10. InOrder(f[m - 1] \o q[m])
  BY <1>6, <1>8, <1>9, OrderOfConcat
<1> QED BY <1>3, <1>7, <1>10

\* A sequence of sequences in order, each before the next, is flattened in order,
\* with what is in any of them.
LEMMA FlattenFacts ==
    ASSUME NEW S, NEW n \in Nat, NEW q \in Seq(Seq(S)), Len(q) = n,
           \A i \in 1..n : InOrder(q[i]),
           \A i, j \in 1..n : i < j =>
             \A e \in Elems(q[i]), d \in Elems(q[j]) : Before(e, d)
    PROVE  /\ FlattenSeq(q) \in Seq(S)
           /\ InOrder(FlattenSeq(q))
           /\ Joins(FlattenSeq(q), q, n)
<1>1. DOMAIN q = 1..n /\ \A i \in 1..n : q[i] \in Seq(S)
  BY LenProperties, ElementOfSeq
<1>2. CASE n = 0
  <2>1. q = <<>>
    BY <1>2, EmptySeq
  <2>2. FlattenSeq(q) = <<>>
    BY <1>2, <2>1 DEF FlattenSeq
  <2>3. <<>> \in Seq(S) /\ DOMAIN <<>> = {} /\ 1..0 = {}
    BY EmptySeq
  <2> HIDE DEF FlattenSeq
  <2>4. InOrder(<<>>) /\ Elems(<<>>) = {}
    BY <2>3 DEF InOrder, Elems
  <2>5. Joins(<<>>, q, n)
    BY <1>2, <2>3, <2>4 DEF Joins
  <2> QED BY <2>2, <2>3, <2>4, <2>5
<1>3. CASE n # 0
  <2>1. PICK f : Sums(f, q, n) /\ FlattenSeq(q) = f[n]
    BY <1>3, FlattenIs
  <2>2. n \in 1..n
    BY <1>3
  <2>3. f[n] \in Seq(S)
    BY <1>1, <2>1, <2>2, SumsType
  <2>4. InOrder(f[n])
    <3>1. \A i \in 1..n : InOrder(f[i])
      BY <1>1, <2>1, SumsOrder
    <3> QED BY <2>2, <3>1
  <2>5. Joins(f[n], q, n)
    <3>1. \A i \in 1..n : Joins(f[i], q, i)
      BY <1>1, <2>1, SumsElems
    <3> QED BY <2>2, <3>1
  <2> QED BY <2>1, <2>3, <2>4, <2>5
<1> QED BY <1>2, <1>3

\* Sums of empty sequences are empty.
LEMMA SumsEmpty ==
    ASSUME NEW q, NEW n \in Nat, NEW f, Sums(f, q, n)
    PROVE  \A i \in 1..n : (\A k \in 1..i : q[k] = <<>>) => f[i] = <<>>
<1> DEFINE T == {i \in 1..n : ~((\A k \in 1..i : q[k] = <<>>) => f[i] = <<>>)}
<1> SUFFICES ASSUME T # {} PROVE FALSE
  OBVIOUS
<1>1. PICK m \in T : \A k \in T : m <= k
  <2> T \in SUBSET Nat
    OBVIOUS
  <2> HIDE DEF T
  <2> QED BY LeastOf
<1>2. m \in 1..n /\ (\A k \in 1..m : q[k] = <<>>) /\ f[m] # <<>>
  OBVIOUS
<1>3. ASSUME NEW i \in 1..n, i \notin T, \A k \in 1..i : q[k] = <<>>
      PROVE  f[i] = <<>>
  BY <1>3
<1> HIDE DEF T
<1>4. q[m] = <<>>
  BY <1>2
<1>5. m # 1
  BY <1>2, <1>4 DEF Sums
<1>6. m \in 2..n /\ m - 1 \in 1..n /\ ~(m <= m - 1)
  BY <1>2, <1>5
<1>7. m - 1 \notin T
  BY <1>1, <1>6
<1>8. f[m - 1] = <<>>
  <2> \A k \in 1..(m - 1) : k \in 1..m
    BY <1>6
  <2> QED BY <1>2, <1>3, <1>6, <1>7
<1>9. f[m] = f[m - 1] \o q[m]
  BY <1>6 DEF Sums
<1>10. <<>> \o <<>> = <<>>
  BY EmptySeq, ConcatEmptySeq
<1> QED BY <1>2, <1>4, <1>8, <1>9, <1>10

\* Each c[i] is a[i] or b[i], and the other is empty; no a follows a b.
Parted(a, b, c, n) ==
    /\ \A i \in 1..n : \/ b[i] = <<>> /\ c[i] = a[i]
                       \/ a[i] = <<>> /\ c[i] = b[i]
    /\ \A i, j \in 1..n : i < j => b[i] = <<>> \/ a[j] = <<>>

\* The sums for c are those for a with those for b after them.
Adds(a, b, c, n) ==
    \A f, g, h : Sums(f, a, n) /\ Sums(g, b, n) /\ Sums(h, c, n) =>
      \A i \in 1..n : h[i] = f[i] \o g[i]

\* Sums for a sequence that is parted are added up from those of its parts.
LEMMA SumsSplit ==
    ASSUME NEW S, NEW n \in Nat, NEW a \in Seq(Seq(S)), NEW b \in Seq(Seq(S)), NEW c,
           Len(a) = n, Len(b) = n, Parted(a, b, c, n)
    PROVE  Adds(a, b, c, n)
<1> SUFFICES ASSUME NEW f, NEW g, NEW h,
                    Sums(f, a, n) /\ Sums(g, b, n) /\ Sums(h, c, n)
             PROVE  \A i \in 1..n : h[i] = f[i] \o g[i]
  BY DEF Adds
<1>1. \A s, t, u \in Seq(S) : (s \o t) \o u = s \o (t \o u)
  BY ConcatAssociative
<1>2. \A i \in 1..n : a[i] \in Seq(S)
  BY ElementOfSeq
<1>3. \A i \in 1..n : b[i] \in Seq(S)
  BY ElementOfSeq
<1>4. \A i \in 1..n : f[i] \in Seq(S)
  BY <1>2, SumsType
<1>5. \A i \in 1..n : g[i] \in Seq(S)
  BY <1>3, SumsType
<1> DEFINE T == {i \in 1..n : h[i] # f[i] \o g[i]}
<1> SUFFICES ASSUME T # {} PROVE FALSE
  OBVIOUS
<1>6. PICK m \in T : \A k \in T : m <= k
  <2> T \in SUBSET Nat
    <3>1. T \subseteq 1..n
      BY Zenon
    <3> HIDE DEF T
    <3> QED BY <3>1
  <2> HIDE DEF T
  <2> QED BY LeastOf
<1>7. m \in 1..n /\ h[m] # f[m] \o g[m]
  OBVIOUS
<1>8. \A i \in 1..n : i \notin T => h[i] = f[i] \o g[i]
  OBVIOUS
<1> HIDE DEF T
<1>9. a[m] \in Seq(S) /\ b[m] \in Seq(S)
  BY <1>7, <1>2, <1>3
<1>10. m # 1
  <2> SUFFICES ASSUME m = 1 PROVE FALSE
    OBVIOUS
  <2>1. f[1] = a[1] /\ g[1] = b[1] /\ h[1] = c[1]
    BY <1>7 DEF Sums
  <2>2. CASE b[1] = <<>> /\ c[1] = a[1]
    <3>1. a[1] \o <<>> = a[1]
      BY <1>9, ConcatEmptySeq
    <3> QED BY <1>7, <2>1, <2>2, <3>1
  <2>3. CASE a[1] = <<>> /\ c[1] = b[1]
    <3>1. <<>> \o b[1] = b[1]
      BY <1>9, ConcatEmptySeq
    <3> QED BY <1>7, <2>1, <2>3, <3>1
  <2> QED BY <1>7, <2>2, <2>3 DEF Parted
<1>11. m \in 2..n /\ m - 1 \in 1..n /\ ~(m <= m - 1)
  BY <1>7, <1>10
<1>12. h[m - 1] = f[m - 1] \o g[m - 1]
  BY <1>6, <1>8, <1>11
<1>13. f[m] = f[m - 1] \o a[m] /\ g[m] = g[m - 1] \o b[m] /\ h[m] = h[m - 1] \o c[m]
  BY <1>11 DEF Sums
<1>14. f[m - 1] \in Seq(S) /\ g[m - 1] \in Seq(S)
  BY <1>11, <1>4, <1>5
<1>15. CASE a[m] = <<>> /\ c[m] = b[m]
  <2>1. f[m] = f[m - 1]
    BY <1>13, <1>14, <1>15, ConcatEmptySeq
  <2>2. h[m] = (f[m - 1] \o g[m - 1]) \o b[m]
    BY <1>12, <1>13, <1>15
  <2>3. (f[m - 1] \o g[m - 1]) \o b[m] = f[m - 1] \o (g[m - 1] \o b[m])
    <3>1. f[m - 1] \in Seq(S)
      BY <1>14
    <3>2. g[m - 1] \in Seq(S)
      BY <1>14
    <3>3. b[m] \in Seq(S)
      BY <1>9
    <3> QED BY <3>1, <3>2, <3>3, <1>1, Zenon
  <2> QED BY <1>7, <1>13, <2>1, <2>2, <2>3
<1>16. CASE b[m] = <<>> /\ c[m] = a[m]
  <2>1. CASE a[m] = <<>>
    BY <1>15, <1>16, <2>1
  <2>2. CASE a[m] # <<>>
    <3>1. \A k \in 1..m : b[k] = <<>>
      <4>1. \A k \in 1..m : k = m \/ (k \in 1..n /\ k < m)
        BY <1>7
      <4> QED BY <1>7, <1>16, <2>2, <4>1 DEF Parted
    <3>2. \A k \in 1..(m - 1) : b[k] = <<>>
      <4> \A k \in 1..(m - 1) : k \in 1..m
        BY <1>11
      <4> QED BY <3>1
    <3>3. g[m] = <<>> /\ g[m - 1] = <<>>
      <4>1. \A i \in 1..n : (\A k \in 1..i : b[k] = <<>>) => g[i] = <<>>
        BY SumsEmpty
      <4> QED BY <1>7, <1>11, <3>1, <3>2, <4>1
    <3>4. h[m] = (f[m - 1] \o <<>>) \o a[m]
      BY <1>12, <1>13, <1>16, <3>3
    <3>5. f[m - 1] \o <<>> = f[m - 1]
      BY <1>14, ConcatEmptySeq
    <3>6. h[m] = f[m]
      BY <1>13, <3>4, <3>5
    <3>7. f[m] \in Seq(S)
      BY <1>7, <1>4
    <3>8. f[m] \o <<>> = f[m]
      BY <3>7, ConcatEmptySeq
    <3> QED BY <1>7, <3>3, <3>6, <3>8
  <2> QED BY <2>1, <2>2
<1> QED BY <1>7, <1>15, <1>16 DEF Parted

\* So what a parted sequence is flattened to is what its parts are.
LEMMA FlattenSplit ==
    ASSUME NEW S, NEW n \in Nat,
           NEW a \in Seq(Seq(S)), NEW b \in Seq(Seq(S)), NEW c \in Seq(Seq(S)),
           Len(a) = n, Len(b) = n, Len(c) = n,
           Parted(a, b, c, n)
    PROVE  FlattenSeq(c) = FlattenSeq(a) \o FlattenSeq(b)
<1>1. CASE n = 0
  <2>1. a = <<>> /\ b = <<>> /\ c = <<>>
    BY <1>1, EmptySeq
  <2>2. FlattenSeq(<<>>) = <<>>
    BY EmptySeq DEF FlattenSeq
  <2>3. <<>> \o <<>> = <<>>
    BY EmptySeq, ConcatEmptySeq
  <2> HIDE DEF FlattenSeq
  <2> QED BY <2>1, <2>2, <2>3
<1>2. CASE n # 0
  <2>1. PICK f : Sums(f, a, n) /\ FlattenSeq(a) = f[n]
    BY <1>2, FlattenIs
  <2>2. PICK g : Sums(g, b, n) /\ FlattenSeq(b) = g[n]
    BY <1>2, FlattenIs
  <2>3. PICK h : Sums(h, c, n) /\ FlattenSeq(c) = h[n]
    BY <1>2, FlattenIs
  <2>4. \A i \in 1..n : h[i] = f[i] \o g[i]
    <3>1. Adds(a, b, c, n)
      BY SumsSplit
    <3> QED BY <2>1, <2>2, <2>3, <3>1 DEF Adds
  <2>5. n \in 1..n
    BY <1>2
  <2> QED BY <2>1, <2>2, <2>3, <2>4, <2>5
<1> QED BY <1>1, <1>2

-----------------------------------------------------------------------------
(* The events of a record, and of some records *)

\* A function on 1..n is a sequence of length n.
LEMMA AsSeq ==
    ASSUME NEW S, NEW n \in Nat, NEW q, q \in [1..n -> S]
    PROVE  q \in Seq(S) /\ Len(q) = n
OBVIOUS

\* The events of a record carry its number, and are in order.
LEMMA DecodeFacts ==
    ASSUME NEW r \in Nat
    PROVE  /\ DecodeEvents(r) \in Seq({r} \X Nat)
           /\ InOrder(DecodeEvents(r))
<1> DEFINE body == Bodies[1 + (r % Len(Bodies))]
           q == [k \in 1..Len(body) |->
                   IF body[k] \in {"event", "junk"} THEN << <<r, k>> >> ELSE <<>>]
           S == {r} \X Nat
<1>1. body \in Seq(Line)
  <2>1. Bodies \in Seq(Seq(Line)) /\ Len(Bodies) \in Nat \ {0}
    BY PeekAssumption, EmptySeq
  <2>2. 1 + (r % Len(Bodies)) \in 1..Len(Bodies)
    BY <2>1
  <2> QED BY <2>1, <2>2, ElementOfSeq
<1>2. Len(body) \in Nat
  BY <1>1, LenProperties
<1>3. DecodeEvents(r) = FlattenSeq(q)
  BY DEF DecodeEvents
<1> DEFINE n == Len(body)
<1>4. \A k \in 1..n : q[k] = IF body[k] \in {"event", "junk"} THEN << <<r, k>> >> ELSE <<>>
  OBVIOUS
<1>5. ASSUME NEW k \in 1..n
      PROVE  /\ q[k] \in Seq(S)
             /\ Elems(q[k]) \subseteq {<<r, k>>}
             /\ InOrder(q[k])
  <2>1. k \in Nat /\ <<r, k>> \in S
    BY <1>2
  <2>2. CASE q[k] = << <<r, k>> >>
    <3>1. << <<r, k>> >> \in Seq(S)
      <4> HIDE DEF S
      <4> QED BY <2>1
    <3>2. Elems(<< <<r, k>> >>) = {<<r, k>>}
      BY DEF Elems
    <3>3. InOrder(<< <<r, k>> >>)
      BY DEF InOrder
    <3> HIDE DEF q, S
    <3> QED BY <2>2, <3>1, <3>2, <3>3
  <2>3. CASE q[k] = <<>>
    <3>1. <<>> \in Seq(S) /\ DOMAIN <<>> = {}
      BY EmptySeq
    <3>2. Elems(<<>>) = {} /\ InOrder(<<>>)
      BY <3>1 DEF Elems, InOrder
    <3> HIDE DEF q, S
    <3> QED BY <2>3, <3>1, <3>2
  <2> HIDE DEF q
  <2> QED BY <1>4, <2>2, <2>3
<1>6. q \in [1..n -> Seq(S)]
  <2> DOMAIN q = 1..n /\ q = [k \in 1..n |-> q[k]]
    OBVIOUS
  <2> HIDE DEF q, S
  <2> QED BY <1>5
<1>7. q \in Seq(Seq(S)) /\ Len(q) = n
  <2> HIDE DEF q, S, n
  <2> QED BY <1>2, <1>6, AsSeq DEF n
<1>8. \A i, j \in 1..n : i < j =>
        \A e \in Elems(q[i]), d \in Elems(q[j]) : Before(e, d)
  <2> SUFFICES ASSUME NEW i \in 1..n, NEW j \in 1..n, i < j,
                      NEW e \in Elems(q[i]), NEW d \in Elems(q[j])
               PROVE  Before(e, d)
    OBVIOUS
  <2> HIDE DEF q
  <2>1. e = <<r, i>> /\ d = <<r, j>>
    BY <1>5
  <2> QED BY <2>1 DEF Before
<1>9. \A i \in 1..n : InOrder(q[i])
  BY <1>5
<1>10. n \in Nat
  BY <1>2
<1> HIDE DEF q, S, n, FlattenSeq
<1>11. FlattenSeq(q) \in Seq(S) /\ InOrder(FlattenSeq(q))
  BY <1>7, <1>8, <1>9, <1>10, FlattenFacts
<1> QED BY <1>3, <1>11 DEF S

\* What EventsOf flattens.
Rows(R) == [r \in 1..MaxRecords |-> IF r \in R THEN DecodeEvents(r) ELSE <<>>]

\* They are sequences of events, one for each record.
LEMMA RowsFacts ==
    ASSUME NEW R
    PROVE  /\ EventsOf(R) = FlattenSeq(Rows(R))
           /\ Rows(R) \in Seq(Seq(Events)) /\ Len(Rows(R)) = MaxRecords
           /\ \A r \in 1..MaxRecords :
                Rows(R)[r] = IF r \in R THEN DecodeEvents(r) ELSE <<>>
<1>1. EventsOf(R) = FlattenSeq(Rows(R))
  BY DEF EventsOf, Rows
<1>2. \A r \in 1..MaxRecords :
        Rows(R)[r] = IF r \in R THEN DecodeEvents(r) ELSE <<>>
  BY DEF Rows
<1>3. ASSUME NEW r \in 1..MaxRecords PROVE Rows(R)[r] \in Seq(Events)
  <2>1. DecodeEvents(r) \in Seq({r} \X Nat)
    BY DecodeFacts
  <2>2. {r} \X Nat \subseteq Events
    BY DEF Events, Records
  <2>3. DecodeEvents(r) \in Seq(Events)
    BY <2>1, <2>2, SeqMonotonic
  <2>4. <<>> \in Seq(Events)
    BY EmptySeq
  <2> QED BY <1>2, <2>3, <2>4
<1>4. Rows(R) \in [1..MaxRecords -> Seq(Events)]
  <2> DOMAIN Rows(R) = 1..MaxRecords /\ Rows(R) = [r \in 1..MaxRecords |-> Rows(R)[r]]
    BY DEF Rows
  <2> QED BY <1>3
<1>5. MaxRecords \in Nat
  BY PeekAssumption
<1>6. Rows(R) \in Seq(Seq(Events)) /\ Len(Rows(R)) = MaxRecords
  BY <1>4, <1>5, AsSeq
<1> QED BY <1>1, <1>2, <1>6

\* The events of some records are in order, and are those of each.
LEMMA EventsFacts ==
    ASSUME NEW R \in SUBSET Records
    PROVE  /\ EventsOf(R) \in Seq(Events)
           /\ InOrder(EventsOf(R))
           /\ \A e : e \in Elems(EventsOf(R)) <=> \E r \in R : e \in Elems(DecodeEvents(r))
<1> DEFINE q == Rows(R)
<1>1. MaxRecords \in Nat
  BY PeekAssumption
<1>2. \A r \in 1..MaxRecords : q[r] = IF r \in R THEN DecodeEvents(r) ELSE <<>>
  BY RowsFacts
<1>3. Elems(<<>>) = {} /\ InOrder(<<>>)
  <2> DOMAIN <<>> = {}
    BY EmptySeq
  <2> QED BY DEF Elems, InOrder
<1>4. q \in Seq(Seq(Events)) /\ Len(q) = MaxRecords /\ EventsOf(R) = FlattenSeq(q)
  BY RowsFacts
<1> HIDE DEF q
<1>5. \A r \in 1..MaxRecords : InOrder(q[r])
  <2> SUFFICES ASSUME NEW r \in 1..MaxRecords PROVE InOrder(q[r])
    OBVIOUS
  <2> r \in Nat
    BY <1>1
  <2>1. InOrder(DecodeEvents(r))
    BY DecodeFacts
  <2> QED BY <1>2, <1>3, <2>1
<1>6. ASSUME NEW r \in 1..MaxRecords, NEW e \in Elems(q[r]) PROVE e[1] = r
  <2>1. q[r] = DecodeEvents(r)
    BY <1>2, <1>3, <1>6
  <2>2. DecodeEvents(r) \in Seq({r} \X Nat)
    BY DecodeFacts
  <2>3. PICK i \in DOMAIN DecodeEvents(r) : e = DecodeEvents(r)[i]
    BY <1>6, <2>1 DEF Elems
  <2>4. e \in {r} \X Nat
    BY <2>2, <2>3, LenProperties, ElementOfSeq
  <2> QED BY <2>4
<1>7. \A i, j \in 1..MaxRecords : i < j =>
        \A e \in Elems(q[i]), d \in Elems(q[j]) : Before(e, d)
  BY <1>6 DEF Before
<1>8. FlattenSeq(q) \in Seq(Events) /\ InOrder(FlattenSeq(q)) /\ Joins(FlattenSeq(q), q, MaxRecords)
  <2> HIDE DEF FlattenSeq
  <2> QED BY <1>1, <1>4, <1>5, <1>7, FlattenFacts
<1>9. ASSUME NEW e
      PROVE  (\E r \in 1..MaxRecords : e \in Elems(q[r])) <=> \E r \in R : e \in Elems(DecodeEvents(r))
  <2>1. \A r \in R : r \in 1..MaxRecords
    BY DEF Records
  <2> QED BY <1>2, <1>3, <2>1
<1>10. \A e : e \in Elems(FlattenSeq(q)) <=> \E r \in R : e \in Elems(DecodeEvents(r))
  BY <1>8, <1>9 DEF Joins
<1> QED BY <1>4, <1>8, <1>10

\* The events of records and of later records are those of both.
LEMMA EventsSplit ==
    ASSUME NEW R \in SUBSET Records, NEW Q \in SUBSET Records,
           \A r \in R, x \in Q : r < x
    PROVE  EventsOf(R \cup Q) = EventsOf(R) \o EventsOf(Q)
<1> DEFINE n == MaxRecords
           a == Rows(R)
           b == Rows(Q)
           c == Rows(R \cup Q)
<1>1. n \in Nat
  BY PeekAssumption
<1>2. \A r \in 1..n : a[r] = IF r \in R THEN DecodeEvents(r) ELSE <<>>
  BY RowsFacts
<1>3. \A r \in 1..n : b[r] = IF r \in Q THEN DecodeEvents(r) ELSE <<>>
  BY RowsFacts
<1>4. \A r \in 1..n : c[r] = IF r \in R \cup Q THEN DecodeEvents(r) ELSE <<>>
  BY RowsFacts
<1>5. a \in Seq(Seq(Events)) /\ Len(a) = n /\ EventsOf(R) = FlattenSeq(a)
  BY RowsFacts
<1>6. b \in Seq(Seq(Events)) /\ Len(b) = n /\ EventsOf(Q) = FlattenSeq(b)
  BY RowsFacts
<1>7. c \in Seq(Seq(Events)) /\ Len(c) = n /\ EventsOf(R \cup Q) = FlattenSeq(c)
  BY RowsFacts
<1> HIDE DEF a, b, c
<1>8. \A r \in 1..n : ~(r \in R /\ r \in Q)
  OBVIOUS
<1>9. \A i, j \in 1..n : i < j => ~(i \in Q /\ j \in R)
  OBVIOUS
<1>10. Parted(a, b, c, n)
  BY <1>2, <1>3, <1>4, <1>8, <1>9 DEF Parted
<1> HIDE DEF FlattenSeq, n
<1>11. FlattenSeq(c) = FlattenSeq(a) \o FlattenSeq(b)
  BY <1>1, <1>5, <1>6, <1>7, <1>10, FlattenSplit
<1> QED BY <1>5, <1>6, <1>7, <1>11

\* The last n of a sequence: how many they are, and which.
LEMMA LastOfFacts ==
    ASSUME NEW S, NEW s \in Seq(S), NEW n \in Nat \ {0}
    PROVE  /\ LastOf(s, n) \in Seq(S)
           /\ Len(LastOf(s, n)) = IF Len(s) <= n THEN Len(s) ELSE n
           /\ \A i \in 1..Len(LastOf(s, n)) :
                LastOf(s, n)[i] = s[Len(s) - Len(LastOf(s, n)) + i]
<1>1. Len(s) \in Nat /\ \A i \in 1..Len(s) : s[i] \in S
  BY LenProperties, ElementOfSeq
<1>2. CASE Len(s) <= n
  <2>1. LastOf(s, n) = s
    BY <1>2 DEF LastOf
  <2>2. \A i \in 1..Len(s) : Len(s) - Len(s) + i = i
    BY <1>1
  <2> QED BY <1>2, <2>1, <2>2
<1>3. CASE ~(Len(s) <= n)
  <2> DEFINE m == Len(s) - n + 1
             t == SubSeq(s, m, Len(s))
  <2>1. LastOf(s, n) = t
    BY <1>3 DEF LastOf
  <2>2. m \in Int /\ Len(s) \in Int /\ m <= Len(s) /\ m >= 1 /\ Len(s) - m + 1 = n
    BY <1>1, <1>3
  <2>3. \A i \in m..Len(s) : s[i] \in S
    BY <1>1, <2>2
  <2> HIDE DEF m
  <2>4. /\ SubSeq(s, m, Len(s)) \in Seq(S)
        /\ Len(SubSeq(s, m, Len(s))) = IF m <= Len(s) THEN Len(s) - m + 1 ELSE 0
        /\ \A i \in 1..(Len(s) - m + 1) : SubSeq(s, m, Len(s))[i] = s[m + i - 1]
    BY <2>2, <2>3, SubSeqProperties
  <2>5. Len(t) = n /\ t \in Seq(S) /\ \A i \in 1..n : t[i] = s[m + i - 1]
    BY <2>2, <2>4
  <2>6. \A i \in 1..n : m + i - 1 = Len(s) - n + i
    BY <1>1 DEF m
  <2> HIDE DEF t
  <2> QED BY <1>3, <2>1, <2>5, <2>6
<1> QED BY <1>2, <1>3

\* The last n of a sequence end the last n of any that it ends.
LEMMA SuffixOfConcat ==
    ASSUME NEW S, NEW a \in Seq(S), NEW b \in Seq(S), NEW n \in Nat \ {0}
    PROVE  Suffix(LastOf(b, n), LastOf(a \o b, n))
<1> DEFINE c == a \o b
           t == LastOf(b, n)
           u == LastOf(c, n)
<1>1. Len(a) \in Nat /\ Len(b) \in Nat
  BY LenProperties
<1>2. /\ c \in Seq(S) /\ Len(c) = Len(a) + Len(b)
      /\ \A i \in 1..(Len(a) + Len(b)) : c[i] = IF i <= Len(a) THEN a[i] ELSE b[i - Len(a)]
  BY ConcatProperties
<1> HIDE DEF c
<1>3. /\ Len(t) = IF Len(b) <= n THEN Len(b) ELSE n
      /\ \A i \in 1..Len(t) : t[i] = b[Len(b) - Len(t) + i]
  BY LastOfFacts
<1>4. /\ Len(u) = IF Len(c) <= n THEN Len(c) ELSE n
      /\ \A i \in 1..Len(u) : u[i] = c[Len(c) - Len(u) + i]
  <2> c \in Seq(S)
    BY <1>2
  <2> QED BY LastOfFacts
<1> HIDE DEF t, u
<1>5. Len(t) \in Nat /\ Len(u) \in Nat /\ Len(t) <= Len(u) /\ Len(u) <= Len(c) /\ Len(t) <= Len(b)
  BY <1>1, <1>2, <1>3, <1>4
<1>6. ASSUME NEW i \in 1..Len(t) PROVE t[i] = u[Len(u) - Len(t) + i]
  <2> DEFINE j == Len(u) - Len(t) + i
             k == Len(c) - Len(u) + j
  <2>1. j \in 1..Len(u)
    BY <1>5
  <2>2. k \in 1..(Len(a) + Len(b)) /\ ~(k <= Len(a)) /\ k - Len(a) = Len(b) - Len(t) + i
    BY <1>1, <1>2, <1>5
  <2>3. u[j] = c[k]
    BY <1>4, <2>1
  <2> HIDE DEF j, k
  <2>4. c[k] = b[k - Len(a)]
    BY <1>2, <2>2
  <2>5. t[i] = b[Len(b) - Len(t) + i]
    BY <1>3
  <2>6. t[i] = u[j]
    BY <2>2, <2>3, <2>4, <2>5
  <2> QED BY <2>6 DEF j
<1>7. Suffix(t, u)
  BY <1>5, <1>6 DEF Suffix
<1> QED BY <1>7 DEF t, u, c

-----------------------------------------------------------------------------
(* The inductive invariant *)

\* Nobody but the consumer has a message in flight; a peek makes the calls of its
\* stream's type, and has a page left before it asks for one.
CallsFit ==
    /\ hidden \subseteq queue \X {"consumer"}
    /\ peek.pc \in {"describe", "iterator", "read"} => type = "kinesis" /\ peek.left > 0
    /\ At("receive") => type = "sqs"

TypeInv == TypeOK /\ CallsFit

\* The peek has read R: records before the next one it will ask for, and all of
\* those that the shard still holds.
HasRead(R) ==
    /\ peek.next <= newest + 1
    /\ \A r \in R : r < peek.next
    /\ \A r \in Shard : r < peek.next => r \in R

\* What it has gathered are the events of what it has read.
ReadInv ==
    /\ peek.pc \in {"describe", "iterator"} => peek.events = <<>>
    /\ At("read") => \E R \in SUBSET Records : HasRead(R) /\ peek.events = EventsOf(R)

\* What it answers are the last of these; and if it has pages left, what it has
\* read ends with the shard as it was at the last call.
AnswerInv ==
    At("answer") /\ type = "kinesis" =>
      \E R \in SUBSET Records :
        /\ HasRead(R)
        /\ peek.events = LastOf(EventsOf(R), peek.limit)
        /\ peek.left > 0 => /\ peek.seen \subseteq R
                            /\ \A r \in R \ peek.seen, x \in peek.seen : r < x

\* The peek that is to come is of its type.
LEMMA IdleType == Idle \in Peeking
<1>1. Idle.limit \in Limits
  BY PeekAssumption DEF Idle
<1>2. <<>> \in Seq(Events)
  BY EmptySeq
<1>3. MaxPages \in 0..MaxPages
  BY PeekAssumption
<1> QED BY <1>1, <1>2, <1>3 DEF Idle, Peeking

\* TypeInv holds at first.
LEMMA InitType == Init => TypeInv
<1> SUFFICES ASSUME Init PROVE TypeInv
  OBVIOUS
<1>1. peek = Idle /\ peek \in Peeking /\ peek.pc = "idle"
  BY IdleType DEF Init, Idle
<1>2. MaxRecords \in Nat
  BY PeekAssumption
<1>3. TypeOK
  <2>1. /\ type \in {"kinesis", "sqs"} /\ gone \in BOOLEAN
        /\ queue \subseteq Records /\ hidden \subseteq queue \X {"consumer", "peek"}
    BY DEF Init
  <2>2. oldest \in 1..(MaxRecords + 1) /\ newest \in 0..MaxRecords
    BY <1>2 DEF Init
  <2> QED BY <1>1, <2>1, <2>2 DEF TypeOK
<1>4. CallsFit
  BY <1>1 DEF Init, CallsFit, At
<1> QED BY <1>3, <1>4 DEF TypeInv

\* The pages: what GetRecords returns is in the shard, and what is gathered of
\* it is of the type of events.
LEMMA PageFacts ==
    ASSUME TypeInv, NEW n \in 0..PageSize,
           Larger(peek.next, oldest) + n <= newest + 1
    PROVE  LET from == Larger(peek.next, oldest)
               page == from..(from + n - 1)
           IN /\ from \in Nat \ {0} /\ peek.next <= from /\ oldest <= from
              /\ from = peek.next \/ from = oldest
              /\ from + n \in Nat
              /\ page \in SUBSET Records
              /\ EventsOf(page) \in Seq(Events)
              /\ peek.events \o EventsOf(page) \in Seq(Events)
<1> DEFINE from == Larger(peek.next, oldest)
           page == from..(from + n - 1)
<1>1. /\ peek.next \in Nat /\ oldest \in Nat \ {0} /\ newest \in Nat /\ newest <= MaxRecords
      /\ peek.events \in Seq(Events) /\ n \in Nat /\ MaxRecords \in Nat
  BY PeekAssumption DEF TypeInv, TypeOK, Peeking
<1>2. /\ from \in Nat \ {0} /\ peek.next <= from /\ oldest <= from
      /\ from = peek.next \/ from = oldest
  BY <1>1 DEF Larger
<1>3. from + n <= newest + 1
  OBVIOUS
<1> HIDE DEF from
<1>4. page \in SUBSET Records
  BY <1>1, <1>2, <1>3 DEF Records
<1>5. from + n \in Nat
  BY <1>1, <1>2
<1> HIDE DEF page
<1>6. EventsOf(page) \in Seq(Events)
  BY <1>4, EventsFacts
<1>7. peek.events \o EventsOf(page) \in Seq(Events)
  BY <1>1, <1>6, ConcatProperties
<1> QED BY <1>2, <1>4, <1>5, <1>6, <1>7 DEF from, page

\* What a page makes of the peek.
LEMMA PageStep ==
    ASSUME TypeInv, GetRecords
    PROVE  \E n \in 0..PageSize :
             LET from == Larger(peek.next, oldest)
                 all == peek.events \o EventsOf(from..(from + n - 1))
             IN /\ from + n <= newest + 1
                /\ peek' \in Peeking
                /\ peek'.limit = peek.limit
                /\ peek'.next = from + n
                /\ peek'.left = peek.left - 1
                /\ peek'.seen = Shard
                /\ \/ /\ from + n <= newest /\ peek.left > 1
                      /\ peek'.pc = "read" /\ peek'.events = all
                   \/ /\ from + n > newest \/ peek.left <= 1
                      /\ peek'.pc = "answer" /\ peek'.events = LastOf(all, peek.limit)
<1> DEFINE from == Larger(peek.next, oldest)
           behind(n) == from + n <= newest
           all(n) == peek.events \o EventsOf(from..(from + n - 1))
           P(n) == IF GoesOn(n, behind(n)) THEN "read" ELSE "answer"
           N(n) == After(from + n)
           L == IF peek.left = 0 THEN MaxPages ELSE peek.left - 1
           E(n) == IF GoesOn(n, behind(n)) THEN all(n) ELSE LastOf(all(n), peek.limit)
<1>1. PICK n \in 0..PageSize :
        /\ from + n <= newest + 1
        /\ peek' = [peek EXCEPT !.pc = P(n), !.next = N(n), !.left = L,
                                !.seen = Shard, !.events = E(n)]
  BY DEF GetRecords
<1>2. /\ peek \in Peeking /\ peek.left \in 1..MaxPages /\ peek.limit \in Nat \ {0}
      /\ MaxPages \in Nat /\ newest \in Nat /\ newest <= MaxRecords /\ MaxRecords \in Nat
      /\ peek.pc = "read"
  <2>1. peek \in Peeking /\ peek.pc = "read" /\ peek.left > 0
    BY DEF GetRecords, TypeInv, TypeOK, CallsFit, At
  <2>2. peek.left \in 0..MaxPages /\ peek.limit \in Limits
    BY <2>1 DEF Peeking
  <2>3. /\ MaxPages \in Nat /\ MaxRecords \in Nat /\ Limits \subseteq Nat \ {0}
        /\ newest \in 0..MaxRecords
    BY PeekAssumption DEF TypeInv, TypeOK
  <2>4. peek.left \in 1..MaxPages
    BY <2>1, <2>2, <2>3
  <2>5. peek.limit \in Nat \ {0}
    BY <2>2, <2>3
  <2>6. newest \in Nat /\ newest <= MaxRecords
    BY <2>3
  <2> QED BY <2>1, <2>3, <2>4, <2>5, <2>6
<1>3. /\ from + n \in Nat
      /\ all(n) \in Seq(Events)
  BY <1>1, PageFacts
<1>4. LastOf(all(n), peek.limit) \in Seq(Events)
  <2> HIDE DEF all
  <2> QED BY <1>2, <1>3, LastOfFacts
<1>5. Shard \in SUBSET Records
  <2> oldest \in Nat \ {0}
    BY <1>2 DEF TypeInv, TypeOK
  <2> QED BY <1>2 DEF Shard, Records
<1>6. N(n) = from + n /\ L = peek.left - 1
  BY <1>2 DEF After
<1>7. \/ /\ from + n <= newest /\ peek.left > 1
         /\ P(n) = "read" /\ E(n) = all(n)
      \/ /\ from + n > newest \/ peek.left <= 1
         /\ P(n) = "answer" /\ E(n) = LastOf(all(n), peek.limit)
  <2>1. GoesOn(n, behind(n)) <=> from + n <= newest /\ peek.left > 1
    BY DEF GoesOn
  <2>2. newest \in Int /\ from + n \in Int /\ peek.left \in Int
    BY <1>2, <1>3
  <2> HIDE DEF all, from
  <2> QED BY <2>1, <2>2
<1> HIDE DEF P, N, L, E, all, from
<1>8. E(n) \in Seq(Events) /\ P(n) \in {"read", "answer"} /\ L \in 0..MaxPages /\ N(n) \in Nat
  BY <1>2, <1>3, <1>4, <1>6, <1>7
<1>9. /\ peek' \in Peeking /\ peek'.pc = P(n) /\ peek'.next = N(n) /\ peek'.left = L
      /\ peek'.seen = Shard /\ peek'.events = E(n) /\ peek'.limit = peek.limit
  BY <1>1, <1>2, <1>5, <1>8 DEF Peeking
<1> QED BY <1>1, <1>6, <1>7, <1>9 DEF all, from

\* Every step keeps TypeInv.
LEMMA TypeStep == TypeInv /\ [Next]_vars => TypeInv'
<1> SUFFICES ASSUME TypeInv, [Next]_vars PROVE TypeInv'
  OBVIOUS
<1>1. /\ MaxRecords \in Nat /\ Limits \subseteq Nat \ {0}
      /\ peek \in Peeking /\ peek.limit \in Nat \ {0}
      /\ oldest \in 1..(MaxRecords + 1) /\ newest \in 0..MaxRecords
  BY PeekAssumption DEF TypeInv, TypeOK, Peeking
<1> DEFINE Fit(p) ==
             /\ p \in Peeking
             /\ p.pc = "answer" => Len(p.events) <= p.limit
             /\ p.pc \in {"describe", "iterator", "read"} => type = "kinesis" /\ p.left > 0
             /\ p.pc = "receive" => type = "sqs"
\* A step of the peek leaves the stream alone.
<1>2. ASSUME UNCHANGED streamVars, Fit(peek') PROVE TypeInv'
  BY <1>2 DEF TypeInv, TypeOK, CallsFit, At, streamVars
<1>3. CASE \E n \in Limits : Start(n)
  <2>1. PICK n \in Limits : Start(n)
    BY <1>3
  <2>2. UNCHANGED streamVars
    BY <2>1 DEF Start
  <2>3. type \in {"kinesis", "sqs"}
    BY DEF TypeInv, TypeOK
  <2>4. peek' = [Idle EXCEPT !.limit = n,
                   !.pc = IF type = "kinesis" THEN "describe" ELSE "receive"]
    BY <2>1 DEF Start
  <2>5. Idle.left > 0
    BY PeekAssumption DEF Idle
  <2>6. Fit(peek')
    BY <2>3, <2>4, <2>5, IdleType DEF Peeking
  <2> QED BY <1>2, <2>2, <2>6
<1>4. CASE DescribeStream
  <2>1. /\ UNCHANGED streamVars /\ peek' = [peek EXCEPT !.pc = "iterator"]
        /\ type = "kinesis" /\ peek.left > 0
    BY <1>4 DEF DescribeStream, TypeInv, CallsFit, At
  <2>2. Fit(peek')
    BY <1>1, <2>1 DEF Peeking
  <2> QED BY <1>2, <2>1, <2>2
<1>5. CASE GetShardIterator
  <2>1. /\ UNCHANGED streamVars /\ peek' = [peek EXCEPT !.pc = "read", !.next = oldest]
        /\ type = "kinesis" /\ peek.left > 0
    BY <1>5 DEF GetShardIterator, TypeInv, CallsFit, At
  <2>2. oldest \in Nat
    BY <1>1
  <2>3. Fit(peek')
    BY <1>1, <2>1, <2>2 DEF Peeking
  <2> QED BY <1>2, <2>1, <2>3
<1>6. CASE GetRecords
  <2>1. UNCHANGED streamVars /\ type = "kinesis" /\ peek.left > 0
    BY <1>6 DEF GetRecords, TypeInv, CallsFit, At
  <2>2. PICK n \in 0..PageSize :
          LET from == Larger(peek.next, oldest)
              all == peek.events \o EventsOf(from..(from + n - 1))
          IN /\ from + n <= newest + 1
             /\ peek' \in Peeking
             /\ peek'.limit = peek.limit
             /\ peek'.next = from + n
             /\ peek'.left = peek.left - 1
             /\ peek'.seen = Shard
             /\ \/ /\ from + n <= newest /\ peek.left > 1
                   /\ peek'.pc = "read" /\ peek'.events = all
                \/ /\ from + n > newest \/ peek.left <= 1
                   /\ peek'.pc = "answer" /\ peek'.events = LastOf(all, peek.limit)
    BY <1>6, PageStep
  <2> DEFINE all == peek.events \o EventsOf(Larger(peek.next, oldest)..(Larger(peek.next, oldest) + n - 1))
  <2>3. all \in Seq(Events)
    BY <2>2, PageFacts
  <2>4. /\ peek' \in Peeking /\ peek'.limit = peek.limit /\ peek'.left = peek.left - 1
        /\ \/ peek'.pc = "read" /\ peek.left > 1
           \/ peek'.pc = "answer" /\ peek'.events = LastOf(all, peek.limit)
    BY <2>2
  <2> HIDE DEF all
  <2>5. Len(LastOf(all, peek.limit)) <= peek.limit
    BY <1>1, <2>3, LastOfFacts, LenProperties
  <2>6. peek.left \in Nat
    BY <1>1 DEF Peeking
  <2>7. Fit(peek')
    BY <2>1, <2>4, <2>5, <2>6
  <2> QED BY <1>2, <2>1, <2>7
<1>7. CASE ReceiveMessage
  <2>1. PICK got \in SUBSET Visible :
          /\ peek' = [peek EXCEPT !.pc = "answer",
                        !.events = LastOf(EventsOf(got), peek.limit)]
          /\ LeaveVisible(got)
    BY <1>7 DEF ReceiveMessage
  <2>2. UNCHANGED streamVars
    BY <1>7, <2>1 DEF ReceiveMessage, LeaveVisible, streamVars
  <2> DEFINE s == EventsOf(got)
  <2>3. s \in Seq(Events)
    <3> got \in SUBSET Records
      BY DEF TypeInv, TypeOK, Visible
    <3> QED BY EventsFacts
  <2>4. LastOf(s, peek.limit) \in Seq(Events) /\ Len(LastOf(s, peek.limit)) <= peek.limit
    <3> HIDE DEF s
    <3> QED BY <1>1, <2>3, LastOfFacts, LenProperties
  <2> DEFINE t == LastOf(s, peek.limit)
  <2>5. peek' = [peek EXCEPT !.pc = "answer", !.events = t]
    BY <2>1
  <2> HIDE DEF t
  <2>6. peek' \in Peeking /\ peek'.pc = "answer" /\ peek'.events = t /\ peek'.limit = peek.limit
    BY <1>1, <2>4, <2>5 DEF Peeking, t
  <2>7. Fit(peek')
    BY <2>4, <2>6 DEF t
  <2> QED BY <1>2, <2>2, <2>7
<1>8. CASE Return
  <2>1. UNCHANGED streamVars /\ peek' = Idle /\ Idle.pc = "idle"
    BY <1>8 DEF Return, Idle
  <2>2. Fit(peek')
    BY <2>1, IdleType
  <2> QED BY <1>2, <2>1, <2>2
<1>9. CASE Fails
  <2>1. UNCHANGED streamVars /\ peek' = [Idle EXCEPT !.pc = "failed"]
    BY <1>9 DEF Fails
  <2>2. Fit(peek')
    BY <2>1, IdleType DEF Peeking
  <2> QED BY <1>2, <2>1, <2>2
\* A step of the stream leaves the peek alone, and its type.
<1> DEFINE Stream ==
             /\ gone \in BOOLEAN
             /\ oldest \in 1..(MaxRecords + 1) /\ newest \in 0..MaxRecords
             /\ queue \subseteq Records
             /\ hidden \subseteq queue \X {"consumer"}
<1>10. ASSUME UNCHANGED <<type, peek>>, Stream' PROVE TypeInv'
  BY <1>10 DEF TypeInv, TypeOK, CallsFit, At
<1>11. Stream
  BY DEF TypeInv, TypeOK, CallsFit
<1>12. CASE Write
  <2>1. newest < MaxRecords /\ newest' = newest + 1 /\ UNCHANGED <<type, gone, oldest, hidden, peek>>
        /\ queue' = IF type = "sqs" THEN queue \cup {newest + 1} ELSE queue
    BY <1>12 DEF Write
  <2>2. newest + 1 \in Records /\ newest + 1 \in 0..MaxRecords
    BY <1>1, <2>1 DEF Records
  <2>3. Stream'
    BY <1>11, <2>1, <2>2
  <2> QED BY <1>10, <2>1, <2>3
<1>13. CASE Trim
  <2>1. oldest <= newest /\ oldest' = oldest + 1 /\ UNCHANGED <<type, gone, newest, queue, hidden, peek>>
    BY <1>13 DEF Trim
  <2>2. oldest + 1 \in 1..(MaxRecords + 1)
    BY <1>1, <2>1
  <2>3. Stream'
    BY <1>11, <2>1, <2>2
  <2> QED BY <1>10, <2>1, <2>3
<1>14. CASE DeleteStream
  <2>1. Stream' /\ UNCHANGED <<type, peek>>
    BY <1>11, <1>14 DEF DeleteStream
  <2> QED BY <1>10, <2>1
<1>15. CASE \E m \in Records : Consume(m) \/ Delete(m) \/ Reappear(m)
  <2>1. PICK m \in Records : Consume(m) \/ Delete(m) \/ Reappear(m)
    BY <1>15
  <2>2. CASE Consume(m)
    <3>1. m \in queue /\ hidden' = hidden \cup {<<m, "consumer">>}
          /\ UNCHANGED <<type, gone, oldest, newest, queue, peek>>
      BY <2>2 DEF Consume, Visible
    <3>2. Stream'
      BY <1>11, <3>1
    <3> QED BY <1>10, <3>1, <3>2
  <2>3. CASE Delete(m)
    <3>1. queue' = queue \ {m} /\ hidden' = hidden \ {<<m, "consumer">>}
          /\ UNCHANGED <<type, gone, oldest, newest, peek>>
      BY <2>3 DEF Delete
    <3>2. hidden' \subseteq queue' \X {"consumer"}
      BY <1>11, <3>1
    <3>3. Stream'
      BY <1>11, <3>1, <3>2
    <3> QED BY <1>10, <3>1, <3>3
  <2>4. CASE Reappear(m)
    <3>1. hidden' \subseteq hidden
          /\ UNCHANGED <<type, gone, oldest, newest, queue, peek>>
      BY <2>4 DEF Reappear
    <3>2. Stream'
      BY <1>11, <3>1
    <3> QED BY <1>10, <3>1, <3>2
  <2> QED BY <2>1, <2>2, <2>3, <2>4
<1>16. CASE UNCHANGED vars
  BY <1>10, <1>11, <1>16 DEF vars
<1> QED
  BY <1>3, <1>4, <1>5, <1>6, <1>7, <1>8, <1>9, <1>12, <1>13, <1>14, <1>15, <1>16
     DEF Next, Step

\* The calls of a peek, what it has gathered and what the stream holds are always
\* of their types, and no answer has more events than the caller asked for.
THEOREM TypeCorrect == Spec => []TypeOK
<1>1. Spec => []TypeInv
  BY InitType, TypeStep, PTL DEF Spec
<1> QED BY <1>1, PTL DEF TypeInv

-----------------------------------------------------------------------------
(* What a peek has read *)

ShardInv == oldest <= newest + 1

\* Read and Answer are inductive together, and with ShardInv.
ShownInv == ShardInv /\ ReadInv /\ AnswerInv

\* ShownInv holds at first.
LEMMA InitShown == Init => ShownInv
BY DEF Init, Idle, At, ShownInv, ShardInv, ReadInv, AnswerInv

\* The steps of the stream, and those that begin or end a peek.
LEMMA ShownKept ==
    ASSUME TypeInv, ShownInv, TypeInv', ShardInv', oldest <= oldest', newest <= newest',
           \/ UNCHANGED <<type, peek>>
           \/ /\ peek'.pc \notin {"read", "answer"}
              /\ peek'.pc \in {"describe", "iterator"} => peek'.events = <<>>
           \/ peek'.pc = "answer" /\ type' # "kinesis"
    PROVE  ShownInv'
<1>1. CASE /\ peek'.pc \notin {"read", "answer"}
           /\ peek'.pc \in {"describe", "iterator"} => peek'.events = <<>>
  BY <1>1 DEF ShownInv, ReadInv, AnswerInv, At
<1>2. CASE peek'.pc = "answer" /\ type' # "kinesis"
  BY <1>2 DEF ShownInv, ReadInv, AnswerInv, At
<1>3. CASE UNCHANGED <<type, peek>>
  <2>1. ASSUME NEW R \in SUBSET Records, HasRead(R) PROVE HasRead(R)'
    <3>1. /\ oldest \in Nat /\ newest \in Nat /\ oldest' \in Nat /\ newest' \in Nat
          /\ peek.next \in Nat
      BY PeekAssumption DEF TypeInv, TypeOK, Peeking
    <3>2. peek' = peek
      BY <1>3
    <3>3. peek.next <= newest' + 1
      BY <2>1, <3>1 DEF HasRead
    <3>4. \A r \in R : r < peek.next
      BY <2>1 DEF HasRead
    <3>5. ASSUME NEW r \in oldest'..newest', r < peek.next PROVE r \in R
      <4>1. r \in Shard
        BY <2>1, <3>1, <3>5 DEF Shard, HasRead
      <4> QED BY <2>1, <3>5, <4>1 DEF HasRead
    <3> QED BY <3>2, <3>3, <3>4, <3>5 DEF HasRead, Shard
  <2>2. ReadInv'
    BY <1>3, <2>1 DEF ShownInv, ReadInv, At
  <2>3. AnswerInv'
    BY <1>3, <2>1 DEF ShownInv, AnswerInv, At
  <2> QED BY <2>2, <2>3 DEF ShownInv
<1> QED BY <1>1, <1>2, <1>3

\* No records, no events.
LEMMA NothingYet == EventsOf({}) = <<>>
<1>1. EventsOf({}) \in Seq(Events) /\ Elems(EventsOf({})) = {}
  BY EventsFacts
<1> DEFINE s == EventsOf({})
<1>2. s \in Seq(Events) /\ ~\E i \in DOMAIN s : TRUE
  BY <1>1 DEF Elems
<1> HIDE DEF s
<1>3. s = <<>>
  <2> SUFFICES ASSUME s # <<>> PROVE FALSE
    OBVIOUS
  <2>1. Len(s) \in Nat \ {0} /\ DOMAIN s = 1..Len(s)
    BY <1>2, EmptySeq, LenProperties
  <2>2. 1 \in DOMAIN s
    BY <2>1
  <2> QED BY <1>2, <2>2
<1> QED BY <1>3 DEF s

\* Every step keeps ShownInv.
LEMMA ShownStep == TypeInv /\ TypeInv' /\ ShownInv /\ [Next]_vars => ShownInv'
<1> SUFFICES ASSUME TypeInv, TypeInv', ShownInv, [Next]_vars PROVE ShownInv'
  OBVIOUS
<1>1. /\ oldest \in Nat \ {0} /\ newest \in Nat /\ newest <= MaxRecords /\ MaxRecords \in Nat
      /\ peek \in Peeking /\ peek.next \in Nat /\ peek.limit \in Nat \ {0}
      /\ oldest <= newest + 1
  <2>1. /\ oldest \in 1..(MaxRecords + 1) /\ newest \in 0..MaxRecords
        /\ peek \in Peeking /\ peek.next \in Nat /\ peek.limit \in Limits
    BY DEF TypeInv, TypeOK, Peeking
  <2>2. MaxRecords \in Nat /\ Limits \subseteq Nat \ {0}
    BY PeekAssumption
  <2>3. oldest <= newest + 1
    BY DEF ShownInv, ShardInv
  <2>4. oldest \in Nat \ {0} /\ newest \in Nat /\ newest <= MaxRecords
    BY <2>1, <2>2
  <2>5. peek.limit \in Nat \ {0}
    BY <2>1, <2>2
  <2> QED BY <2>1, <2>2, <2>3, <2>4, <2>5
\* A step of the peek that neither reads nor answers.
<1>2. ASSUME UNCHANGED streamVars, peek'.pc \notin {"read", "answer"},
             peek'.pc \in {"describe", "iterator"} => peek'.events = <<>>
      PROVE  ShownInv'
  <2>1. ShardInv' /\ oldest <= oldest' /\ newest <= newest'
    BY <1>1, <1>2 DEF streamVars, ShardInv
  <2> QED BY <1>2, <2>1, ShownKept
<1>3. CASE \E n \in Limits : Start(n)
  <2>1. PICK n \in Limits : Start(n)
    BY <1>3
  <2>2. UNCHANGED streamVars
        /\ peek' = [Idle EXCEPT !.limit = n,
                      !.pc = IF type = "kinesis" THEN "describe" ELSE "receive"]
    BY <2>1 DEF Start
  <2>3. peek'.pc \notin {"read", "answer"} /\ peek'.events = <<>>
    BY <2>2 DEF Idle
  <2> QED BY <1>2, <2>2, <2>3
<1>4. CASE DescribeStream
  <2>1. UNCHANGED streamVars /\ peek' = [peek EXCEPT !.pc = "iterator"]
    BY <1>4 DEF DescribeStream
  <2>2. peek.events = <<>>
    BY <1>4 DEF DescribeStream, At, ShownInv, ReadInv
  <2>3. peek'.pc = "iterator" /\ peek'.events = <<>>
    BY <1>1, <2>1, <2>2 DEF Peeking
  <2> QED BY <1>2, <2>1, <2>3
<1>5. CASE GetShardIterator
  <2>1. UNCHANGED streamVars /\ peek' = [peek EXCEPT !.pc = "read", !.next = oldest]
        /\ oldest' = oldest /\ newest' = newest
    BY <1>5 DEF GetShardIterator, streamVars
  <2>2. peek'.pc = "read" /\ peek'.next = oldest /\ peek'.events = peek.events
    BY <1>1, <2>1 DEF Peeking
  <2>3. peek.events = <<>>
    BY <1>5 DEF GetShardIterator, At, ShownInv, ReadInv
  <2>4. ASSUME NEW R, R = {} PROVE HasRead(R)'
    BY <1>1, <2>1, <2>2, <2>4 DEF HasRead, Shard
  <2>5. ReadInv'
    BY <2>2, <2>3, <2>4, NothingYet DEF ReadInv, At
  <2>6. AnswerInv' /\ ShardInv'
    BY <1>1, <2>1, <2>2 DEF AnswerInv, At, ShardInv
  <2> QED BY <2>5, <2>6 DEF ShownInv
<1>6. CASE GetRecords
  <2>1. PICK n \in 0..PageSize :
          LET from == Larger(peek.next, oldest)
              all == peek.events \o EventsOf(from..(from + n - 1))
          IN /\ from + n <= newest + 1
             /\ peek' \in Peeking
             /\ peek'.limit = peek.limit
             /\ peek'.next = from + n
             /\ peek'.left = peek.left - 1
             /\ peek'.seen = Shard
             /\ \/ /\ from + n <= newest /\ peek.left > 1
                   /\ peek'.pc = "read" /\ peek'.events = all
                \/ /\ from + n > newest \/ peek.left <= 1
                   /\ peek'.pc = "answer" /\ peek'.events = LastOf(all, peek.limit)
    BY <1>6, PageStep
  <2> DEFINE from == Larger(peek.next, oldest)
             page == from..(from + n - 1)
             all == peek.events \o EventsOf(page)
  <2>2. oldest' = oldest /\ newest' = newest
    BY <1>6 DEF GetRecords, streamVars
  <2>3. PICK R \in SUBSET Records : HasRead(R) /\ peek.events = EventsOf(R)
    BY <1>6 DEF GetRecords, ShownInv, ReadInv
  <2>4. /\ from \in Nat \ {0} /\ peek.next <= from /\ oldest <= from
        /\ from = peek.next \/ from = oldest
        /\ from + n \in Nat
        /\ page \in SUBSET Records
    BY <2>1, PageFacts
  <2>5. n \in Nat
    BY PeekAssumption
  <2> DEFINE Q == R \cup page
  <2>6. all = EventsOf(Q)
    <3>1. \A r \in R, x \in page : r < x
      BY <1>1, <2>3, <2>4, <2>5 DEF HasRead, Records
    <3> HIDE DEF page
    <3>2. EventsOf(R \cup page) = EventsOf(R) \o EventsOf(page)
      BY <2>4, <3>1, EventsSplit
    <3> QED BY <2>3, <3>2
  <2>7. /\ from + n <= newest + 1
        /\ peek'.limit = peek.limit /\ peek'.next = from + n /\ peek'.left = peek.left - 1
        /\ peek'.seen = Shard
        /\ \/ /\ from + n <= newest /\ peek.left > 1
              /\ peek'.pc = "read" /\ peek'.events = all
           \/ /\ from + n > newest \/ peek.left <= 1
              /\ peek'.pc = "answer" /\ peek'.events = LastOf(all, peek.limit)
    BY <2>1
  <2> HIDE DEF from
  <2>8. Q \in SUBSET Records
    BY <2>3, <2>4
  <2> HIDE DEF all
  <2>9. \A r \in Q : r \in Nat /\ r < from + n
    BY <1>1, <2>3, <2>4, <2>5 DEF HasRead, Records
  <2>10. ASSUME NEW r \in oldest..newest, r < from + n PROVE r \in Q
    <3>1. CASE r >= from
      BY <1>1, <2>4, <2>5, <2>10, <3>1
    <3>2. CASE ~(r >= from)
      <4>1. r < peek.next /\ r \in Shard
        BY <1>1, <2>4, <2>10, <3>2 DEF Shard
      <4> QED BY <2>3, <4>1 DEF HasRead
    <3> QED BY <3>1, <3>2
  <2> HIDE DEF Q
  <2>11. ASSUME NEW C, C = Q PROVE HasRead(C)'
    BY <2>2, <2>7, <2>9, <2>10, <2>11 DEF HasRead, Shard
  <2>12. peek'.left > 0 /\ peek'.pc = "answer" =>
           /\ peek'.seen \subseteq Q
           /\ \A r \in Q \ peek'.seen, x \in peek'.seen : r < x
    <3> SUFFICES ASSUME peek'.left > 0, peek'.pc = "answer"
                 PROVE  /\ peek'.seen \subseteq Q
                        /\ \A r \in Q \ peek'.seen, x \in peek'.seen : r < x
      OBVIOUS
    <3>1. peek.left \in Nat
      BY <1>1, PeekAssumption DEF Peeking
    <3>2. from + n = newest + 1
      BY <1>1, <2>4, <2>7, <3>1
    <3>3. peek'.seen = oldest..newest
      BY <2>7 DEF Shard
    <3>4. \A x \in oldest..newest : x < from + n
      BY <1>1, <3>2
    <3>5. \A r \in Q : r < oldest \/ r \in oldest..newest
      BY <1>1, <2>9, <3>2
    <3>6. \A r \in Q \ (oldest..newest), x \in oldest..newest : r < x
      BY <1>1, <2>9, <3>5
    <3> QED BY <2>10, <3>3, <3>4, <3>6
  <2>13. ReadInv'
    BY <2>6, <2>7, <2>8, <2>11 DEF ReadInv, At
  <2>14. AnswerInv'
    BY <2>6, <2>7, <2>8, <2>11, <2>12 DEF AnswerInv, At
  <2>15. ShardInv'
    BY <1>1, <2>2 DEF ShardInv
  <2> QED BY <2>13, <2>14, <2>15 DEF ShownInv
<1>7. CASE ReceiveMessage
  <2>1. UNCHANGED streamVars /\ type = "sqs"
    BY <1>7 DEF ReceiveMessage, LeaveVisible, streamVars, TypeInv, CallsFit
  <2>2. peek'.pc = "answer"
    BY <1>1, <1>7 DEF ReceiveMessage, Peeking
  <2>3. /\ ShardInv' /\ oldest <= oldest' /\ newest <= newest' /\ type' # "kinesis"
    BY <1>1, <2>1 DEF streamVars, ShardInv
  <2> QED BY <2>2, <2>3, ShownKept
<1>8. CASE Return
  BY <1>2, <1>8 DEF Return, Idle
<1>9. CASE Fails
  BY <1>2, <1>9 DEF Fails, Idle
\* A step of the stream.
<1>10. ASSUME UNCHANGED <<type, peek>>, ShardInv', oldest <= oldest', newest <= newest'
       PROVE  ShownInv'
  BY <1>10, ShownKept
<1>11. CASE Write
  BY <1>1, <1>10, <1>11 DEF Write, ShardInv
<1>12. CASE Trim
  BY <1>1, <1>10, <1>12 DEF Trim, ShardInv
<1>13. CASE DeleteStream
  BY <1>1, <1>10, <1>13 DEF DeleteStream, ShardInv
<1>14. CASE \E m \in Records : Consume(m) \/ Delete(m) \/ Reappear(m)
  BY <1>1, <1>10, <1>14 DEF Consume, Delete, Reappear, ShardInv
<1>15. CASE UNCHANGED vars
  BY <1>1, <1>10, <1>15 DEF vars, ShardInv
<1> QED
  BY <1>3, <1>4, <1>5, <1>6, <1>7, <1>8, <1>9, <1>11, <1>12, <1>13, <1>14, <1>15
     DEF Next, Step

\* What the answer shows, when the peek has pages left: the latest events that the
\* shard held at its last call.
LEMMA ShowsLatest == TypeInv /\ ShownInv => LatestShown
<1> SUFFICES ASSUME TypeInv, ShownInv, At("answer"), type = "kinesis", peek.left > 0
             PROVE  Suffix(LastOf(EventsOf(peek.seen), peek.limit), peek.events)
  BY DEF LatestShown
<1>1. peek.limit \in Nat \ {0} /\ peek.seen \in SUBSET Records
  BY PeekAssumption DEF TypeInv, TypeOK, Peeking
<1>2. PICK R \in SUBSET Records :
        /\ peek.events = LastOf(EventsOf(R), peek.limit)
        /\ peek.seen \subseteq R
        /\ \A r \in R \ peek.seen, x \in peek.seen : r < x
  BY DEF ShownInv, AnswerInv
<1> DEFINE Older == R \ peek.seen
<1>3. Older \in SUBSET Records /\ R = Older \cup peek.seen
  BY <1>2
<1>4. \A r \in Older, x \in peek.seen : r < x
  BY <1>2
<1> HIDE DEF Older
<1>5. EventsOf(Older \cup peek.seen) = EventsOf(Older) \o EventsOf(peek.seen)
  BY <1>1, <1>3, <1>4, EventsSplit
<1>6. EventsOf(Older) \in Seq(Events) /\ EventsOf(peek.seen) \in Seq(Events)
  BY <1>1, <1>3, EventsFacts
<1>7. Suffix(LastOf(EventsOf(peek.seen), peek.limit),
             LastOf(EventsOf(Older) \o EventsOf(peek.seen), peek.limit))
  BY <1>1, <1>6, SuffixOfConcat
<1> QED BY <1>2, <1>3, <1>5, <1>7

\* An event of record r, and only of that.
LEMMA ItsRecord ==
    ASSUME NEW r \in Nat, NEW e \in Elems(DecodeEvents(r))
    PROVE  e \in {r} \X Nat
<1>1. DecodeEvents(r) \in Seq({r} \X Nat)
  BY DecodeFacts
<1>2. PICK i \in DOMAIN DecodeEvents(r) : e = DecodeEvents(r)[i]
  BY DEF Elems
<1> QED BY <1>1, <1>2, LenProperties, ElementOfSeq

\* What the answer shows is in order, and misses nothing in between.
LEMMA ShowsNoGaps == TypeInv /\ ShownInv => NoGaps
<1> SUFFICES ASSUME TypeInv, ShownInv, At("answer"), type = "kinesis"
             PROVE  /\ \A i, j \in DOMAIN peek.events :
                         i < j => Before(peek.events[i], peek.events[j])
                    /\ \A r \in Shard : \A i \in DOMAIN DecodeEvents(r) :
                         LET e == DecodeEvents(r)[i]
                         IN (\E d, f \in Shown : Before(d, e) /\ Before(e, f)) => e \in Shown
  BY DEF NoGaps
<1>1. peek.limit \in Nat \ {0}
  BY PeekAssumption DEF TypeInv, TypeOK, Peeking
<1>2. PICK R \in SUBSET Records :
        HasRead(R) /\ peek.events = LastOf(EventsOf(R), peek.limit)
  BY DEF ShownInv, AnswerInv
<1> DEFINE s == EventsOf(R)
           t == LastOf(s, peek.limit)
<1>3. /\ s \in Seq(Events) /\ InOrder(s)
      /\ \A e : e \in Elems(s) <=> \E r \in R : e \in Elems(DecodeEvents(r))
  BY EventsFacts
<1> HIDE DEF s
<1>4. /\ t \in Seq(Events)
      /\ Len(t) = IF Len(s) <= peek.limit THEN Len(s) ELSE peek.limit
      /\ \A i \in 1..Len(t) : t[i] = s[Len(s) - Len(t) + i]
  <2> s \in Seq(Events)
    BY <1>3
  <2> QED BY <1>1, LastOfFacts
<1>5. peek.events = t
  BY <1>2 DEF s
<1> HIDE DEF t
<1>6. /\ DOMAIN s = 1..Len(s) /\ DOMAIN t = 1..Len(t)
      /\ Len(s) \in Nat /\ Len(t) \in Nat /\ Len(t) <= Len(s)
  BY <1>1, <1>3, <1>4, LenProperties
<1>7. \A i \in 1..Len(s) : s[i] \in Nat \X Nat
  BY <1>3, ElementOfSeq DEF Events, Records
<1>8. \A i, j \in DOMAIN t : i < j => Before(t[i], t[j])
  <2> SUFFICES ASSUME NEW i \in DOMAIN t, NEW j \in DOMAIN t, i < j PROVE Before(t[i], t[j])
    OBVIOUS
  <2> DEFINE k == Len(s) - Len(t) + i
             l == Len(s) - Len(t) + j
  <2>1. k \in DOMAIN s /\ l \in DOMAIN s /\ k < l
    BY <1>6
  <2>2. t[i] = s[k] /\ t[j] = s[l]
    BY <1>4, <1>6
  <2> HIDE DEF k, l
  <2> QED BY <1>3, <2>1, <2>2 DEF InOrder
<1>9. ASSUME NEW r \in Shard, NEW e \in Elems(DecodeEvents(r)),
             NEW d \in Elems(t), NEW f \in Elems(t), Before(d, e), Before(e, f)
      PROVE  e \in Elems(t)
  <2>1. r \in Nat
    BY DEF Shard, TypeInv, TypeOK
  <2>2. e[1] = r /\ e \in Nat \X Nat
    BY <2>1, ItsRecord
  <2>3. PICK i \in DOMAIN t : d = t[i]
    BY DEF Elems
  <2>4. PICK j \in DOMAIN t : f = t[j]
    BY DEF Elems
  <2> DEFINE k == Len(s) - Len(t) + i
             l == Len(s) - Len(t) + j
  <2>5. k \in 1..Len(s) /\ l \in 1..Len(s) /\ d = s[k] /\ f = s[l]
    BY <1>4, <1>6, <2>3, <2>4
  <2>6. PICK x \in R : f \in Elems(DecodeEvents(x))
    <3> HIDE DEF l
    <3>1. f \in Elems(s)
      BY <1>6, <2>5 DEF Elems
    <3> QED BY <1>3, <3>1
  <2>7. x \in Nat /\ f[1] = x
    <3>1. x \in Nat
      BY DEF Records
    <3> QED BY <2>6, <3>1, ItsRecord
  <2>8. r <= x
    BY <1>9, <2>1, <2>2, <2>7 DEF Before
  <2>9. r < peek.next
    <3>1. x < peek.next /\ peek.next \in Nat
      BY <1>2 DEF HasRead, TypeInv, TypeOK, Peeking
    <3> QED BY <2>1, <2>7, <2>8, <3>1
  <2>10. r \in R
    BY <1>2, <2>9 DEF HasRead
  <2>11. PICK m \in 1..Len(s) : e = s[m]
    <3>1. e \in Elems(s)
      BY <1>3, <2>10
    <3> QED BY <1>6, <3>1 DEF Elems
  <2>12. m > k
    <3> SUFFICES ASSUME ~(m > k) PROVE FALSE
      OBVIOUS
    <3>1. d \in Nat \X Nat
      BY <1>7, <2>5
    <3>2. ~Before(e, d) /\ e # d
      BY <1>9, <2>2, <3>1 DEF Before
    <3> HIDE DEF k
    <3>3. m = k \/ m < k
      BY <2>5
    <3>4. CASE m = k
      BY <2>5, <2>11, <3>2, <3>4
    <3>5. CASE m < k
      BY <1>3, <1>6, <2>5, <2>11, <3>2, <3>5 DEF InOrder
    <3> QED BY <3>3, <3>4, <3>5
  <2> DEFINE o == m - (Len(s) - Len(t))
  <2>13. o \in 1..Len(t) /\ Len(s) - Len(t) + o = m
    BY <1>6, <2>3, <2>12
  <2> HIDE DEF o
  <2>14. t[o] = e
    BY <1>4, <2>11, <2>13
  <2> QED BY <1>6, <2>13, <2>14 DEF Elems
<1>10. Shown = Elems(t)
  BY <1>5 DEF Shown, Elems
<1>11. \A r \in Shard : \A i \in DOMAIN DecodeEvents(r) :
         DecodeEvents(r)[i] \in Elems(DecodeEvents(r))
  BY DEF Elems
<1> QED BY <1>5, <1>8, <1>9, <1>10, <1>11

\* The invariant of Peek.
LEMMA AlwaysShown == Spec => [](TypeInv /\ ShownInv)
<1>1. TypeInv /\ ShownInv /\ [Next]_vars => (TypeInv /\ ShownInv)'
  BY TypeStep, ShownStep
<1> QED BY InitType, InitShown, <1>1, PTL DEF Spec

\* A Kinesis peek that stops before its last page ends with the latest events that
\* the shard held at its last call, for any bodies, page sizes and limits.
THEOREM LatestShownHolds == Spec => []LatestShown
BY AlwaysShown, ShowsLatest, PTL

\* Whatever pages it got, a Kinesis peek shows events in their order, none twice,
\* and between two of them none is missing that the shard still holds.
THEOREM NoGapsHolds == Spec => []NoGaps
BY AlwaysShown, ShowsNoGaps, PTL
=============================================================================
