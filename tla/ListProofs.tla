----------------------------- MODULE ListProofs -----------------------------
(* Facts about numbers, about sequences with one element more or less, and  *)
(* about the folds of the community modules, which the proofs of several    *)
(* components cite.  The operator that is folded is a constant: a module     *)
(* that cites facts about folds instantiates this one for each of its        *)
(* operators, whose first argument is the same in all steps.                *)
EXTENDS Integers, Sequences, SequencesExt, SequenceTheorems, WellFoundedInduction, TLAPS

CONSTANT op(_, _, _)  \* the operator of a fold

-----------------------------------------------------------------------------
(* Numbers.                                                                 *)

\* Every non-empty set of natural numbers has a least element: induction is
\* done with the least counterexample.
LEMMA LeastNumber ==
  ASSUME NEW T \in SUBSET Nat, T # {}
  PROVE  \E m \in T : \A n \in T : m <= n
<1>1. PICK m \in T : \A n \in T : <<n, m>> \notin OpToRel(<, Nat)
  BY NatLessThanWellFounded, WFMin
<1>2. \A n \in T : ~(n < m)
  BY <1>1 DEF OpToRel
<1>3. QED
  BY <1>2

\* What holds of 0, and of k + 1 when it holds of k, holds up to n.
LEMMA UpTo ==
  ASSUME NEW n \in Nat, NEW T, 0 \in T, \A k \in 0 .. n - 1 : k \in T => k + 1 \in T
  PROVE  n \in T
<1> DEFINE Bad == {k \in 0 .. n : k \notin T}
<1>1. SUFFICES ASSUME Bad # {} PROVE FALSE
  OBVIOUS
<1>2. PICK m \in Bad : \A k \in Bad : m <= k
  <2>1. Bad \in SUBSET Nat
    OBVIOUS
  <2> HIDE DEF Bad
  <2>2. QED
    BY <1>1, <2>1, LeastNumber
<1>3. m \in 1 .. n /\ m \notin T
  BY <1>2
<1>4. m - 1 \in 0 .. n - 1 /\ m - 1 \notin Bad
  BY <1>2, <1>3
<1>5. m - 1 \in T
  BY <1>4
<1>6. (m - 1) + 1 = m
  BY <1>3
<1>7. QED
  BY <1>3, <1>4, <1>5, <1>6

-----------------------------------------------------------------------------
(* Sequences with one element more or less.                                *)

\* InsertAt moves everything from position i on by one.
LEMMA InsertAtShape ==
  ASSUME NEW S, NEW s \in Seq(S), NEW e \in S, NEW i \in 1 .. Len(s) + 1
  PROVE  /\ InsertAt(s, i, e) \in Seq(S)
         /\ Len(InsertAt(s, i, e)) = Len(s) + 1
         /\ \A j \in 1 .. Len(s) + 1 :
              InsertAt(s, i, e)[j] = IF j < i THEN s[j] ELSE IF j = i THEN e ELSE s[j - 1]
<1> DEFINE head == SubSeq(s, 1, i - 1)
           tail == SubSeq(s, i, Len(s))
<1>1. head \in Seq(S) /\ Len(head) = i - 1 /\ \A j \in 1 .. i - 1 : head[j] = s[j]
  BY SubSeqProperties
<1>2. tail \in Seq(S) /\ Len(tail) = Len(s) - i + 1
      /\ \A j \in 1 .. Len(s) - i + 1 : tail[j] = s[i + j - 1]
  BY SubSeqProperties
<1>3. <<e>> \in Seq(S) /\ Len(<<e>>) = 1 /\ <<e>>[1] = e
  OBVIOUS
<1>4. head \o <<e>> \in Seq(S) /\ Len(head \o <<e>>) = i
      /\ \A j \in 1 .. i : (head \o <<e>>)[j] = IF j < i THEN s[j] ELSE e
  BY <1>1, <1>3, ConcatProperties
<1> HIDE DEF head, tail
<1>5. InsertAt(s, i, e) = (head \o <<e>>) \o tail
  BY DEF InsertAt, head, tail
<1>6. QED
  BY <1>2, <1>4, <1>5, ConcatProperties, SMTT(30)

\* RemoveAt moves everything behind position i back by one.
LEMMA RemoveAtShape ==
  ASSUME NEW S, NEW s \in Seq(S), NEW i \in 1 .. Len(s)
  PROVE  /\ RemoveAt(s, i) \in Seq(S)
         /\ Len(RemoveAt(s, i)) = Len(s) - 1
         /\ \A j \in 1 .. Len(s) - 1 : RemoveAt(s, i)[j] = IF j < i THEN s[j] ELSE s[j + 1]
<1> Len(s) \in Nat
  BY LenProperties
<1> DEFINE head == SubSeq(s, 1, i - 1)
           tail == SubSeq(s, i + 1, Len(s))
<1>1. head \in Seq(S) /\ Len(head) = i - 1 /\ \A j \in 1 .. i - 1 : head[j] = s[j]
  BY SubSeqProperties
<1>2. tail \in Seq(S) /\ Len(tail) = Len(s) - i
      /\ \A j \in 1 .. Len(s) - i : tail[j] = s[i + j]
  BY SubSeqProperties
<1> HIDE DEF head, tail
<1>3. RemoveAt(s, i) = head \o tail
  BY DEF RemoveAt, head, tail
<1>4. /\ RemoveAt(s, i) \in Seq(S)
      /\ Len(RemoveAt(s, i)) = Len(head) + Len(tail)
      /\ \A j \in 1 .. Len(head) + Len(tail) :
           RemoveAt(s, i)[j] = IF j <= Len(head) THEN head[j] ELSE tail[j - Len(head)]
  BY <1>1, <1>2, <1>3, ConcatProperties
<1>5. ASSUME NEW j \in 1 .. Len(s) - 1
      PROVE  RemoveAt(s, i)[j] = IF j < i THEN s[j] ELSE s[j + 1]
  <2>1. CASE j < i
    <3>1. j \in 1 .. i - 1 /\ j <= Len(head) /\ j \in 1 .. Len(head) + Len(tail)
      BY <2>1, <1>1, <1>2
    <3>2. RemoveAt(s, i)[j] = head[j] /\ head[j] = s[j]
      BY <3>1, <1>1, <1>4
    <3>3. QED
      BY <2>1, <3>2
  <2>2. CASE j >= i
    <3> DEFINE k == j - (i - 1)
    <3>1. k \in 1 .. Len(s) - i /\ i + k = j + 1
      BY <2>2
    <3>2. j \in 1 .. Len(head) + Len(tail) /\ ~(j <= Len(head)) /\ j - Len(head) = k
      BY <2>2, <1>1, <1>2
    <3>3. RemoveAt(s, i)[j] = tail[k]
      BY <3>2, <1>4
    <3>4. QED
      BY <2>2, <3>1, <3>3, <1>2
  <2>3. QED
    BY <2>1, <2>2
<1>6. QED
  BY <1>1, <1>2, <1>4, <1>5

\* A list without repetitions, less one element, has the others, each once.
LEMMA ListRemoved ==
  ASSUME NEW S, NEW list \in Seq(S), IsInjective(list), NEW w \in ToSet(list)
  PROVE  /\ RemoveFirst(list, w) \in Seq(S) /\ IsInjective(RemoveFirst(list, w))
         /\ ToSet(RemoveFirst(list, w)) = ToSet(list) \ {w} /\ Len(RemoveFirst(list, w)) = Len(list) - 1
<1> DEFINE u == RemoveFirst(list, w)
           n == Len(list)
<1>0. n \in Nat /\ DOMAIN list = 1 .. n /\ \A i \in 1 .. n : list[i] \in S
  BY LenProperties, ElementOfSeq
<1>1. PICK i \in 1 .. n : list[i] = w
  BY <1>0 DEF ToSet
<1>2. u = RemoveAt(list, i)
  <2>1. \A j \in 1 .. n : list[j] = w <=> j = i
    BY <1>0, <1>1 DEF IsInjective
  <2>2. {j \in 1 .. n : list[j] = w} = {i}
    BY <2>1
  <2>3. Min({i}) = i
    BY <1>0 DEF Min
  <2>4. QED
    BY <1>1, <2>2, <2>3 DEF RemoveFirst, SelectInSeq
<1> HIDE DEF u
<1>6. /\ u \in Seq(S) /\ Len(u) = n - 1
      /\ \A j \in 1 .. n - 1 : u[j] = IF j < i THEN list[j] ELSE list[j + 1]
  BY <1>1, <1>2, RemoveAtShape
<1> HIDE DEF n
<1>7. DOMAIN u = 1 .. n - 1
  BY <1>6, LenProperties
<1> DEFINE from(j) == IF j < i THEN j ELSE j + 1
<1>8. \A j \in 1 .. n - 1 : from(j) \in 1 .. n /\ from(j) # i /\ u[j] = list[from(j)]
  BY <1>0, <1>1, <1>6
<1>9. \A j \in 1 .. n : j # i => \E k \in 1 .. n - 1 : j = from(k)
  <2> TAKE j \in 1 .. n
  <2> HAVE j # i
  <2>1. CASE j < i
    BY <2>1, <1>0, <1>1, SMTT(30)
  <2>2. CASE j > i
    <3>1. j - 1 \in 1 .. n - 1 /\ j = from(j - 1)
      BY <2>2, <1>0, <1>1
    <3>2. QED
      BY <3>1
  <2>3. QED
    BY <2>1, <2>2, <1>0, <1>1
<1>10. \A j, k \in 1 .. n - 1 : from(j) = from(k) => j = k
  BY <1>0, <1>1
<1> HIDE DEF from
<1>11. IsInjective(u)
  BY <1>0, <1>7, <1>8, <1>10 DEF IsInjective
<1>12. ToSet(u) = ToSet(list) \ {w}
  <2>1. ASSUME NEW x \in ToSet(u) PROVE x \in ToSet(list) \ {w}
    BY <2>1, <1>0, <1>1, <1>7, <1>8 DEF ToSet, IsInjective
  <2>2. ASSUME NEW x \in ToSet(list) \ {w} PROVE x \in ToSet(u)
    <3>1. PICK j \in 1 .. n : list[j] = x
      BY <1>0 DEF ToSet
    <3>2. PICK k \in 1 .. n - 1 : j = from(k)
      BY <1>1, <1>9, <3>1
    <3>3. QED
      BY <3>1, <3>2, <1>7, <1>8 DEF ToSet
  <2>3. QED
    BY <2>1, <2>2
<1>13. QED
  BY <1>6, <1>11, <1>12 DEF u, n

\* An element that is not there is not taken away.
LEMMA ListUnchanged ==
  ASSUME NEW list, NEW w, \A i \in 1 .. Len(list) : list[i] # w
  PROVE  RemoveFirst(list, w) = list
BY DEF RemoveFirst

\* What is in front of it stays where it is.
LEMMA ListPrefix ==
  ASSUME NEW S, NEW list \in Seq(S), IsInjective(list), NEW w, NEW m \in 0 .. Len(list),
         \A j \in 1 .. m : list[j] # w
  PROVE  /\ m <= Len(RemoveFirst(list, w))
         /\ \A j \in 1 .. m : RemoveFirst(list, w)[j] = list[j]
<1> DEFINE n == Len(list)
<1>1. n \in Nat /\ DOMAIN list = 1 .. n
  BY LenProperties
<1>2. CASE \A k \in 1 .. n : list[k] # w
  BY <1>1, <1>2, ListUnchanged
<1>3. CASE \E k \in 1 .. n : list[k] = w
  <2>1. PICK k \in 1 .. n : list[k] = w
    BY <1>3
  <2>2. RemoveFirst(list, w) = RemoveAt(list, k)
    <3>1. \A l \in 1 .. n : list[l] = w <=> l = k
      BY <1>1, <2>1 DEF IsInjective
    <3>2. {l \in 1 .. n : list[l] = w} = {k}
      BY <3>1
    <3>3. Min({k}) = k
      BY <1>1 DEF Min
    <3>4. QED
      BY <2>1, <3>2, <3>3 DEF RemoveFirst, SelectInSeq
  <2>3. m < k
    BY <1>1, <2>1
  <2>4. /\ Len(RemoveAt(list, k)) = n - 1
        /\ \A l \in 1 .. n - 1 : RemoveAt(list, k)[l] = IF l < k THEN list[l] ELSE list[l + 1]
    BY <2>1, RemoveAtShape
  <2>5. QED
    BY <1>1, <2>1, <2>2, <2>3, <2>4
<1>4. QED
  BY <1>2, <1>3

\* A list without repetitions and a new element at its end.
LEMMA ListAppended ==
  ASSUME NEW S, NEW list \in Seq(S), IsInjective(list), NEW w \in S, w \notin ToSet(list)
  PROVE  /\ Append(list, w) \in Seq(S) /\ IsInjective(Append(list, w))
         /\ ToSet(Append(list, w)) = ToSet(list) \union {w}
<1> DEFINE u == Append(list, w)
           n == Len(list)
<1>1. n \in Nat /\ DOMAIN list = 1 .. n /\ \A i \in 1 .. n : list[i] \in S
  BY LenProperties, ElementOfSeq
<1>2. /\ u \in Seq(S) /\ Len(u) = n + 1 /\ u[n + 1] = w
      /\ \A i \in 1 .. n : u[i] = list[i]
  BY AppendProperties
<1> HIDE DEF u
<1>3. DOMAIN u = 1 .. n + 1
  BY <1>2, LenProperties
<1> HIDE DEF n
<1>4. \A i \in 1 .. n + 1 : i \in 1 .. n \/ i = n + 1
  BY <1>1
<1>5. \A i \in 1 .. n : u[i] # w
  BY <1>1, <1>2 DEF ToSet
<1>6. IsInjective(u)
  BY <1>1, <1>2, <1>3, <1>4, <1>5 DEF IsInjective
<1>7. n + 1 \in 1 .. n + 1 /\ \A i \in 1 .. n : i \in 1 .. n + 1
  BY <1>1
<1>8. ToSet(u) = ToSet(list) \union {w}
  BY <1>1, <1>2, <1>3, <1>4, <1>7 DEF ToSet
<1>9. QED
  BY <1>2, <1>6, <1>8 DEF u

-----------------------------------------------------------------------------
(* Folds.  FoldLeft is defined by a recursive function over the subsets of  *)
(* the sequence's domain.  Here such a function is shown to exist, and to   *)
(* be an iteration from the first element to the last one.                  *)

Folded(par, base, seq) == FoldLeft(LAMBDA v, x : op(par, v, x), base, seq)

\* Max is the greatest element.
LEMMA MaxIs ==
  ASSUME NEW S \in SUBSET Nat, NEW m \in S, \A n \in S : n <= m
  PROVE  Max(S) = m
<1>1. \A y \in S : m >= y
  OBVIOUS
<1>2. \A x \in S : (\A y \in S : x >= y) => x = m
  OBVIOUS
<1>3. QED
  BY <1>1, <1>2 DEF Max

\* A set of numbers up to n has a greatest element.
LEMMA MaxIn ==
  ASSUME NEW n \in Nat, NEW s \in SUBSET (1 .. n), s # {}
  PROVE  Max(s) \in s
<1> DEFINE T == {k \in 0 .. n : \A x \in SUBSET (1 .. k) : x # {} => \E m \in x : \A i \in x : i <= m}
<1>1. 0 \in T
  <2>1. \A x \in SUBSET (1 .. 0) : x = {}
    OBVIOUS
  <2>2. 0 \in 0 .. n
    OBVIOUS
  <2>3. QED
    BY <2>1, <2>2
<1>2. ASSUME NEW k \in 0 .. n - 1, k \in T PROVE k + 1 \in T
  <2>1. ASSUME NEW x \in SUBSET (1 .. k + 1), x # {} PROVE \E m \in x : \A i \in x : i <= m
    <3>1. CASE k + 1 \in x
      BY <3>1
    <3>2. CASE k + 1 \notin x
      <4>1. x \in SUBSET (1 .. k)
        BY <3>2
      <4>2. QED
        BY <4>1, <2>1, <1>2
    <3>3. QED
      BY <3>1, <3>2
  <2>2. QED
    BY <2>1
<1> HIDE DEF T
<1>3. n \in T
  BY <1>1, <1>2, UpTo
<1>4. PICK m \in s : \A i \in s : i <= m
  BY <1>3 DEF T
<1>5. Max(s) = m
  <2>1. s \in SUBSET Nat
    OBVIOUS
  <2>2. QED
    BY <1>4, <2>1, MaxIs
<1>6. QED
  BY <1>5

-----------------------------------------------------------------------------
(* The recursive function.                                                  *)

\* h takes elements away from a set of numbers, the greatest one first.
IsFold(par, base, seq, k, h) ==
  /\ h = [s \in SUBSET (1 .. k) |-> h[s]]
  /\ \A s \in SUBSET (1 .. k) :
       h[s] = IF s = {} THEN base ELSE op(par, h[s \ {Max(s)}], seq[Max(s)])

\* From the subsets of 1 .. m to those of 1 .. m + 1.
LEMMA FoldGrows ==
  ASSUME NEW par, NEW base, NEW seq, NEW m \in Nat, NEW g, IsFold(par, base, seq, m, g)
  PROVE  \E h : IsFold(par, base, seq, m + 1, h)
<1> DEFINE h == [s \in SUBSET (1 .. m + 1) |->
                   IF m + 1 \in s THEN op(par, g[s \ {m + 1}], seq[m + 1]) ELSE g[s]]
<1>1. \A s \in SUBSET (1 .. m + 1) :
        /\ s \ {m + 1} \in SUBSET (1 .. m)
        /\ m + 1 \notin s => s \in SUBSET (1 .. m)
  OBVIOUS
<1>2. \A s \in SUBSET (1 .. m + 1) :
        h[s] = IF m + 1 \in s THEN op(par, g[s \ {m + 1}], seq[m + 1]) ELSE g[s]
  OBVIOUS
<1>3. h = [s \in SUBSET (1 .. m + 1) |-> h[s]]
  OBVIOUS
<1> HIDE DEF h
<1>4. ASSUME NEW s \in SUBSET (1 .. m + 1)
      PROVE  h[s] = IF s = {} THEN base ELSE op(par, h[s \ {Max(s)}], seq[Max(s)])
  <2>1. CASE m + 1 \in s
    <3>1. Max(s) = m + 1
      BY <2>1, MaxIs
    <3>2. s \ {m + 1} \in SUBSET (1 .. m + 1) /\ m + 1 \notin s \ {m + 1}
      OBVIOUS
    <3>3. h[s \ {m + 1}] = g[s \ {m + 1}]
      BY <1>2, <3>2
    <3>4. h[s] = op(par, g[s \ {m + 1}], seq[m + 1])
      BY <1>2, <2>1
    <3>5. QED
      BY <2>1, <3>1, <3>3, <3>4
  <2>2. CASE m + 1 \notin s
    <3>1. s \in SUBSET (1 .. m) /\ h[s] = g[s]
      BY <2>2, <1>1, <1>2
    <3>2. s \ {Max(s)} \in SUBSET (1 .. m + 1) /\ m + 1 \notin s \ {Max(s)}
      BY <2>2
    <3>3. h[s \ {Max(s)}] = g[s \ {Max(s)}]
      BY <1>2, <3>2
    <3>4. g[s] = IF s = {} THEN base ELSE op(par, g[s \ {Max(s)}], seq[Max(s)])
      BY <3>1 DEF IsFold
    <3>5. QED
      BY <3>1, <3>3, <3>4
  <2>3. QED
    BY <2>1, <2>2
<1>5. IsFold(par, base, seq, m + 1, h)
  BY <1>3, <1>4 DEF IsFold
<1>6. QED
  BY <1>5

\* The recursive function of a fold exists.
LEMMA FoldExists ==
  ASSUME NEW par, NEW base, NEW seq, NEW n \in Nat
  PROVE  \E h : IsFold(par, base, seq, n, h)
<1> DEFINE T == {k \in 0 .. n : \E h : IsFold(par, base, seq, k, h)}
<1>1. 0 \in T
  <2> DEFINE h == [s \in {{}} |-> base]
  <2>1. SUBSET (1 .. 0) = {{}}
    OBVIOUS
  <2>2. h = [s \in SUBSET (1 .. 0) |-> h[s]] /\ \A s \in SUBSET (1 .. 0) : s = {} /\ h[s] = base
    BY <2>1
  <2> HIDE DEF h
  <2>3. IsFold(par, base, seq, 0, h)
    BY <2>2 DEF IsFold
  <2>4. QED
    BY <2>3
<1>2. ASSUME NEW k \in 0 .. n - 1, k \in T PROVE k + 1 \in T
  <2>1. PICK g : IsFold(par, base, seq, k, g)
    BY <1>2
  <2>2. \E h : IsFold(par, base, seq, k + 1, h)
    BY <2>1, FoldGrows
  <2>3. k + 1 \in 0 .. n
    OBVIOUS
  <2>4. QED
    BY <2>2, <2>3
<1> HIDE DEF T
<1>3. n \in T
  BY <1>1, <1>2, UpTo
<1>4. QED
  BY <1>3 DEF T

\* FoldLeft goes through the sequence from the first element on: there is a trail
\* from base to the result, each value made of the one before by op.
LEMMA FoldLeftSteps ==
  ASSUME NEW par, NEW base, NEW seq, Len(seq) \in Nat, DOMAIN seq = 1 .. Len(seq)
  PROVE  \E trail :
           /\ trail[0] = base
           /\ \A k \in 1 .. Len(seq) : trail[k] = op(par, trail[k - 1], seq[k])
           /\ trail[Len(seq)] = Folded(par, base, seq)
<1> DEFINE n == Len(seq)
           Body(h) == [s \in SUBSET (1 .. n) |->
                        IF s = {} THEN base ELSE op(par, h[s \ {Max(s)}], seq[Max(s)])]
           it == CHOOSE h : h = Body(h)
<1>1. Folded(par, base, seq) = it[1 .. n]
  BY DEF Folded, FoldLeft, MapThenFoldSet
<1>2. n \in Nat
  OBVIOUS
<1> HIDE DEF n
<1>3. PICK h : IsFold(par, base, seq, n, h)
  BY <1>2, FoldExists
<1>4. h = Body(h)
  BY <1>3 DEF IsFold
<1>5. it = Body(it)
  <2> HIDE DEF Body
  <2>1. \E x : x = Body(x)
    BY <1>4
  <2>2. QED
    BY <2>1
<1> HIDE DEF it
<1>6. \A s \in SUBSET (1 .. n) :
        it[s] = IF s = {} THEN base ELSE op(par, it[s \ {Max(s)}], seq[Max(s)])
  BY <1>5
<1> HIDE DEF Body
<1> DEFINE trail == [k \in 0 .. n |-> it[1 .. k]]
<1>7. trail[0] = base
  <2>1. 1 .. 0 = {} /\ 1 .. 0 \in SUBSET (1 .. n) /\ 0 \in 0 .. n
    BY <1>2
  <2>2. QED
    BY <1>6, <2>1
<1>8. ASSUME NEW k \in 1 .. n PROVE trail[k] = op(par, trail[k - 1], seq[k])
  <2>1. 1 .. k \in SUBSET (1 .. n) /\ 1 .. k # {} /\ k \in 0 .. n /\ k - 1 \in 0 .. n
    BY <1>2, SMTT(30)
  <2>2. Max(1 .. k) = k
    BY <1>2, MaxIs
  <2>3. (1 .. k) \ {k} = 1 .. k - 1
    BY <1>2
  <2>4. it[1 .. k] = op(par, it[1 .. k - 1], seq[k])
    BY <1>6, <2>1, <2>2, <2>3
  <2>5. QED
    BY <2>1, <2>4
<1>9. trail[n] = Folded(par, base, seq)
  BY <1>1, <1>2
<1> HIDE DEF trail
<1>10. QED
  BY <1>7, <1>8, <1>9 DEF n


\* The same with a name, by which the provers find the trail.
IsTrail(par, base, seq, trail) ==
  /\ trail[0] = base
  /\ \A k \in 1 .. Len(seq) : trail[k] = op(par, trail[k - 1], seq[k])
  /\ trail[Len(seq)] = Folded(par, base, seq)

LEMMA TrailExists ==
  ASSUME NEW par, NEW base, NEW seq, Len(seq) \in Nat, DOMAIN seq = 1 .. Len(seq)
  PROVE  \E trail : IsTrail(par, base, seq, trail)
<1>1. PICK trail : /\ trail[0] = base
                   /\ \A k \in 1 .. Len(seq) : trail[k] = op(par, trail[k - 1], seq[k])
                   /\ trail[Len(seq)] = Folded(par, base, seq)
  BY FoldLeftSteps
<1>2. IsTrail(par, base, seq, trail)
  BY <1>1 DEF IsTrail
<1>3. QED
  BY <1>2

\* What holds at the start, and after each step if it held before, holds of the result.
LEMMA FoldKeeps ==
  ASSUME NEW par, NEW base, NEW seq, Len(seq) \in Nat, DOMAIN seq = 1 .. Len(seq),
         NEW S, base \in S[0],
         \A k \in 1 .. Len(seq) : \A v \in S[k - 1] : op(par, v, seq[k]) \in S[k]
  PROVE  Folded(par, base, seq) \in S[Len(seq)]
<1>1. PICK trail : IsTrail(par, base, seq, trail)
  BY TrailExists
<1> DEFINE T == {k \in 0 .. Len(seq) : trail[k] \in S[k]}
<1>2. 0 \in T
  BY <1>1 DEF IsTrail
<1>3. ASSUME NEW k \in 0 .. Len(seq) - 1, k \in T PROVE k + 1 \in T
  <2>1. k + 1 \in 1 .. Len(seq) /\ (k + 1) - 1 = k /\ k + 1 \in 0 .. Len(seq)
    OBVIOUS
  <2>2. trail[k + 1] = op(par, trail[k], seq[k + 1])
    BY <1>1, <2>1 DEF IsTrail
  <2>3. trail[k + 1] \in S[k + 1]
    BY <1>3, <2>1, <2>2
  <2>4. QED
    BY <2>1, <2>3
<1> HIDE DEF T
<1>4. Len(seq) \in T
  BY <1>2, <1>3, UpTo
<1>5. QED
  BY <1>1, <1>4 DEF T, IsTrail
=============================================================================
