----------------------------- MODULE LoopProofs ------------------------------
(* Proofs about Sched, for any set of events and any handlers, and about       *)
(* Output, whose writing and reading the loop calls.                           *)
EXTENDS Sched, Output, ListProofs, FiniteSetTheorems

-----------------------------------------------------------------------------
(* evenq's place in a list, and what it does to the list.                  *)

\* The scan of evenq stops at a place, and it is the one the priorities ask for.
LEMMA PlaceSound ==
  ASSUME NEW s \in Seq(Events), NEW e \in Events
  PROVE  /\ Place(s, e) \in 1 .. Len(s) + 1
         /\ \A j \in 1 .. Place(s, e) - 1 : Pri[s[j]] >= Pri[e]
         /\ Place(s, e) <= Len(s) => Pri[e] > Pri[s[Place(s, e)]]
<1> DEFINE T == {i \in 1 .. Len(s) + 1 : i <= Len(s) => Pri[e] > Pri[s[i]]}
<1>1. Len(s) \in Nat /\ \A j \in 1 .. Len(s) : s[j] \in Events
  BY LenProperties, ElementOfSeq
<1>2. T \in SUBSET Nat /\ Len(s) + 1 \in T
  BY <1>1
<1> HIDE DEF T
<1>3. PICK i \in T : \A j \in T : i <= j
  BY <1>2, LeastNumber
<1>4. i \in 1 .. Len(s) + 1 /\ (i <= Len(s) => Pri[e] > Pri[s[i]])
  BY DEF T
<1>5. ASSUME NEW j \in 1 .. i - 1
      PROVE  Pri[s[j]] >= Pri[e]
  <2>1. j \in 1 .. Len(s) /\ j < i
    BY <1>1, <1>4
  <2>2. j \notin T
    BY <2>1, <1>3, <1>2
  <2>3. ~(Pri[e] > Pri[s[j]])
    BY <2>1, <2>2, <1>1 DEF T
  <2>4. Pri[e] \in Int /\ Pri[s[j]] \in Int
    BY <2>1, <1>1, EventsAssumption
  <2>5. QED
    BY <2>3, <2>4
<1>6. QED
  BY <1>4, <1>5 DEF Place

\* evenq's change of a list: e is linked, once, and the order is kept.
LEMMA InsertSound ==
  ASSUME NEW s \in Seq(Events), NEW e \in Events,
         NoDuplicates(s), ~Linked(s, e)
  PROVE  /\ Insert(s, e) \in Seq(Events)
         /\ NoDuplicates(Insert(s, e))
         /\ \A x \in Events : Linked(Insert(s, e), x) <=> x = e \/ Linked(s, x)
         /\ Sorted(s) => Sorted(Insert(s, e))
<1> DEFINE i == Place(s, e)
           t == Insert(s, e)
<1>1. Len(s) \in Nat /\ \A j \in 1 .. Len(s) : s[j] \in Events
  BY LenProperties, ElementOfSeq
<1>2. /\ i \in 1 .. Len(s) + 1
      /\ \A j \in 1 .. i - 1 : Pri[s[j]] >= Pri[e]
      /\ i <= Len(s) => Pri[e] > Pri[s[i]]
  BY PlaceSound
<1> HIDE DEF i
<1>3. /\ t \in Seq(Events)
      /\ Len(t) = Len(s) + 1
      /\ \A j \in 1 .. Len(s) + 1 : t[j] = IF j < i THEN s[j] ELSE IF j = i THEN e ELSE s[j - 1]
  <2>1. t = InsertAt(s, i, e)
    BY DEF Insert, i
  <2>2. /\ InsertAt(s, i, e) \in Seq(Events)
        /\ Len(InsertAt(s, i, e)) = Len(s) + 1
        /\ \A j \in 1 .. Len(s) + 1 :
             InsertAt(s, i, e)[j] = IF j < i THEN s[j] ELSE IF j = i THEN e ELSE s[j - 1]
    BY <1>2, InsertAtShape
  <2> HIDE DEF t
  <2>3. QED
    BY <2>1, <2>2
<1> HIDE DEF t
\* the position in s of what is at position j of t
<1> DEFINE from(j) == IF j < i THEN j ELSE j - 1
<1>4. \A j \in 1 .. Len(t) : j # i => from(j) \in 1 .. Len(s) /\ t[j] = s[from(j)]
  BY <1>1, <1>2, <1>3
<1>5. t[i] = e /\ i \in 1 .. Len(t)
  BY <1>1, <1>2, <1>3
<1>6. NoDuplicates(t)
  <2> SUFFICES ASSUME NEW j \in 1 .. Len(t), NEW k \in 1 .. Len(t), t[j] = t[k]
               PROVE  j = k
    BY DEF NoDuplicates
  <2>1. (j = i) <=> (k = i)
    BY <1>4, <1>5 DEF Linked
  <2>2. CASE j # i
    <3>1. s[from(j)] = s[from(k)] /\ from(j) \in 1 .. Len(s) /\ from(k) \in 1 .. Len(s)
      BY <2>1, <2>2, <1>4
    <3>2. from(j) = from(k)
      BY <3>1 DEF NoDuplicates
    <3>3. QED
      BY <3>2, <2>1, <2>2, <1>1, <1>2, <1>3
  <2>3. QED
    BY <2>1, <2>2
<1>7. ASSUME NEW x \in Events
      PROVE  Linked(t, x) <=> x = e \/ Linked(s, x)
  <2>1. ASSUME Linked(t, x) PROVE x = e \/ Linked(s, x)
    <3>1. PICK j \in 1 .. Len(t) : t[j] = x
      BY <2>1 DEF Linked
    <3>2. CASE j = i
      BY <3>1, <3>2, <1>5
    <3>3. CASE j # i
      BY <3>1, <3>3, <1>4 DEF Linked
    <3>4. QED
      BY <3>2, <3>3
  <2>2. ASSUME x = e PROVE Linked(t, x)
    BY <2>2, <1>5 DEF Linked
  <2>3. ASSUME Linked(s, x) PROVE Linked(t, x)
    <3>1. PICK j \in 1 .. Len(s) : s[j] = x
      BY <2>3 DEF Linked
    <3>2. CASE j < i
      <4>1. j \in 1 .. Len(t) /\ t[j] = s[j]
        BY <3>2, <1>1, <1>3
      <4>2. QED
        BY <4>1, <3>1 DEF Linked
    <3>3. CASE j >= i
      <4>1. j + 1 \in 1 .. Len(t) /\ t[j + 1] = s[j]
        BY <3>3, <1>1, <1>2, <1>3
      <4>2. QED
        BY <4>1, <3>1 DEF Linked
    <3>4. QED
      BY <3>2, <3>3, <1>2
  <2>4. QED
    BY <2>1, <2>2, <2>3
<1>8. ASSUME Sorted(s)
      PROVE  Sorted(t)
  <2> SUFFICES ASSUME NEW j \in 1 .. Len(t), NEW k \in 1 .. Len(t), j < k
               PROVE  Pri[t[j]] >= Pri[t[k]]
    BY DEF Sorted
  <2>1. /\ \A l \in 1 .. Len(s) : Pri[s[l]] \in Int
        /\ Pri[e] \in Int
    BY <1>1, EventsAssumption
  <2>2. \A l, m \in 1 .. Len(s) : l <= m => Pri[s[l]] >= Pri[s[m]]
    BY <1>8, <2>1 DEF Sorted
  <2>3. CASE j = i
    <3>1. from(k) \in 1 .. Len(s) /\ t[k] = s[from(k)] /\ i <= from(k) /\ i \in 1 .. Len(s)
      BY <2>3, <1>1, <1>2, <1>3, <1>4
    <3>2. Pri[s[i]] >= Pri[s[from(k)]] /\ Pri[e] > Pri[s[i]]
      BY <3>1, <2>2, <1>2
    <3>3. QED
      BY <3>1, <3>2, <2>1, <2>3, <1>5
  <2>4. CASE k = i
    <3>1. j \in 1 .. i - 1 /\ t[j] = s[j]
      BY <2>4, <1>1, <1>2, <1>3
    <3>2. QED
      BY <3>1, <2>4, <1>2, <1>5
  <2>5. CASE j # i /\ k # i
    <3>1. from(j) <= from(k)
      BY <2>5, <1>1, <1>2, <1>3
    <3>2. QED
      BY <3>1, <2>2, <2>5, <1>4
  <2>6. QED
    BY <2>3, <2>4, <2>5
<1>9. QED
  BY <1>3, <1>6, <1>7, <1>8 DEF t

\* evdeq's change of a list: e is taken out, and nothing else.
LEMMA UnlinkSound ==
  ASSUME NEW s \in Seq(Events), NEW e \in Events,
         NoDuplicates(s), Linked(s, e)
  PROVE  /\ Unlink(s, e) \in Seq(Events)
         /\ NoDuplicates(Unlink(s, e))
         /\ \A x \in Events : Linked(Unlink(s, e), x) <=> x # e /\ Linked(s, x)
         /\ Sorted(s) => Sorted(Unlink(s, e))
<1> DEFINE i == CHOOSE k \in 1 .. Len(s) : s[k] = e
           t == Unlink(s, e)
<1>1. Len(s) \in Nat /\ \A j \in 1 .. Len(s) : s[j] \in Events
  BY LenProperties, ElementOfSeq
<1>2. i \in 1 .. Len(s) /\ s[i] = e
  BY DEF Linked
<1>3. t = RemoveAt(s, i)
  BY DEF Unlink
<1> HIDE DEF i, t
<1>4. /\ RemoveAt(s, i) \in Seq(Events)
      /\ Len(RemoveAt(s, i)) = Len(s) - 1
      /\ \A j \in 1 .. Len(s) - 1 : RemoveAt(s, i)[j] = IF j < i THEN s[j] ELSE s[j + 1]
  BY <1>2, RemoveAtShape
<1> DEFINE from(j) == IF j < i THEN j ELSE j + 1
<1>5. /\ t \in Seq(Events) /\ Len(t) = Len(s) - 1
      /\ \A j \in 1 .. Len(t) : from(j) \in 1 .. Len(s) /\ from(j) # i /\ t[j] = s[from(j)]
  BY <1>1, <1>2, <1>3, <1>4
<1>6. NoDuplicates(t)
  <2> SUFFICES ASSUME NEW j \in 1 .. Len(t), NEW k \in 1 .. Len(t), t[j] = t[k]
               PROVE  j = k
    BY DEF NoDuplicates
  <2>1. s[from(j)] = s[from(k)] /\ from(j) \in 1 .. Len(s) /\ from(k) \in 1 .. Len(s)
    BY <1>5
  <2>2. from(j) = from(k)
    BY <2>1 DEF NoDuplicates
  <2>3. QED
    BY <2>2, <1>1, <1>2, <1>5
<1>7. ASSUME NEW x \in Events
      PROVE  Linked(t, x) <=> x # e /\ Linked(s, x)
  <2>1. ASSUME Linked(t, x) PROVE x # e /\ Linked(s, x)
    <3>1. PICK j \in 1 .. Len(t) : t[j] = x
      BY <2>1 DEF Linked
    <3>2. s[from(j)] = x /\ from(j) \in 1 .. Len(s) /\ from(j) # i
      BY <3>1, <1>5
    <3> HIDE DEF from
    <3>3. QED
      BY <3>2, <1>2 DEF Linked, NoDuplicates
  <2>2. ASSUME x # e, Linked(s, x) PROVE Linked(t, x)
    <3>1. PICK j \in 1 .. Len(s) : s[j] = x
      BY <2>2 DEF Linked
    <3>2. j # i
      BY <3>1, <2>2, <1>2
    <3>3. CASE j < i
      <4>1. j \in 1 .. Len(t) /\ t[j] = s[j]
        BY <3>3, <1>1, <1>2, <1>5
      <4>2. QED
        BY <4>1, <3>1 DEF Linked
    <3>4. CASE j > i
      <4>1. j - 1 \in 1 .. Len(t) /\ from(j - 1) = j
        BY <3>4, <1>1, <1>2, <1>5
      <4>2. t[j - 1] = s[j]
        BY <4>1, <1>5
      <4>3. QED
        BY <4>1, <4>2, <3>1 DEF Linked
    <3>5. QED
      BY <3>2, <3>3, <3>4, <1>2
  <2>3. QED
    BY <2>1, <2>2
<1>8. ASSUME Sorted(s)
      PROVE  Sorted(t)
  <2> SUFFICES ASSUME NEW j \in 1 .. Len(t), NEW k \in 1 .. Len(t), j < k
               PROVE  Pri[t[j]] >= Pri[t[k]]
    BY DEF Sorted
  <2>1. from(j) < from(k)
    BY <1>1, <1>2, <1>5
  <2>2. /\ from(j) \in 1 .. Len(s) /\ t[j] = s[from(j)]
        /\ from(k) \in 1 .. Len(s) /\ t[k] = s[from(k)]
    BY <1>5
  <2> HIDE DEF from
  <2>3. QED
    BY <2>1, <2>2, <1>8 DEF Sorted
<1>9. QED
  BY <1>5, <1>6, <1>7, <1>8 DEF t

\* What follows an event in a list is another event of the list, or nothing.
LEMMA NextInSound ==
  ASSUME NEW s \in Seq(Events), NEW e \in Events,
         NoDuplicates(s), Linked(s, e)
  PROVE  /\ NextIn(s, e) \in EventOrNull
         /\ NextIn(s, e) # NullEv => Linked(s, NextIn(s, e)) /\ NextIn(s, e) # e
<1> DEFINE i == CHOOSE j \in 1 .. Len(s) : s[j] = e
<1>1. Len(s) \in Nat /\ \A j \in 1 .. Len(s) : s[j] \in Events
  BY LenProperties, ElementOfSeq
<1>2. i \in 1 .. Len(s) /\ s[i] = e
  BY DEF Linked
<1>3. NextIn(s, e) = IF i < Len(s) THEN s[i + 1] ELSE NullEv
  BY DEF NextIn
<1> HIDE DEF i
<1>4. CASE i < Len(s)
  <2>1. i + 1 \in 1 .. Len(s) /\ i + 1 # i
    BY <1>4, <1>1, <1>2
  <2>2. s[i + 1] # e
    BY <2>1, <1>2 DEF NoDuplicates
  <2>3. QED
    BY <2>1, <2>2, <1>1, <1>3, <1>4 DEF Linked, EventOrNull
<1>5. CASE ~(i < Len(s))
  BY <1>3, <1>5 DEF EventOrNull
<1>6. QED
  BY <1>4, <1>5

\* The head of a list is an event of the list, or nothing.
LEMMA FirstSound ==
  ASSUME NEW s \in Seq(Events)
  PROVE  /\ First(s) \in EventOrNull
         /\ First(s) # NullEv => Linked(s, First(s))
<1>1. CASE s = <<>>
  BY <1>1 DEF First, EventOrNull
<1>2. CASE s # <<>>
  <2>1. 1 \in 1 .. Len(s)
    BY <1>2, EmptySeq
  <2>2. QED
    BY <2>1, <1>2, ElementOfSeq DEF First, EventOrNull, Linked
<1>3. QED
  BY <1>1, <1>2

-----------------------------------------------------------------------------
(* Times.                                                                  *)

\* Multiplication by a natural number keeps an order.
LEMMA ProductMonotonic ==
  ASSUME NEW a \in Int, NEW b \in Int, NEW u \in Nat, a <= b
  PROVE  a * u <= b * u
OBVIOUS

\* Multiplication distributes over a difference.
LEMMA ProductOfDifference ==
  ASSUME NEW a \in Int, NEW b \in Int, NEW u \in Nat
  PROVE  (a - b) * u = a * u - b * u /\ (a - b) * u \in Int
OBVIOUS

\* The clock as a timeval, and back.
LEMMA ClockSound ==
  ASSUME NEW t \in Nat
  PROVE  /\ Clock(t).sec \in Nat /\ Clock(t).usec \in 0 .. Usec - 1
         /\ Instant(Clock(t)) = t
<1>1. Usec \in Nat \ {0}
  BY EventsAssumption
<1>2. t % Usec \in 0 .. Usec - 1 /\ t \div Usec \in Nat /\ t = (t \div Usec) * Usec + (t % Usec)
  BY <1>1
<1>3. QED
  BY <1>2 DEF Clock, Instant

\* SetTimeout stores a legal timeval.
LEMMA AddDelayType ==
  ASSUME NEW tv \in Timeval, NEW d \in Nat
  PROVE  AddDelay(tv, d) \in Timeval
<1>1. Usec \in Nat \ {0}
  BY EventsAssumption
<1>2. d % Usec \in 0 .. Usec - 1 /\ d \div Usec \in Nat
  BY <1>1
<1>3. QED
  BY <1>1, <1>2 DEF AddDelay, Timeval

\* The difference of two timevals that sched() computes never ends before tv.
LEMMA WaitForSound ==
  ASSUME now \in Nat, NEW tv \in Timeval
  PROVE  WaitFor(tv) \in Nat /\ now + WaitFor(tv) >= Instant(tv) /\ Instant(tv) \in Nat
<1> DEFINE n == Clock(now)
           u == tv.usec - n.usec
           s == tv.sec - n.sec - (IF u < 0 THEN 1 ELSE 0)
<1>1. Usec \in Nat \ {0}
  BY EventsAssumption
<1>2. n.sec \in Nat /\ n.usec \in 0 .. Usec - 1 /\ n.sec * Usec + n.usec = now
  BY ClockSound DEF Instant
<1>3. tv.sec \in Nat /\ tv.usec \in 0 .. Usec
  BY DEF Timeval
<1> HIDE DEF n
<1>4. s \in Int /\ u \in Int
  BY <1>2, <1>3, <1>1
<1>5. CASE s < 0
  <2>1. WaitFor(tv) = 0
    BY <1>5 DEF WaitFor, n
  <2>2. tv.sec * Usec + tv.usec <= now
    <3>1. CASE u < 0
      <4>1. tv.sec <= n.sec /\ tv.usec <= n.usec
        BY <1>1, <1>2, <1>3, <1>5, <3>1
      <4>2. tv.sec * Usec <= n.sec * Usec
        BY <4>1, <1>1, <1>2, <1>3, ProductMonotonic
      <4>3. QED
        BY <4>1, <4>2, <1>1, <1>2, <1>3
    <3>2. CASE u >= 0
      <4>1. tv.sec <= n.sec - 1
        BY <1>1, <1>2, <1>3, <1>5, <3>2
      <4>2. tv.sec * Usec <= (n.sec - 1) * Usec
        BY <4>1, <1>1, <1>2, <1>3, ProductMonotonic
      <4>3. (n.sec - 1) * Usec = n.sec * Usec - Usec
        BY <1>1, <1>2
      <4>4. QED
        BY <4>2, <4>3, <1>1, <1>2, <1>3
    <3>3. QED
      BY <3>1, <3>2, <1>4
  <2>3. QED
    BY <2>1, <2>2, <1>1, <1>2, <1>3 DEF Instant
<1>6. CASE s >= 0
  <2> DEFINE r == IF u < 0 THEN u + Usec ELSE u
  <2>1. WaitFor(tv) = s * Usec + r
    BY <1>4, <1>6 DEF WaitFor, n
  <2>2. r \in Nat /\ s \in Nat
    BY <1>1, <1>2, <1>3, <1>4, <1>6
  <2>3. s * Usec + r = (tv.sec * Usec + tv.usec) - now
    <3>1. CASE u < 0
      <4>1. s = tv.sec - (n.sec + 1)
        BY <3>1, <1>2, <1>3
      <4>2. s * Usec = tv.sec * Usec - (n.sec + 1) * Usec
        BY <4>1, <1>1, <1>2, <1>3, ProductOfDifference
      <4>3. (n.sec + 1) * Usec = n.sec * Usec + Usec
        BY <1>1, <1>2
      <4>4. QED
        BY <3>1, <4>2, <4>3, <1>1, <1>2, <1>3
    <3>2. CASE u >= 0
      <4>1. s = tv.sec - n.sec
        BY <3>2, <1>2, <1>3
      <4>2. s * Usec = tv.sec * Usec - n.sec * Usec
        BY <4>1, <1>1, <1>2, <1>3, ProductOfDifference
      <4>3. QED
        BY <3>2, <4>2, <1>1, <1>2, <1>3
    <3>3. QED
      BY <3>1, <3>2, <1>4
  <2>4. s * Usec \in Nat
    BY <2>2, <1>1
  <2>5. tv.sec * Usec \in Nat
    BY <1>1, <1>3
  <2>6. QED
    BY <2>1, <2>2, <2>3, <2>4, <2>5, <1>3 DEF Instant
<1>7. QED
  BY <1>4, <1>5, <1>6

\* calctimo returns a linked timeout whose deadline is the earliest.
LEMMA EarliestSound ==
  ASSUME tevs \in Seq(Events), timeout \in [Events -> Timeval], tevs # <<>>
  PROVE  /\ calctimo \in Events /\ Linked(tevs, calctimo)
         /\ \A j \in 1 .. Len(tevs) : Instant(timeout[calctimo]) <= Instant(timeout[tevs[j]])
<1> DEFINE D == 1 .. Len(tevs)
           tv(j) == timeout[tevs[j]]
<1>1. Usec \in Nat \ {0}
  BY EventsAssumption
<1>2. Len(tevs) \in Nat \ {0} /\ \A j \in D : tevs[j] \in Events
  BY LenProperties, ElementOfSeq, EmptySeq
<1>3. \A j \in D : tv(j).sec \in Nat /\ tv(j).usec \in 0 .. Usec
  BY <1>2 DEF Timeval
<1> HIDE DEF tv
<1> DEFINE Secs == {tv(j).sec : j \in D}
<1>4. PICK m \in Secs : \A n \in Secs : m <= n
  <2>1. Secs \in SUBSET Nat /\ tv(1).sec \in Secs
    BY <1>2, <1>3
  <2> HIDE DEF Secs
  <2>2. QED
    BY <2>1, LeastNumber
<1> DEFINE Usecs == {tv(j).usec : j \in {l \in D : tv(l).sec = m}}
<1>5. PICK k \in Usecs : \A n \in Usecs : k <= n
  <2>1. Usecs \in SUBSET Nat /\ Usecs # {}
    BY <1>1, <1>3, <1>4
  <2> HIDE DEF Usecs
  <2>2. QED
    BY <2>1, LeastNumber
<1> DEFINE Firsts == {l \in D : tv(l).sec = m /\ tv(l).usec = k}
<1>6. PICK i \in Firsts : \A n \in Firsts : i <= n
  <2>1. Firsts \in SUBSET Nat /\ Firsts # {}
    BY <1>2, <1>5
  <2> HIDE DEF Firsts
  <2>2. QED
    BY <2>1, LeastNumber
<1>7. i \in D /\ tv(i).sec = m /\ tv(i).usec = k
  BY <1>6
<1>8. ASSUME NEW j \in D
      PROVE  /\ m < tv(j).sec \/ (m = tv(j).sec /\ k <= tv(j).usec)
             /\ j < i => m < tv(j).sec \/ (m = tv(j).sec /\ k < tv(j).usec)
  <2>1. m <= tv(j).sec
    BY <1>4
  <2>2. m = tv(j).sec => k <= tv(j).usec
    BY <1>5
  <2>3. j < i => ~(m = tv(j).sec /\ k = tv(j).usec)
    BY <1>6, <1>2
  <2>4. m \in Nat /\ k \in Nat
    BY <1>1, <1>3, <1>7
  <2>5. QED
    BY <2>1, <2>2, <2>3, <2>4, <1>1, <1>3
<1>9. /\ \A j \in D : ~Earlier(tv(j), tv(i))
      /\ \A j \in 1 .. i - 1 : Earlier(tv(i), tv(j))
  <2>1. \A j \in 1 .. i - 1 : j \in D /\ j < i
    BY <1>2, <1>7
  <2>2. QED
    BY <2>1, <1>1, <1>3, <1>7, <1>8 DEF Earlier
<1> DEFINE c == CHOOSE l \in D : /\ \A j \in D : ~Earlier(tv(j), tv(l))
                                 /\ \A j \in 1 .. l - 1 : Earlier(tv(l), tv(j))
<1>10. c \in D /\ \A j \in D : ~Earlier(tv(j), tv(c))
  BY <1>7, <1>9
<1>11. calctimo = tevs[c]
  BY DEF calctimo, tv
<1> HIDE DEF c
<1>12. ASSUME NEW j \in D
       PROVE  Instant(tv(c)) <= Instant(tv(j))
  <2> DEFINE a == tv(c)
             b == tv(j)
  <2>1. /\ a.sec \in Nat /\ a.usec \in 0 .. Usec /\ b.sec \in Nat /\ b.usec \in 0 .. Usec
        /\ ~Earlier(b, a)
    BY <1>3, <1>10
  <2> HIDE DEF a, b
  <2>2. a.sec < b.sec \/ (a.sec = b.sec /\ a.usec <= b.usec)
    BY <2>1, <1>1 DEF Earlier
  <2>3. a.sec * Usec \in Nat /\ b.sec * Usec \in Nat
    BY <2>1, <1>1
  <2>4. CASE a.sec < b.sec
    <3>1. a.sec + 1 \in Int /\ b.sec \in Int /\ a.sec + 1 <= b.sec /\ Usec \in Nat
      BY <2>1, <2>4, <1>1
    <3>2. (a.sec + 1) * Usec <= b.sec * Usec
      BY <3>1, ProductMonotonic
    <3>3. (a.sec + 1) * Usec = a.sec * Usec + Usec
      BY <2>1, <1>1
    <3>4. a.sec * Usec + a.usec <= b.sec * Usec + b.usec
      <4> DEFINE p == a.sec * Usec
                 q == b.sec * Usec
      <4>1. p \in Nat /\ q \in Nat /\ p + Usec <= q
        BY <3>2, <3>3, <2>3
      <4> HIDE DEF p, q
      <4>2. p + a.usec <= q + b.usec
        BY <4>1, <2>1, <1>1, SMTT(30)
      <4>3. QED
        BY <4>2 DEF p, q
    <3>5. QED
      BY <3>4 DEF Instant, a, b
  <2>5. CASE a.sec = b.sec /\ a.usec <= b.usec
    BY <2>5, <2>1, <2>3, <1>1, SMTT(30) DEF Instant, a, b
  <2>6. QED
    BY <2>2, <2>4, <2>5
<1>13. QED
  BY <1>2, <1>10, <1>11, <1>12 DEF tv, Linked

-----------------------------------------------------------------------------
(* The inductive invariant, in four parts.                                 *)

\* the lists, and the fields that say what they hold
Links ==
  /\ evs \in Seq(Events) /\ tevs \in Seq(Events)
  /\ queued \in [Events -> BOOLEAN]
  /\ type \in [Events -> Types]
  /\ ListsSound /\ PriorityOrder

\* the pointers into the lists
NextevOnList == nextev # NullEv => queued[nextev] /\ type[nextev] # "EV_TIMEOUT"
Cursors ==
  /\ nextev \in EventOrNull /\ ev \in EventOrNull /\ timeoutev \in EventOrNull
  /\ pc \in {"setup", "prepare", "select", "walk", "handler", "thandler"}
  /\ pc = "walk" /\ ev # NullEv => queued[ev] /\ type[ev] # "EV_TIMEOUT"
  /\ NextevOnList

\* calctimeout is never reset, so it is false only before the first timeout;
\* and select() is told to wait until the deadline of timeoutev
Times ==
  /\ calctimeout \in BOOLEAN
  /\ timeout \in [Events -> Timeval]
  /\ now \in Nat /\ wake \in Int
  /\ ~calctimeout => tevs = <<>> /\ timeoutev = NullEv
  /\ TimeoutCurrent
  /\ pc = "select" /\ timeoutev # NullEv => wake >= Instant(timeout[timeoutev])
                                            /\ Instant(timeout[timeoutev]) \in Nat

\* while descriptors are left to serve, set is what select() returned
Pass ==
  /\ cond \in [Events -> BOOLEAN]
  /\ ops \in Nat /\ nsel \in Int
  /\ IsFiniteSet(set)
  /\ pc \in {"walk", "handler", "thandler"} /\ nsel # 0 => set = ready

IInv == Links /\ Cursors /\ Times /\ Pass

\* Of a queued event, the list that its type asks for holds it.
LEMMA LinkedQueued ==
  ASSUME Links, NEW e \in Events
  PROVE  /\ Linked(evs, e) <=> queued[e] /\ type[e] # "EV_TIMEOUT"
         /\ Linked(tevs, e) <=> queued[e] /\ type[e] = "EV_TIMEOUT"
BY DEF Links, ListsSound

\* evenq keeps the lists in order and takes no event off them.
LEMMA EvenqKeeps ==
  ASSUME Links, NEW e \in Events, evenq(e), UNCHANGED type, calctimeout \in BOOLEAN,
         ~calctimeout => tevs = <<>>
  PROVE  /\ Links'
         /\ \A x \in Events : queued[x] => queued'[x]
         /\ calctimeout' \in BOOLEAN
         /\ calctimeout => calctimeout'
         /\ ~calctimeout' => tevs' = <<>>
<1>1. CASE queued[e]
  BY <1>1 DEF evenq, Links, ListsSound, PriorityOrder
<1>2. CASE ~queued[e]
  <2>1. queued' = [queued EXCEPT ![e] = TRUE] /\ ~Linked(evs, e) /\ ~Linked(tevs, e)
    BY <1>2, LinkedQueued DEF evenq
  <2>2. /\ queued' \in [Events -> BOOLEAN] /\ type' = type
        /\ \A x \in Events : queued'[x] <=> x = e \/ queued[x]
    BY <2>1 DEF Links
  <2>3. CASE type[e] = "EV_TIMEOUT"
    <3>1. tevs' = Insert(tevs, e) /\ evs' = evs /\ calctimeout' = TRUE
      BY <1>2, <2>3 DEF evenq
    <3>2. /\ tevs' \in Seq(Events) /\ NoDuplicates(tevs') /\ Sorted(tevs')
          /\ \A x \in Events : Linked(tevs', x) <=> x = e \/ Linked(tevs, x)
      BY <2>1, <3>1, InsertSound DEF Links, ListsSound, PriorityOrder
    <3>3. \A x \in Events :
            /\ Linked(evs', x) <=> queued'[x] /\ type'[x] # "EV_TIMEOUT"
            /\ Linked(tevs', x) <=> queued'[x] /\ type'[x] = "EV_TIMEOUT"
      BY <2>2, <2>3, <3>1, <3>2, LinkedQueued
    <3>4. QED
      BY <2>2, <3>1, <3>2, <3>3 DEF Links, ListsSound, PriorityOrder
  <2>4. CASE type[e] # "EV_TIMEOUT"
    <3>1. evs' = Insert(evs, e) /\ tevs' = tevs /\ calctimeout' = calctimeout
      BY <1>2, <2>4 DEF evenq
    <3>2. /\ evs' \in Seq(Events) /\ NoDuplicates(evs') /\ Sorted(evs')
          /\ \A x \in Events : Linked(evs', x) <=> x = e \/ Linked(evs, x)
      BY <2>1, <3>1, InsertSound DEF Links, ListsSound, PriorityOrder
    <3>3. \A x \in Events :
            /\ Linked(evs', x) <=> queued'[x] /\ type'[x] # "EV_TIMEOUT"
            /\ Linked(tevs', x) <=> queued'[x] /\ type'[x] = "EV_TIMEOUT"
      BY <2>2, <2>4, <3>1, <3>2, LinkedQueued
    <3>4. QED
      BY <2>2, <3>1, <3>2, <3>3 DEF Links, ListsSound, PriorityOrder
  <2>5. QED
    BY <2>3, <2>4
<1>3. QED
  BY <1>1, <1>2

\* evdeq keeps the lists in order, takes no other event off them, and moves
\* nextev on to an event that is still there.
LEMMA EvdeqKeeps ==
  ASSUME Links, NextevOnList, nextev \in EventOrNull,
         NEW e \in Events, evdeq(e), UNCHANGED type, calctimeout \in BOOLEAN,
         ~calctimeout => tevs = <<>>
  PROVE  /\ Links' /\ NextevOnList' /\ nextev' \in EventOrNull
         /\ \A x \in Events : x # e => queued'[x] = queued[x]
         /\ calctimeout' \in BOOLEAN
         /\ calctimeout => calctimeout'
         /\ ~calctimeout' => tevs' = <<>>
<1>1. CASE ~queued[e]
  BY <1>1 DEF evdeq, Links, ListsSound, PriorityOrder, NextevOnList
<1>2. CASE queued[e]
  <2>1. queued' = [queued EXCEPT ![e] = FALSE]
    BY <1>2 DEF evdeq
  <2>2. /\ queued' \in [Events -> BOOLEAN] /\ type' = type
        /\ \A x \in Events : queued'[x] <=> x # e /\ queued[x]
    BY <2>1 DEF Links
  <2>3. CASE type[e] = "EV_TIMEOUT"
    <3>1. tevs' = Unlink(tevs, e) /\ evs' = evs /\ calctimeout' = TRUE /\ nextev' = nextev
      BY <1>2, <2>3 DEF evdeq
    <3>2. Linked(tevs, e)
      BY <1>2, <2>3, LinkedQueued
    <3>3. /\ tevs' \in Seq(Events) /\ NoDuplicates(tevs') /\ Sorted(tevs')
          /\ \A x \in Events : Linked(tevs', x) <=> x # e /\ Linked(tevs, x)
      BY <3>1, <3>2, UnlinkSound DEF Links, ListsSound, PriorityOrder
    <3>4. \A x \in Events :
            /\ Linked(evs', x) <=> queued'[x] /\ type'[x] # "EV_TIMEOUT"
            /\ Linked(tevs', x) <=> queued'[x] /\ type'[x] = "EV_TIMEOUT"
      BY <2>2, <2>3, <3>1, <3>3, LinkedQueued
    <3>5. NextevOnList'
      BY <2>2, <2>3, <3>1 DEF NextevOnList, EventOrNull
    <3>6. QED
      BY <2>2, <3>1, <3>3, <3>4, <3>5 DEF Links, ListsSound, PriorityOrder
  <2>4. CASE type[e] # "EV_TIMEOUT"
    <3>1. /\ evs' = Unlink(evs, e) /\ tevs' = tevs /\ calctimeout' = calctimeout
          /\ nextev' = IF e = nextev THEN NextIn(evs, nextev) ELSE nextev
      BY <1>2, <2>4 DEF evdeq
    <3>2. Linked(evs, e)
      BY <1>2, <2>4, LinkedQueued
    <3>3. /\ evs' \in Seq(Events) /\ NoDuplicates(evs') /\ Sorted(evs')
          /\ \A x \in Events : Linked(evs', x) <=> x # e /\ Linked(evs, x)
      BY <3>1, <3>2, UnlinkSound DEF Links, ListsSound, PriorityOrder
    <3>4. \A x \in Events :
            /\ Linked(evs', x) <=> queued'[x] /\ type'[x] # "EV_TIMEOUT"
            /\ Linked(tevs', x) <=> queued'[x] /\ type'[x] = "EV_TIMEOUT"
      BY <2>2, <2>4, <3>1, <3>3, LinkedQueued
    <3>5. NextevOnList' /\ nextev' \in EventOrNull
      <4>1. CASE e = nextev
        <5>1. /\ NextIn(evs, e) \in EventOrNull
              /\ NextIn(evs, e) # NullEv => Linked(evs, NextIn(evs, e)) /\ NextIn(evs, e) # e
          BY <3>2, NextInSound DEF Links, ListsSound
        <5>2. nextev' = NextIn(evs, e)
          BY <3>1, <4>1
        <5>3. QED
          BY <5>1, <5>2, <2>2, LinkedQueued DEF NextevOnList, EventOrNull
      <4>2. CASE e # nextev
        BY <4>2, <3>1, <2>2 DEF NextevOnList, EventOrNull
      <4>3. QED
        BY <4>1, <4>2
    <3>6. QED
      BY <2>2, <3>1, <3>3, <3>4, <3>5 DEF Links, ListsSound, PriorityOrder
  <2>5. QED
    BY <2>3, <2>4
<1>3. QED
  BY <1>1, <1>2 DEF Links

\* A change of type between an evdeq and an evenq takes the event from the one list to the
\* other, and moves nextev on to an event that is still on its list.
LEMMA WriteEagainKeeps ==
  ASSUME Links, NextevOnList, nextev \in EventOrNull,
         NEW e \in Events, NEW timo, WriteEagain(e, timo)
  PROVE  /\ Links' /\ NextevOnList' /\ nextev' \in EventOrNull
         /\ \A x \in Events : x # e => queued'[x] = queued[x] /\ type'[x] = type[x]
<1>1. /\ type[e] = "EV_WRITE" /\ e \in Events
      /\ evs' = IF queued[e] THEN Unlink(evs, e) ELSE evs
      /\ nextev' = IF queued[e] /\ e = nextev THEN NextIn(evs, e) ELSE nextev
      /\ type' = [type EXCEPT ![e] = "EV_TIMEOUT"]
      /\ queued' = [queued EXCEPT ![e] = TRUE]
      /\ tevs' = Insert(tevs, e)
  BY DEF WriteEagain
<1>2. /\ queued' \in [Events -> BOOLEAN] /\ type' \in [Events -> Types]
      /\ \A x \in Events : queued'[x] <=> x = e \/ queued[x]
      /\ \A x \in Events : type'[x] = IF x = e THEN "EV_TIMEOUT" ELSE type[x]
  BY <1>1 DEF Links, Types
<1>3. evs \in Seq(Events) /\ tevs \in Seq(Events) /\ NoDuplicates(evs) /\ NoDuplicates(tevs)
      /\ Sorted(evs) /\ Sorted(tevs) /\ (Linked(evs, e) <=> queued[e]) /\ ~Linked(tevs, e)
  BY <1>1, LinkedQueued DEF Links, ListsSound, PriorityOrder
<1>4. /\ evs' \in Seq(Events) /\ NoDuplicates(evs') /\ Sorted(evs')
      /\ \A x \in Events : Linked(evs', x) <=> x # e /\ Linked(evs, x)
  <2>1. CASE queued[e]
    BY <1>1, <1>3, <2>1, UnlinkSound
  <2>2. CASE ~queued[e]
    BY <1>1, <1>3, <2>2
  <2>3. QED
    BY <2>1, <2>2
<1>5. /\ tevs' \in Seq(Events) /\ NoDuplicates(tevs') /\ Sorted(tevs')
      /\ \A x \in Events : Linked(tevs', x) <=> x = e \/ Linked(tevs, x)
  BY <1>1, <1>3, InsertSound
<1>6. \A x \in Events :
        /\ Linked(evs', x) <=> queued'[x] /\ type'[x] # "EV_TIMEOUT"
        /\ Linked(tevs', x) <=> queued'[x] /\ type'[x] = "EV_TIMEOUT"
  BY <1>2, <1>4, <1>5, LinkedQueued
<1>7. Links'
  BY <1>2, <1>4, <1>5, <1>6 DEF Links, ListsSound, PriorityOrder
<1>8. NextevOnList' /\ nextev' \in EventOrNull
  <2>1. CASE e = nextev
    <3>1. queued[e]
      BY <2>1, EventsAssumption DEF NextevOnList
    <3>2. /\ NextIn(evs, e) \in EventOrNull
          /\ NextIn(evs, e) # NullEv => Linked(evs, NextIn(evs, e)) /\ NextIn(evs, e) # e
      BY <1>3, <3>1, NextInSound
    <3>3. nextev' = NextIn(evs, e)
      BY <1>1, <2>1, <3>1
    <3>4. QED
      BY <1>2, <3>2, <3>3, LinkedQueued DEF NextevOnList, EventOrNull
  <2>2. CASE e # nextev
    BY <1>1, <1>2, <2>2 DEF NextevOnList, EventOrNull
  <2>3. QED
    BY <2>1, <2>2
<1>9. QED
  BY <1>1, <1>2, <1>7, <1>8 DEF Links

\* The way back, when the timeout of the write event is over.
LEMMA WriteAgainKeeps ==
  ASSUME Links, NextevOnList, nextev \in EventOrNull, NEW e \in Events, disp_writeev_eagain(e)
  PROVE  /\ Links' /\ NextevOnList' /\ nextev' \in EventOrNull
         /\ \A x \in Events : x # e => queued'[x] = queued[x] /\ type'[x] = type[x]
<1>1. /\ type[e] = "EV_TIMEOUT" /\ e \in Events /\ nextev' = nextev
      /\ tevs' = IF queued[e] THEN Unlink(tevs, e) ELSE tevs
      /\ type' = [type EXCEPT ![e] = "EV_WRITE"]
      /\ queued' = [queued EXCEPT ![e] = TRUE]
      /\ evs' = Insert(evs, e)
  BY DEF disp_writeev_eagain
<1>2. /\ queued' \in [Events -> BOOLEAN] /\ type' \in [Events -> Types]
      /\ \A x \in Events : queued'[x] <=> x = e \/ queued[x]
      /\ \A x \in Events : type'[x] = IF x = e THEN "EV_WRITE" ELSE type[x]
  BY <1>1 DEF Links, Types
<1>3. evs \in Seq(Events) /\ tevs \in Seq(Events) /\ NoDuplicates(evs) /\ NoDuplicates(tevs)
      /\ Sorted(evs) /\ Sorted(tevs) /\ (Linked(tevs, e) <=> queued[e]) /\ ~Linked(evs, e)
  BY <1>1, LinkedQueued DEF Links, ListsSound, PriorityOrder
<1>4. /\ tevs' \in Seq(Events) /\ NoDuplicates(tevs') /\ Sorted(tevs')
      /\ \A x \in Events : Linked(tevs', x) <=> x # e /\ Linked(tevs, x)
  <2>1. CASE queued[e]
    BY <1>1, <1>3, <2>1, UnlinkSound
  <2>2. CASE ~queued[e]
    BY <1>1, <1>3, <2>2
  <2>3. QED
    BY <2>1, <2>2
<1>5. /\ evs' \in Seq(Events) /\ NoDuplicates(evs') /\ Sorted(evs')
      /\ \A x \in Events : Linked(evs', x) <=> x = e \/ Linked(evs, x)
  BY <1>1, <1>3, InsertSound
<1>6. \A x \in Events :
        /\ Linked(evs', x) <=> queued'[x] /\ type'[x] # "EV_TIMEOUT"
        /\ Linked(tevs', x) <=> queued'[x] /\ type'[x] = "EV_TIMEOUT"
  BY <1>2, <1>4, <1>5, LinkedQueued
<1>7. Links'
  BY <1>2, <1>4, <1>5, <1>6 DEF Links, ListsSound, PriorityOrder
<1>8. NextevOnList'
  BY <1>1, <1>2 DEF NextevOnList, EventOrNull
<1>9. QED
  BY <1>1, <1>2, <1>7, <1>8 DEF Links

\* The deadline of a timeout that is set now.
LEMMA DeadlineType ==
  ASSUME now \in Nat, NEW timo \in Delays
  PROVE  AddDelay(Clock(now), timo) \in Timeval
<1>1. timo \in Nat /\ Usec \in Nat \ {0}
  BY EventsAssumption
<1>2. Clock(now).sec \in Nat /\ Clock(now).usec \in 0 .. Usec - 1
  BY ClockSound
<1>3. Clock(now) \in Timeval
  BY <1>1, <1>2 DEF Clock, Timeval
<1>4. QED
  BY <1>1, <1>3, AddDelayType

-----------------------------------------------------------------------------
(* Every step keeps the invariant.                                         *)

\* A step that leaves the lists and their fields alone keeps Links.
LEMMA LinksUnchanged ==
  ASSUME Links, UNCHANGED <<evs, tevs, queued, type>>
  PROVE  Links'
BY DEF Links, ListsSound, PriorityOrder

\* Away from select(), Times asks little.
LEMMA TimesUnchanged ==
  ASSUME Times, pc' # "select", UNCHANGED <<tevs, calctimeout, timeout, timeoutev>>,
         now' \in Nat, wake' \in Int
  PROVE  Times'
BY DEF Times, TimeoutCurrent

\* The descriptors sched() asks for are finitely many.
LEMMA InterestFinite ==
  ASSUME Links
  PROVE  IsFiniteSet(Interest)
<1> DEFINE D == {i \in 1 .. Len(evs) : cond[evs[i]] /\ type[evs[i]] # "EV_ALWAYS"}
           f == [i \in D |-> Chan(evs[i])]
<1>1. Len(evs) \in Nat /\ DOMAIN evs = 1 .. Len(evs)
  BY LenProperties DEF Links
<1>2. IsFiniteSet(D)
  <2>1. IsFiniteSet(1 .. Len(evs)) /\ D \in SUBSET (1 .. Len(evs))
    BY <1>1, FS_Interval
  <2> HIDE DEF D
  <2>2. QED
    BY <2>1, FS_Subset
<1>3. f \in Surjection(D, Interest)
  <2>1. f \in [D -> Interest]
    BY <1>1 DEF Interest, ToSet
  <2>2. ASSUME NEW c \in Interest PROVE \E i \in D : f[i] = c
    BY <1>1, <2>2 DEF Interest, ToSet
  <2>3. QED
    BY <2>1, <2>2 DEF Surjection
<1> HIDE DEF D, f
<1>4. QED
  BY <1>2, <1>3, FS_Surjection

\* The invariant holds before main() has set anything up.
LEMMA InitEstablishes == Init => IInv
<1> SUFFICES ASSUME Init PROVE IInv
  OBVIOUS
<1>1. Links
  <2>1. evs = <<>> /\ tevs = <<>> /\ <<>> \in Seq(Events) /\ Len(<<>>) = 0
    BY EmptySeq DEF Init
  <2>2. ListsSound /\ PriorityOrder
    BY <2>1 DEF Init, ListsSound, PriorityOrder, NoDuplicates, Sorted, Linked
  <2>3. QED
    BY <2>1, <2>2, EventsAssumption DEF Init, Links
<1>2. Cursors
  BY DEF Init, Cursors, NextevOnList, EventOrNull
<1>3. Times
  <2>1. [sec |-> 0, usec |-> 0] \in Timeval
    BY EventsAssumption DEF Timeval
  <2>2. timeout \in [Events -> Timeval]
    BY <2>1 DEF Init
  <2>3. pc = "setup" /\ calctimeout = FALSE /\ tevs = <<>> /\ timeoutev = NullEv
        /\ now \in Nat /\ wake \in Int
    BY DEF Init
  <2>4. QED
    BY <2>2, <2>3 DEF Times, TimeoutCurrent
<1>4. Pass
  BY FS_EmptySet DEF Init, Pass
<1>5. QED
  BY <1>1, <1>2, <1>3, <1>4 DEF IInv

\* The steps of sched() before and after the walk.
LEMMA PrepareKeeps == IInv /\ Prepare => IInv'
<1> SUFFICES ASSUME IInv, Prepare PROVE IInv'
  OBVIOUS
<1> USE DEF IInv
<1>1. Links'
  BY LinksUnchanged DEF Prepare, lists
<1>2. /\ tevs = <<>> => timeoutev' = NullEv
      /\ tevs # <<>> => /\ timeoutev' \in Events /\ Linked(tevs, timeoutev')
                        /\ \A j \in 1 .. Len(tevs) :
                             Instant(timeout[timeoutev']) <= Instant(timeout[tevs[j]])
  BY EarliestSound DEF Prepare, Times, Links, calctimo
<1>3. tevs # <<>> => queued[timeoutev']
  BY <1>2, LinkedQueued
<1>4. Cursors'
  BY <1>2 DEF Prepare, lists, Cursors, NextevOnList, EventOrNull
<1>5. timeoutev' # NullEv =>
        /\ WaitFor(timeout[timeoutev']) \in Nat
        /\ wake' = now + WaitFor(timeout[timeoutev'])
        /\ wake' >= Instant(timeout[timeoutev']) /\ Instant(timeout[timeoutev']) \in Nat
  BY <1>2, WaitForSound DEF Prepare, Times
<1>6. timeoutev' = NullEv => wake' = MaxNow
  BY DEF Prepare
<1>7. Times'
  <2>1. /\ calctimeout' = calctimeout /\ timeout' = timeout /\ now' = now /\ tevs' = tevs
        /\ queued' = queued /\ pc' = "select"
    BY DEF Prepare, lists
  <2>2. wake' \in Int
    BY <1>5, <1>6, EventsAssumption DEF Times
  <2>3. ~calctimeout' => tevs' = <<>> /\ timeoutev' = NullEv
    BY <2>1, <1>2 DEF Times
  <2>4. TimeoutCurrent'
    BY <2>1, <1>2, <1>3, EventsAssumption DEF TimeoutCurrent
  <2>5. QED
    BY <2>1, <2>2, <2>3, <2>4, <1>5 DEF Times
<1>8. Pass'
  BY InterestFinite DEF Prepare, Pass, lists
<1>9. QED
  BY <1>1, <1>4, <1>7, <1>8

\* select() returned: the walk begins at the head of evs.
LEMMA WalkBegins ==
  ASSUME IInv, UNCHANGED <<lists, cond, timeoutev, now, ops>>,
         pc' = "walk", ev' = First(evs), wake' = 0,
         nsel' \in Int, IsFiniteSet(set'), nsel' # 0 => set' = ready'
  PROVE  IInv'
<1> USE DEF IInv, lists
<1>1. Links'
  BY LinksUnchanged
<1>2. /\ First(evs) \in EventOrNull
      /\ First(evs) # NullEv => Linked(evs, First(evs))
  BY FirstSound DEF Links
<1>3. Cursors'
  BY <1>2, LinkedQueued DEF Cursors, NextevOnList, EventOrNull
<1>4. Times'
  BY TimesUnchanged DEF Times
<1>5. Pass'
  BY DEF Pass
<1>6. QED
  BY <1>1, <1>3, <1>4, <1>5

\* Every way in which select() returns keeps the invariant.
LEMMA SelectKeeps == IInv /\ (SelectReady \/ SelectEintr \/ SelectTimeout) => IInv'
<1> SUFFICES ASSUME IInv, SelectReady \/ SelectEintr \/ SelectTimeout PROVE IInv'
  OBVIOUS
<1>1. CASE SelectReady
  <2>1. PICK s \in SUBSET set \ {{}} : set' = s /\ nsel' = Cardinality(s) /\ StartPass(s)
    BY <1>1 DEF SelectReady
  <2>2. IsFiniteSet(s) /\ Cardinality(s) \in Nat
    BY FS_Subset, FS_CardinalityType DEF IInv, Pass
  <2>3. QED
    BY <1>1, <2>1, <2>2, WalkBegins DEF SelectReady, StartPass
<1>2. CASE SelectEintr
  <2>1. IsFiniteSet(set') /\ nsel' = 0 /\ StartPass({})
    BY <1>2 DEF SelectEintr, IInv, Pass
  <2>2. QED
    BY <1>2, <2>1, WalkBegins DEF SelectEintr, StartPass
<1>3. CASE SelectTimeout
  <2> USE DEF IInv
  <2>1. timeoutev \in Events /\ evdeq(timeoutev) /\ UNCHANGED <<type, timeout, cond, timeoutev>>
    BY <1>3 DEF SelectTimeout, Cursors, EventOrNull
  <2>2. /\ Links' /\ NextevOnList' /\ nextev' \in EventOrNull
        /\ calctimeout' \in BOOLEAN /\ (calctimeout => calctimeout')
    BY <2>1, EvdeqKeeps DEF Times, Cursors
  <2>3. Cursors'
    BY <1>3, <2>1, <2>2 DEF SelectTimeout, Cursors, EventOrNull
  <2>4. calctimeout'
    BY <2>1, <2>2, EventsAssumption DEF Times
  <2>5. Times'
    BY <1>3, <2>1, <2>4 DEF SelectTimeout, StartPass, Times, TimeoutCurrent
  <2>6. Pass'
    BY <1>3, FS_EmptySet DEF SelectTimeout, Pass
  <2>7. QED
    BY <2>2, <2>3, <2>5, <2>6
<1>4. QED
  BY <1>1, <1>2, <1>3

\* The walk goes on to an event that is on the list.
LEMMA WalkMoves ==
  ASSUME Links, Cursors, pc = "walk", ev # NullEv
  PROVE  /\ NextIn(evs, ev) \in EventOrNull
         /\ NextIn(evs, ev) # NullEv =>
              queued[NextIn(evs, ev)] /\ type[NextIn(evs, ev)] # "EV_TIMEOUT"
<1>1. ev \in Events /\ Linked(evs, ev)
  BY LinkedQueued DEF Cursors, EventOrNull
<1>2. /\ NextIn(evs, ev) \in EventOrNull
      /\ NextIn(evs, ev) # NullEv => Linked(evs, NextIn(evs, ev))
  BY <1>1, NextInSound DEF Links, ListsSound
<1>3. QED
  BY <1>2, LinkedQueued DEF EventOrNull

\* Every step of the walk over evs keeps the invariant.
LEMMA WalkKeeps == IInv /\ (Skip \/ CondFailed \/ Dispatch \/ EndPass) => IInv'
<1> SUFFICES ASSUME IInv, Skip \/ CondFailed \/ Dispatch \/ EndPass PROVE IInv'
  OBVIOUS
<1> USE DEF IInv
<1>1. Links'
  BY LinksUnchanged DEF Skip, CondFailed, Dispatch, EndPass, lists
<1>2. Times'
  BY TimesUnchanged DEF Skip, CondFailed, Dispatch, EndPass, lists, Times
<1>3. CASE Skip
  <2>1. Cursors'
    BY <1>3, WalkMoves DEF Skip, Cursors, NextevOnList
  <2>2. Pass'
    BY <1>3 DEF Skip, Pass, history
  <2>3. QED
    BY <1>1, <1>2, <2>1, <2>2
<1>4. CASE CondFailed
  <2>1. Cursors'
    BY <1>4, WalkMoves DEF CondFailed, Cursors, NextevOnList
  <2>2. nsel' \in Int /\ (nsel' # 0 => nsel # 0)
    BY <1>4 DEF CondFailed, Pass, Hit, CountHit
  <2>3. Pass'
    BY <1>4, <2>2 DEF CondFailed, Pass, history
  <2>4. QED
    BY <1>1, <1>2, <2>1, <2>3
<1>5. CASE Dispatch
  <2>1. Cursors'
    BY <1>5, WalkMoves DEF Dispatch, Cursors, NextevOnList
  <2>2. nsel' \in Int /\ (nsel' # 0 => nsel # 0)
    BY <1>5 DEF Dispatch, Pass, Hit, CountHit
  <2>3. Pass'
    BY <1>5, <2>2 DEF Dispatch, Pass
  <2>4. QED
    BY <1>1, <1>2, <2>1, <2>3
<1>6. CASE EndPass
  <2>1. Cursors'
    BY <1>6 DEF EndPass, lists, Cursors, NextevOnList
  <2>2. Pass'
    BY <1>6, FS_EmptySet DEF EndPass, Pass
  <2>3. QED
    BY <1>1, <1>2, <2>1, <2>2
<1>7. QED
  BY <1>3, <1>4, <1>5, <1>6

\* The steps before the loop keep the invariant.
LEMMA StartKeeps == IInv /\ (Setup \/ EnterSched) => IInv'
<1> SUFFICES ASSUME IInv, Setup \/ EnterSched PROVE IInv'
  OBVIOUS
<1> USE DEF IInv
<1>1. CASE Setup
  <2>1. PICK e \in Events : evenq(e)
    BY <1>1 DEF Setup
  <2>2. UNCHANGED <<nextev, type, timeout, cond, pc, locals, now, wake, ops, history>> /\ pc = "setup"
    BY <1>1 DEF Setup
  <2>3. /\ Links' /\ calctimeout' \in BOOLEAN /\ (calctimeout => calctimeout')
        /\ (~calctimeout' => tevs' = <<>>)
        /\ \A x \in Events : queued[x] => queued'[x]
    BY <2>1, <2>2, EvenqKeeps DEF Times
  <2>4. Cursors'
    BY <2>2, <2>3 DEF Cursors, NextevOnList, EventOrNull, locals
  <2>5. Times'
    BY <2>2, <2>3 DEF Times, TimeoutCurrent, locals
  <2>6. Pass'
    BY <2>2 DEF Pass, locals, history
  <2>7. QED
    BY <2>3, <2>4, <2>5, <2>6
<1>2. CASE EnterSched
  <2>1. Links'
    BY <1>2, LinksUnchanged DEF EnterSched, lists
  <2>2. Cursors'
    BY <1>2 DEF EnterSched, lists, locals, Cursors, NextevOnList
  <2>3. Times'
    BY <1>2, TimesUnchanged DEF EnterSched, lists, locals, Times
  <2>4. Pass'
    BY <1>2 DEF EnterSched, locals, history, Pass
  <2>5. QED
    BY <2>1, <2>2, <2>3, <2>4
<1>3. QED
  BY <1>1, <1>2

\* What an operation of a handler leaves alone keeps the last part.
LEMMA HandlerOpPass ==
  ASSUME Pass, HandlerOp, cond' \in [Events -> BOOLEAN]
  PROVE  Pass'
BY DEF Pass, HandlerOp, locals

\* Whatever a handler does to the loop keeps the invariant.
LEMMA HandlerKeeps == IInv /\ Handler => IInv'
<1> SUFFICES ASSUME IInv, Handler PROVE IInv'
  OBVIOUS
<1> USE DEF IInv
<1>1. CASE HandlerReturn
  <2>1. Links'
    BY <1>1, LinksUnchanged DEF HandlerReturn, lists
  <2>2. First(evs) \in EventOrNull /\ (First(evs) # NullEv => Linked(evs, First(evs)))
    BY FirstSound DEF Links
  <2>3. Cursors'
    BY <1>1, <2>2, LinkedQueued
       DEF HandlerReturn, InHandler, lists, Cursors, NextevOnList, EventOrNull
  <2>4. Times'
    BY <1>1, TimesUnchanged DEF HandlerReturn, lists, Times
  <2>5. Pass'
    BY <1>1 DEF HandlerReturn, InHandler, Pass, history
  <2>6. QED
    BY <2>1, <2>3, <2>4, <2>5
<1>2. ASSUME NEW e \in Events, HandlerEvenq(e)
      PROVE  IInv'
  <2>1. /\ evenq(e) /\ UNCHANGED <<nextev, type, timeout, cond>>
        /\ UNCHANGED <<pc, locals, now, wake>> /\ pc \in {"handler", "thandler"}
    BY <1>2 DEF HandlerEvenq, HandlerOp, InHandler
  <2>2. /\ Links' /\ calctimeout' \in BOOLEAN /\ (calctimeout => calctimeout')
        /\ (~calctimeout' => tevs' = <<>>)
        /\ \A x \in Events : queued[x] => queued'[x]
    BY <2>1, EvenqKeeps DEF Times
  <2>3. Cursors'
    BY <2>1, <2>2 DEF Cursors, NextevOnList, EventOrNull, locals
  <2>4. Times'
    BY <2>1, <2>2 DEF Times, TimeoutCurrent, locals
  <2>5. Pass'
    BY <1>2, <2>1, HandlerOpPass DEF HandlerEvenq, Pass
  <2>6. QED
    BY <2>2, <2>3, <2>4, <2>5
<1>3. ASSUME NEW e \in Events, HandlerEvdeq(e)
      PROVE  IInv'
  <2>1. /\ evdeq(e) /\ UNCHANGED <<type, timeout, cond>>
        /\ UNCHANGED <<pc, locals, now, wake>> /\ pc \in {"handler", "thandler"}
    BY <1>3 DEF HandlerEvdeq, HandlerOp, InHandler
  <2>2. /\ Links' /\ NextevOnList' /\ nextev' \in EventOrNull
        /\ calctimeout' \in BOOLEAN /\ (calctimeout => calctimeout')
        /\ (~calctimeout' => tevs' = <<>>)
    BY <2>1, EvdeqKeeps DEF Times, Cursors
  <2>3. Cursors'
    BY <2>1, <2>2 DEF Cursors, EventOrNull, locals
  <2>4. Times'
    BY <2>1, <2>2 DEF Times, TimeoutCurrent, locals
  <2>5. Pass'
    BY <1>3, <2>1, HandlerOpPass DEF HandlerEvdeq, Pass
  <2>6. QED
    BY <2>2, <2>3, <2>4, <2>5
<1>4. ASSUME NEW e \in Events, NEW timo \in Delays, SetTimeout(e, timo)
      PROVE  IInv'
  <2>1. /\ UNCHANGED <<evs, tevs, nextev, queued, type, cond>>
        /\ UNCHANGED <<pc, locals, now, wake>> /\ pc \in {"handler", "thandler"}
        /\ calctimeout' = (calctimeout \/ queued[e])
        /\ timeout' = [timeout EXCEPT ![e] = AddDelay(Clock(now), timo)]
        /\ type[e] = "EV_TIMEOUT"
    BY <1>4 DEF SetTimeout, HandlerOp, InHandler
  <2>2. Links'
    BY <2>1, LinksUnchanged
  <2>3. Cursors'
    BY <2>1 DEF Cursors, NextevOnList, locals
  <2>4. AddDelay(Clock(now), timo) \in Timeval
    BY DeadlineType DEF Times
  <2>5. calctimeout' \in BOOLEAN /\ (~calctimeout' => ~calctimeout)
    BY <2>1 DEF Times, Links
  <2>6. Times'
    BY <2>1, <2>4, <2>5 DEF Times, TimeoutCurrent, locals
  <2>7. Pass'
    BY <1>4, <2>1, HandlerOpPass DEF SetTimeout, Pass
  <2>8. QED
    BY <2>2, <2>3, <2>6, <2>7
<1>5. ASSUME NEW e \in Events, NEW timo \in Delays, WriteEagain(e, timo)
      PROVE  IInv'
  <2>1. /\ UNCHANGED <<pc, locals, now, wake, cond>> /\ pc = "handler"
        /\ calctimeout' = TRUE
        /\ timeout' = [timeout EXCEPT ![e] = AddDelay(Clock(now), timo)]
    BY <1>5 DEF WriteEagain, HandlerOp
  <2>2. Links' /\ NextevOnList' /\ nextev' \in EventOrNull
    BY <1>5, WriteEagainKeeps DEF Cursors
  <2>3. Cursors'
    BY <2>1, <2>2 DEF Cursors, locals
  <2>4. AddDelay(Clock(now), timo) \in Timeval
    BY DeadlineType DEF Times
  <2>5. Times'
    BY <2>1, <2>4 DEF Times, TimeoutCurrent, locals
  <2>6. Pass'
    BY <1>5, <2>1, HandlerOpPass DEF WriteEagain, Pass
  <2>7. QED
    BY <2>2, <2>3, <2>5, <2>6
<1>6. ASSUME NEW e \in Events, disp_writeev_eagain(e)
      PROVE  IInv'
  <2>1. /\ UNCHANGED <<timeout, cond>> /\ UNCHANGED <<pc, locals, now, wake>> /\ pc = "thandler"
        /\ calctimeout' = (calctimeout \/ queued[e])
        /\ tevs' = IF queued[e] THEN Unlink(tevs, e) ELSE tevs
    BY <1>6 DEF disp_writeev_eagain, HandlerOp
  <2>2. Links' /\ NextevOnList' /\ nextev' \in EventOrNull
    BY <1>6, WriteAgainKeeps DEF Cursors
  <2>3. Cursors'
    BY <2>1, <2>2 DEF Cursors, locals
  <2>4. calctimeout' \in BOOLEAN /\ (~calctimeout' => ~calctimeout /\ tevs' = tevs)
    BY <2>1 DEF Times, Links
  <2>5. Times'
    BY <2>1, <2>4 DEF Times, TimeoutCurrent, locals
  <2>6. Pass'
    BY <1>6, <2>1, HandlerOpPass DEF disp_writeev_eagain, Pass
  <2>7. QED
    BY <2>2, <2>3, <2>5, <2>6
<1>7. ASSUME NEW e \in Events, HandlerCond(e)
      PROVE  IInv'
  <2>1. /\ UNCHANGED lists /\ UNCHANGED <<pc, locals, now, wake>> /\ pc \in {"handler", "thandler"}
        /\ cond' = [cond EXCEPT ![e] = ~cond[e]]
    BY <1>7 DEF HandlerCond, HandlerOp, InHandler
  <2>2. Links'
    BY <2>1, LinksUnchanged DEF lists
  <2>3. Cursors'
    BY <2>1 DEF Cursors, NextevOnList, locals, lists
  <2>4. Times'
    BY <2>1, TimesUnchanged DEF Times, locals, lists
  <2>5. cond' \in [Events -> BOOLEAN]
    BY <2>1 DEF Pass
  <2>6. Pass'
    BY <1>7, <2>5, HandlerOpPass DEF HandlerCond
  <2>7. QED
    BY <2>2, <2>3, <2>4, <2>6
<1>8. QED
  BY <1>1, <1>2, <1>3, <1>4, <1>5, <1>6, <1>7 DEF Handler

\* So does a step of somebody else.
LEMMA StutterKeeps == IInv /\ UNCHANGED vars => IInv'
<1> SUFFICES ASSUME IInv, UNCHANGED vars PROVE IInv'
  OBVIOUS
<1> USE DEF IInv, vars, lists, locals, history
<1>1. Links'
  BY LinksUnchanged
<1>2. Cursors'
  BY DEF Cursors, NextevOnList
<1>3. Times'
  BY DEF Times, TimeoutCurrent
<1>4. Pass'
  BY DEF Pass
<1>5. QED
  BY <1>1, <1>2, <1>3, <1>4

\* The invariant is inductive.
LEMMA NextKeeps == IInv /\ [Next]_vars => IInv'
<1> SUFFICES ASSUME IInv, [Next]_vars PROVE IInv'
  OBVIOUS
<1>1. CASE Setup \/ EnterSched
  BY <1>1, StartKeeps
<1>2. CASE Loop
  BY <1>2, PrepareKeeps, SelectKeeps, WalkKeeps DEF Loop
<1>3. CASE Handler
  BY <1>3, HandlerKeeps
<1>4. CASE UNCHANGED vars
  BY <1>4, StutterKeeps
<1>5. QED
  BY <1>1, <1>2, <1>3, <1>4 DEF Next

\* The invariant holds in every reachable state.
LEMMA Inductive == Spec => []IInv
BY InitEstablishes, NextKeeps, PTL DEF Spec

-----------------------------------------------------------------------------
(* The results.                                                            *)

\* sched.c keeps its variables in their types; in particular every timeval that
\* SetTimeout stores has a tv_usec of at most one second.
THEOREM TypeCorrect == Spec => []TypeOK
<1>1. IInv => TypeOK
  BY DEF IInv, Links, Cursors, Times, Pass, TypeOK
<1>2. QED
  BY <1>1, Inductive, PTL

\* evenq and evdeq keep the two lists and the `queued' flags in agreement, for
\* every sequence of calls that handlers make, changes of type included.
THEOREM ListsCorrect == Spec => []ListsSound
<1>1. IInv => ListsSound
  BY DEF IInv, Links
<1>2. QED
  BY <1>1, Inductive, PTL

\* evenq keeps both lists ordered by priority.
THEOREM OrderCorrect == Spec => []PriorityOrder
<1>1. IInv => PriorityOrder
  BY DEF IInv, Links
<1>2. QED
  BY <1>1, Inductive, PTL

\* What the runs check of the lists, in one.
THEOREM ListsOrderedCorrect == Spec => []ListsOrdered
BY ListsCorrect, OrderCorrect, PTL DEF ListsOrdered

\* The walk of sched() never reaches an event that a handler has dequeued.
THEOREM WalkCorrect == Spec => []WalkOnQueued
<1>1. IInv => WalkOnQueued
  BY DEF IInv, Cursors, NextevOnList, WalkOnQueued
<1>2. QED
  BY <1>1, Inductive, PTL

\* select() is always given the earliest of the queued timeouts.
THEOREM TimeoutCorrect == Spec => []TimeoutCurrent
<1>1. IInv => TimeoutCurrent
  BY DEF IInv, Times
<1>2. QED
  BY <1>1, Inductive, PTL

\* What the runs check of the timeouts, in one.
THEOREM TimeoutsCorrect == Spec => []TimeoutsSound
BY TypeCorrect, TimeoutCorrect, PTL DEF TimeoutsSound

\* Handlers of descriptors are called for what select() has just reported.
THEOREM DispatchCorrect == Spec => OnlyReadyDispatched
<1>1. IInv /\ [Next]_vars =>
        [pc = "walk" /\ pc' = "handler" =>
           /\ cond[ev]
           /\ type[ev] # "EV_ALWAYS" => Chan(ev) \in ready]_vars
  <2> SUFFICES ASSUME IInv, Next, pc = "walk", pc' = "handler"
               PROVE  cond[ev] /\ (type[ev] # "EV_ALWAYS" => Chan(ev) \in ready)
    BY DEF vars
  <2>1. Dispatch
    BY DEF Next, Setup, EnterSched, Loop, Prepare, SelectReady, SelectEintr, SelectTimeout, Skip,
           CondFailed, EndPass, Handler, HandlerReturn, InHandler, HandlerEvenq, HandlerEvdeq,
           SetTimeout, WriteEagain, disp_writeev_eagain, HandlerCond, HandlerOp
  <2>2. QED
    BY <2>1 DEF Dispatch, Hit, IInv, Pass
<1>2. QED
  BY <1>1, Inductive, PTL DEF Spec, OnlyReadyDispatched

\* No handler of a timeout runs before its deadline.
THEOREM DeadlineCorrect == Spec => NeverEarly
<1>1. IInv /\ [Next]_vars =>
        [pc = "select" /\ pc' = "thandler" => now' >= Instant(timeout[timeoutev])]_vars
  <2> SUFFICES ASSUME IInv, Next, pc = "select", pc' = "thandler"
               PROVE  now' >= Instant(timeout[timeoutev])
    BY DEF vars
  <2>1. SelectTimeout
    BY DEF Next, Setup, EnterSched, Loop, Prepare, SelectReady, SelectEintr, Skip, CondFailed,
           Dispatch, EndPass, Handler, HandlerReturn, InHandler, HandlerEvenq, HandlerEvdeq,
           SetTimeout, WriteEagain, disp_writeev_eagain, HandlerCond, HandlerOp
  <2>2. timeoutev # NullEv /\ now' = IF wake > now THEN wake ELSE now
    BY <2>1 DEF SelectTimeout
  <2>3. now' >= wake
    BY <2>2 DEF IInv, Times
  <2>4. wake >= Instant(timeout[timeoutev]) /\ Instant(timeout[timeoutev]) \in Nat
        /\ wake \in Int /\ now' \in Int
    BY <2>2 DEF IInv, Times
  <2>5. QED
    BY <2>3, <2>4
<1>2. QED
  BY <1>1, Inductive, PTL DEF Spec, NeverEarly

-----------------------------------------------------------------------------
(* No event is missed in a pass over the list, however the handlers change  *)
(* the list and although sched() stops looking at the descriptors when as   *)
(* many as select() reported have been served.                              *)


\* A descriptor has at most one event that reads from it and one that writes, as D_readev and
\* D_writeev of a terminal, w_readev and w_writeev of a pty.  (A telnet window that is still
\* connecting is the exception: w_telconnev waits to write beside w_writeev, and one of the two
\* may have to wait for the next pass.)
OneEventPerChannel ==
  \A e, f \in Events :
    Fd[e] = Fd[f] /\ InitType[e] = InitType[f] /\ InitType[e] \in {"EV_READ", "EV_WRITE"} => e = f

-----------------------------------------------------------------------------
(* The invariant.                                                          *)

\* x is c, or behind c on the list s
NotBefore(s, c, x) == \E i, j \in 1 .. Len(s) : i <= j /\ s[i] = c /\ s[j] = x

\* where the walk is, or goes on when the handler returns
Cursor == IF pc = "handler" THEN nextev ELSE ev

\* what select() reported and the walk has yet to come to
Due == {e \in Events : NotBefore(evs, Cursor, e) /\ Chan(e) \in ready}

\* A handler changes only events that wait to write.
TypesKept ==
  \A e \in Events : type[e] = InitType[e] \/ (e \in Switchers /\ type[e] = "EV_TIMEOUT")

\* The stable events are on the list, unblocked.
StableSound == \A e \in stable : e \in Events /\ Linked(evs, e) /\ cond[e]

\* select() was asked about descriptors only, and reported what it was asked about;
\* and the timeout it waits for is one.
ReadySound ==
  /\ \A c \in set : c[2] \in {"EV_READ", "EV_WRITE"}
  /\ ready \subseteq set
  /\ pc \in {"setup", "prepare", "select", "thandler"} => ready = {}
  /\ pc = "thandler" => nsel = 0
  /\ pc = "select" /\ timeoutev # NullEv => type[timeoutev] = "EV_TIMEOUT"

\* The countdown covers what is due, and whoever has to be served is served, or ahead.
NoneMissed ==
  pc \in {"walk", "handler"} /\ ~refilled =>
    /\ IsFiniteSet(Due) /\ Cardinality(Due) <= nsel
    /\ \A e \in stable :
         type[e] = "EV_ALWAYS" \/ Chan(e) \in ready => e \in done \/ NotBefore(evs, Cursor, e)

PInv == TypesKept /\ StableSound /\ ReadySound /\ NoneMissed

-----------------------------------------------------------------------------
(* The order of the list.                                                  *)

\* evenq puts e somewhere and leaves the others in their order.
LEMMA InsertOrder ==
  ASSUME NEW s \in Seq(Events), NEW e \in Events, NEW c, NEW x, c # e, x # e
  PROVE  NotBefore(Insert(s, e), c, x) <=> NotBefore(s, c, x)
<1> DEFINE t == Insert(s, e)
<1>1. PICK k \in 1 .. Len(s) + 1 : t = InsertAt(s, k, e)
  BY PlaceSound DEF Insert
<1>2. Len(s) \in Nat
  BY LenProperties
<1> HIDE DEF t
<1>3. /\ Len(t) = Len(s) + 1
      /\ \A j \in 1 .. Len(s) + 1 : t[j] = IF j < k THEN s[j] ELSE IF j = k THEN e ELSE s[j - 1]
  BY <1>1, InsertAtShape, SMTT(30)
<1>4. ASSUME NotBefore(t, c, x) PROVE NotBefore(s, c, x)
  <2>1. PICK i \in 1 .. Len(t), j \in 1 .. Len(t) : i <= j /\ t[i] = c /\ t[j] = x
    BY <1>4 DEF NotBefore
  <2> DEFINE f(m) == IF m < k THEN m ELSE m - 1
  <2>2. i # k /\ j # k
    BY <1>3, <2>1
  <2>3. f(i) \in 1 .. Len(s) /\ f(j) \in 1 .. Len(s) /\ f(i) <= f(j)
    BY <1>2, <1>3, <2>1, <2>2
  <2>4. s[f(i)] = c /\ s[f(j)] = x
    BY <1>2, <1>3, <2>1, <2>2
  <2>5. QED
    BY <2>3, <2>4 DEF NotBefore
<1>5. ASSUME NotBefore(s, c, x) PROVE NotBefore(t, c, x)
  <2>1. PICK i \in 1 .. Len(s), j \in 1 .. Len(s) : i <= j /\ s[i] = c /\ s[j] = x
    BY <1>5 DEF NotBefore
  <2> DEFINE f(m) == IF m < k THEN m ELSE m + 1
  <2>2. f(i) \in 1 .. Len(t) /\ f(j) \in 1 .. Len(t) /\ f(i) <= f(j)
    BY <1>2, <1>3, <2>1
  <2>3. t[f(i)] = c /\ t[f(j)] = x
    BY <1>2, <1>3, <2>1
  <2>4. QED
    BY <2>2, <2>3 DEF NotBefore
<1>6. QED
  BY <1>4, <1>5 DEF t

\* evdeq takes e out and leaves the others in their order.
LEMMA UnlinkOrder ==
  ASSUME NEW s \in Seq(Events), NEW e \in Events, Linked(s, e), NoDuplicates(s),
         NEW c, NEW x, c # e, x # e
  PROVE  NotBefore(Unlink(s, e), c, x) <=> NotBefore(s, c, x)
<1> DEFINE t == Unlink(s, e)
<1>1. PICK k \in 1 .. Len(s) : t = RemoveAt(s, k) /\ s[k] = e
  BY DEF Unlink, Linked
<1>2. Len(s) \in Nat
  BY LenProperties
<1> HIDE DEF t
<1>3. /\ Len(t) = Len(s) - 1
      /\ \A j \in 1 .. Len(s) - 1 : t[j] = IF j < k THEN s[j] ELSE s[j + 1]
  BY <1>1, RemoveAtShape
<1>4. ASSUME NotBefore(t, c, x) PROVE NotBefore(s, c, x)
  <2>1. PICK i \in 1 .. Len(t), j \in 1 .. Len(t) : i <= j /\ t[i] = c /\ t[j] = x
    BY <1>4 DEF NotBefore
  <2> DEFINE f(m) == IF m < k THEN m ELSE m + 1
  <2>2. f(i) \in 1 .. Len(s) /\ f(j) \in 1 .. Len(s) /\ f(i) <= f(j)
    BY <1>2, <1>3, <2>1
  <2>3. s[f(i)] = c /\ s[f(j)] = x
    BY <1>2, <1>3, <2>1
  <2>4. QED
    BY <2>2, <2>3 DEF NotBefore
<1>5. ASSUME NotBefore(s, c, x) PROVE NotBefore(t, c, x)
  <2>1. PICK i \in 1 .. Len(s), j \in 1 .. Len(s) : i <= j /\ s[i] = c /\ s[j] = x
    BY <1>5 DEF NotBefore
  <2> DEFINE f(m) == IF m < k THEN m ELSE m - 1
  <2>2. i # k /\ j # k
    BY <1>1, <2>1
  <2>3. f(i) \in 1 .. Len(t) /\ f(j) \in 1 .. Len(t) /\ f(i) <= f(j)
    BY <1>2, <1>3, <2>1, <2>2
  <2>4. t[f(i)] = c /\ t[f(j)] = x
    BY <1>2, <1>3, <2>1, <2>2
  <2>5. QED
    BY <2>3, <2>4 DEF NotBefore
<1>6. QED
  BY <1>4, <1>5 DEF t

\* What is behind c is what is not before the event after c.
LEMMA NextOrder ==
  ASSUME NEW s \in Seq(Events), NEW c \in Events, Linked(s, c), NoDuplicates(s), NEW x
  PROVE  NotBefore(s, NextIn(s, c), x) <=> NotBefore(s, c, x) /\ x # c
<1>1. Len(s) \in Nat /\ \A j \in 1 .. Len(s) : s[j] \in Events
  BY LenProperties, ElementOfSeq
<1>2. PICK k \in 1 .. Len(s) : /\ s[k] = c
                               /\ NextIn(s, c) = IF k < Len(s) THEN s[k + 1] ELSE NullEv
  BY DEF NextIn, Linked
<1>3. \A m \in 1 .. Len(s) : s[m] = c => m = k
  BY <1>2 DEF NoDuplicates
<1>4. CASE k < Len(s)
  <2>1. k + 1 \in 1 .. Len(s) /\ NextIn(s, c) = s[k + 1]
    BY <1>1, <1>2, <1>4
  <2>2. \A m \in 1 .. Len(s) : s[m] = s[k + 1] => m = k + 1
    BY <2>1 DEF NoDuplicates
  <2>3. ASSUME NotBefore(s, NextIn(s, c), x) PROVE NotBefore(s, c, x) /\ x # c
    <3>1. PICK i \in 1 .. Len(s), j \in 1 .. Len(s) : i <= j /\ s[i] = s[k + 1] /\ s[j] = x
      BY <2>1, <2>3 DEF NotBefore
    <3>2. i = k + 1 /\ k <= j /\ j # k
      BY <1>1, <2>2, <3>1
    <3>3. QED
      BY <1>2, <1>3, <3>1, <3>2 DEF NotBefore
  <2>4. ASSUME NotBefore(s, c, x), x # c PROVE NotBefore(s, NextIn(s, c), x)
    <3>1. PICK i \in 1 .. Len(s), j \in 1 .. Len(s) : i <= j /\ s[i] = c /\ s[j] = x
      BY <2>4 DEF NotBefore
    <3>2. i = k /\ j # k /\ k + 1 <= j
      BY <1>2, <1>3, <2>4, <3>1
    <3>3. QED
      BY <2>1, <3>1, <3>2 DEF NotBefore
  <2>5. QED
    BY <2>3, <2>4
<1>5. CASE ~(k < Len(s))
  <2>1. k = Len(s) /\ NextIn(s, c) = NullEv
    BY <1>1, <1>2, <1>5
  <2>2. ~NotBefore(s, NextIn(s, c), x)
    BY <1>1, <2>1, EventsAssumption DEF NotBefore
  <2>3. ASSUME NotBefore(s, c, x) PROVE x = c
    <3>1. PICK i \in 1 .. Len(s), j \in 1 .. Len(s) : i <= j /\ s[i] = c /\ s[j] = x
      BY <2>3 DEF NotBefore
    <3>2. i = k /\ j = k
      BY <1>1, <1>3, <2>1, <3>1
    <3>3. QED
      BY <1>2, <3>1, <3>2
  <2>4. QED
    BY <2>2, <2>3
<1>6. QED
  BY <1>4, <1>5

\* Nothing is before the first event.
LEMMA FirstOrder ==
  ASSUME NEW s \in Seq(Events), NEW x, Linked(s, x)
  PROVE  NotBefore(s, First(s), x)
<1>1. PICK j \in 1 .. Len(s) : s[j] = x
  BY DEF Linked
<1>2. Len(s) \in Nat /\ 1 \in 1 .. Len(s) /\ s # <<>>
  BY <1>1, LenProperties, EmptySeq
<1>3. First(s) = s[1]
  BY <1>2 DEF First
<1>4. QED
  BY <1>1, <1>2, <1>3 DEF NotBefore

\* Only events of the list are behind something, and nothing is behind the null pointer.
LEMMA OrderLinked ==
  ASSUME NEW s \in Seq(Events), NEW c, NEW x, NotBefore(s, c, x)
  PROVE  Linked(s, c) /\ Linked(s, x) /\ c # NullEv /\ x \in Events
<1>1. Len(s) \in Nat /\ \A j \in 1 .. Len(s) : s[j] \in Events
  BY LenProperties, ElementOfSeq
<1>2. QED
  BY <1>1, EventsAssumption DEF NotBefore, Linked

\* evenq: the order of what was on the list stays.
LEMMA EvenqOrder ==
  ASSUME Links, NEW e \in Events, evenq(e), NEW c, c # NullEv => Linked(evs, c),
         NEW x \in Events
  PROVE  /\ NotBefore(evs, c, x) => NotBefore(evs', c, x)
         /\ NotBefore(evs', c, x) =>
              NotBefore(evs, c, x) \/ (x = e /\ ~queued[e] /\ c # NullEv)
<1>1. CASE queued[e] \/ type[e] = "EV_TIMEOUT"
  <2>1. evs' = evs
    BY <1>1 DEF evenq
  <2>2. QED
    BY <2>1
<1>2. CASE ~queued[e] /\ type[e] # "EV_TIMEOUT"
  <2>1. evs' = Insert(evs, e) /\ ~Linked(evs, e) /\ evs \in Seq(Events) /\ NoDuplicates(evs)
    BY <1>2, LinkedQueued DEF evenq, Links, ListsSound
  <2>2. Insert(evs, e) \in Seq(Events)
    BY <2>1, InsertSound
  <2>3. CASE c = NullEv
    BY <2>1, <2>2, <2>3, OrderLinked
  <2>4. CASE c # NullEv
    <3>1. c # e
      BY <2>1, <2>4
    <3>2. CASE x # e
      BY <2>1, <3>1, <3>2, InsertOrder
    <3>3. CASE x = e
      <4>1. ~NotBefore(evs, c, x)
        BY <2>1, <3>3, OrderLinked
      <4>2. QED
        BY <1>2, <2>4, <3>3, <4>1
    <3>4. QED
      BY <3>2, <3>3
  <2>5. QED
    BY <2>3, <2>4
<1>3. QED
  BY <1>1, <1>2

\* evdeq: the order of what stays on the list stays, seen from nextev.
LEMMA EvdeqOrder ==
  ASSUME Links, NEW e \in Events, nextev \in EventOrNull, NEW x,
         \/ UNCHANGED <<evs, nextev>>
         \/ /\ queued[e] /\ type[e] # "EV_TIMEOUT"
            /\ evs' = Unlink(evs, e)
            /\ nextev' = IF e = nextev THEN NextIn(evs, nextev) ELSE nextev
  PROVE  /\ NotBefore(evs', nextev', x) => NotBefore(evs, nextev, x)
         /\ NotBefore(evs, nextev, x) /\ x # e => NotBefore(evs', nextev', x)
<1>1. CASE UNCHANGED <<evs, nextev>>
  BY <1>1
<1>2. CASE /\ queued[e] /\ type[e] # "EV_TIMEOUT"
           /\ evs' = Unlink(evs, e)
           /\ nextev' = IF e = nextev THEN NextIn(evs, nextev) ELSE nextev
  <2>1. /\ evs' = Unlink(evs, e) /\ Linked(evs, e) /\ evs \in Seq(Events) /\ NoDuplicates(evs)
        /\ nextev' = IF e = nextev THEN NextIn(evs, nextev) ELSE nextev
    BY <1>2, LinkedQueued DEF Links, ListsSound
  <2>2. /\ Unlink(evs, e) \in Seq(Events)
        /\ \A y \in Events : Linked(Unlink(evs, e), y) <=> y # e /\ Linked(evs, y)
    BY <2>1, UnlinkSound
  <2>3. NotBefore(evs', nextev', x) => x # e
    BY <2>1, <2>2, OrderLinked
  <2>4. nextev' # e
    <3>1. NextIn(evs, e) # e
      BY <2>1, NextInSound, EventsAssumption
    <3>2. QED
      BY <2>1, <3>1
  <2>5. x # e => (NotBefore(evs', nextev', x) <=> NotBefore(evs, nextev', x))
    BY <2>1, <2>4, UnlinkOrder
  <2>6. NotBefore(evs, nextev', x) => NotBefore(evs, nextev, x)
    BY <2>1, NextOrder
  <2>7. NotBefore(evs, nextev, x) /\ x # e => NotBefore(evs, nextev', x)
    BY <2>1, NextOrder
  <2>8. QED
    BY <2>3, <2>5, <2>6, <2>7
<1>3. QED
  BY <1>1, <1>2

-----------------------------------------------------------------------------
(* The invariant is kept: types, stable events, what is ready.              *)

\* Only disp_writeev_fn and disp_writeev_eagain change a type, of events that wait to write.
LEMMA TypesStay ==
  ASSUME Links, TypesKept, [Next]_vars
  PROVE  TypesKept'
<1>1. ASSUME UNCHANGED type PROVE TypesKept'
  BY <1>1 DEF TypesKept
<1>2. ASSUME NEW e \in Events, disp_writeev_eagain(e) \/ \E timo \in Delays : WriteEagain(e, timo)
      PROVE  TypesKept'
  <2>1. /\ e \in Switchers /\ InitType[e] = "EV_WRITE"
        /\ \/ type' = [type EXCEPT ![e] = "EV_TIMEOUT"]
           \/ type' = [type EXCEPT ![e] = "EV_WRITE"]
    BY <1>2, EventsAssumption DEF WriteEagain, disp_writeev_eagain
  <2>2. type \in [Events -> Types]
    BY DEF Links
  <2>3. QED
    BY <2>1, <2>2 DEF TypesKept
<1>3. CASE UNCHANGED vars
  BY <1>1, <1>3 DEF vars, lists
<1>4. CASE Setup \/ EnterSched \/ Loop
  BY <1>1, <1>4 DEF Setup, EnterSched, Loop, Prepare, SelectReady, SelectEintr, SelectTimeout,
                    Skip, CondFailed, Dispatch, EndPass, lists
<1>5. CASE Handler
  BY <1>1, <1>2, <1>5 DEF Handler, HandlerEvenq, HandlerEvdeq, SetTimeout, HandlerCond,
                          HandlerReturn, lists
<1>6. QED
  BY <1>3, <1>4, <1>5 DEF Next

\* select() is asked about descriptors only, and for a timeout it waits as long as it asks.
LEMMA PrepareAsks ==
  ASSUME IInv, Prepare
  PROVE  /\ \A c \in set' : c[2] \in {"EV_READ", "EV_WRITE"}
         /\ timeoutev' # NullEv => type[timeoutev'] = "EV_TIMEOUT"
<1>1. ASSUME NEW e \in Events, Linked(evs, e), type[e] # "EV_ALWAYS"
      PROVE  Chan(e)[2] \in {"EV_READ", "EV_WRITE"}
  <2>1. type[e] # "EV_TIMEOUT" /\ type[e] \in Types
    BY <1>1, LinkedQueued DEF IInv, Links
  <2>2. QED
    BY <1>1, <2>1 DEF Chan, Types
<1>2. \A e \in ToSet(evs) : e \in Events /\ Linked(evs, e)
  <2>1. \A i \in 1 .. Len(evs) : evs[i] \in Events
    BY ElementOfSeq DEF IInv, Links
  <2>2. DOMAIN evs = 1 .. Len(evs)
    BY LenProperties DEF IInv, Links
  <2>3. QED
    BY <2>1, <2>2 DEF ToSet, Linked
<1>3. \A c \in set' : c[2] \in {"EV_READ", "EV_WRITE"}
  <2>1. set' = Interest
    BY DEF Prepare
  <2>2. QED
    BY <2>1, <1>1, <1>2 DEF Interest
<1>4. ASSUME timeoutev' # NullEv PROVE type[timeoutev'] = "EV_TIMEOUT"
  <2>1. calctimeout /\ timeoutev' = calctimo
    BY <1>4 DEF Prepare, IInv, Times
  <2>2. tevs # <<>>
    BY <2>1, <1>4 DEF calctimo
  <2>3. calctimo \in Events /\ Linked(tevs, calctimo)
    BY <2>2, EarliestSound DEF IInv, Links, Times
  <2>4. QED
    BY <2>1, <2>3, LinkedQueued DEF IInv
<1>5. QED
  BY <1>3, <1>4

\* ready is what select() reported of what it was asked.
LEMMA ReadyStays ==
  ASSUME IInv, ReadySound, [Next]_vars
  PROVE  ReadySound'
<1> USE DEF ReadySound
<1>1. CASE Prepare
  BY <1>1, PrepareAsks DEF Prepare, lists, history
<1>2. CASE SelectReady
  BY <1>2 DEF SelectReady, StartPass, lists
<1>3. CASE SelectEintr
  BY <1>3 DEF SelectEintr, StartPass, lists
<1>4. CASE SelectTimeout
  BY <1>4 DEF SelectTimeout, StartPass
<1>5. CASE Setup \/ EnterSched
  BY <1>5 DEF Setup, EnterSched, lists, locals, history
<1>6. CASE Skip \/ CondFailed \/ Dispatch \/ EndPass
  BY <1>6 DEF Skip, CondFailed, Dispatch, EndPass, history
<1>7. CASE HandlerReturn
  BY <1>7 DEF HandlerReturn, history
<1>8. ASSUME HandlerOp
      PROVE  ReadySound'
  BY <1>8 DEF HandlerOp, InHandler, locals
<1>9. CASE Handler
  BY <1>7, <1>8, <1>9 DEF Handler, HandlerEvenq, HandlerEvdeq, SetTimeout, WriteEagain,
                          disp_writeev_eagain, HandlerCond
<1>10. CASE UNCHANGED vars
  BY <1>10 DEF vars, lists, locals, history
<1>11. QED
  BY <1>1, <1>2, <1>3, <1>4, <1>5, <1>6, <1>9, <1>10 DEF Next, Loop

\* What select() waits for is no descriptor, so evdeq leaves evs as it is.
LEMMA TimeoutLeavesEvs ==
  ASSUME IInv, ReadySound, SelectTimeout
  PROVE  UNCHANGED <<evs, nextev, type, cond>>
<1>1. type[timeoutev] = "EV_TIMEOUT"
  BY DEF ReadySound, SelectTimeout
<1>2. QED
  BY <1>1 DEF SelectTimeout, evdeq

\* The stable events stay where they are.
LEMMA StableStays ==
  ASSUME IInv, StableSound, ReadySound, [Next]_vars
  PROVE  StableSound'
<1>1. ASSUME UNCHANGED <<evs, cond>>, stable' \subseteq stable
      PROVE  StableSound'
  BY <1>1 DEF StableSound
<1>2. \A e \in ToSet(evs) : e \in Events /\ Linked(evs, e)
  <2>1. \A i \in 1 .. Len(evs) : evs[i] \in Events
    BY ElementOfSeq DEF IInv, Links
  <2>2. DOMAIN evs = 1 .. Len(evs)
    BY LenProperties DEF IInv, Links
  <2>3. QED
    BY <2>1, <2>2 DEF ToSet, Linked
<1>3. ASSUME UNCHANGED <<evs, cond>>, stable' = {e \in ToSet(evs) : cond[e]}
      PROVE  StableSound'
  BY <1>2, <1>3 DEF StableSound
<1>4. CASE SelectReady \/ SelectEintr
  BY <1>3, <1>4 DEF SelectReady, SelectEintr, StartPass, lists
<1>5. CASE SelectTimeout
  <2>1. stable' = {e \in ToSet(evs) : cond[e]}
    BY <1>5 DEF SelectTimeout, StartPass
  <2>2. QED
    BY <1>3, <1>5, <2>1, TimeoutLeavesEvs
<1>6. CASE EnterSched \/ Prepare \/ Skip \/ CondFailed \/ Dispatch \/ EndPass \/ HandlerReturn
  BY <1>1, <1>6 DEF EnterSched, Prepare, Skip, CondFailed, Dispatch, EndPass, HandlerReturn,
                    lists, history
<1>7. \A e \in stable : e \in Events /\ queued[e] /\ type[e] # "EV_TIMEOUT" /\ cond[e]
  BY LinkedQueued DEF StableSound, IInv
<1>8. IInv'
  BY NextKeeps
<1>9. \A e \in Events : queued'[e] /\ type'[e] # "EV_TIMEOUT" => Linked(evs, e)'
  BY <1>8 DEF IInv, Links, ListsSound
<1>10. ASSUME NEW e \in Events, evenq(e), UNCHANGED <<type, cond, stable>>
       PROVE  StableSound'
  <2>1. \A x \in Events : queued[x] => queued'[x]
    BY <1>10, EvenqKeeps DEF IInv, Times
  <2>2. QED
    BY <1>7, <1>9, <1>10, <2>1 DEF StableSound
<1>11. CASE Setup
  BY <1>10, <1>11 DEF Setup, history
<1>12. ASSUME NEW e \in Events, HandlerEvdeq(e)
       PROVE  StableSound'
  <2>1. evdeq(e) /\ UNCHANGED <<type, cond>> /\ stable' = stable \ {e}
    BY <1>12 DEF HandlerEvdeq
  <2>2. \A x \in Events : x # e => queued'[x] = queued[x]
    BY <2>1, EvdeqKeeps DEF IInv, Times, Cursors
  <2>3. QED
    BY <1>7, <1>9, <2>1, <2>2 DEF StableSound
<1>13. ASSUME NEW e \in Events, HandlerCond(e)
       PROVE  StableSound'
  <2>1. UNCHANGED evs /\ stable' = stable \ {e} /\ cond' = [cond EXCEPT ![e] = ~cond[e]]
    BY <1>13 DEF HandlerCond, lists
  <2>2. cond \in [Events -> BOOLEAN]
    BY DEF IInv, Pass
  <2>3. QED
    BY <2>1, <2>2 DEF StableSound
<1>14. ASSUME NEW e \in Events, HandlerEvenq(e) \/ \E timo \in Delays : SetTimeout(e, timo)
       PROVE  StableSound'
  BY <1>1, <1>10, <1>14 DEF HandlerEvenq, SetTimeout
<1>15. ASSUME NEW e \in Events, NEW timo \in Delays, WriteEagain(e, timo)
       PROVE  StableSound'
  <2>1. UNCHANGED cond /\ stable' = stable \ {e}
    BY <1>15 DEF WriteEagain
  <2>2. \A x \in Events : x # e => queued'[x] = queued[x] /\ type'[x] = type[x]
    BY <1>15, WriteEagainKeeps DEF IInv, Cursors
  <2>3. QED
    BY <1>7, <1>9, <2>1, <2>2 DEF StableSound
<1>16. ASSUME NEW e \in Events, disp_writeev_eagain(e)
       PROVE  StableSound'
  <2>1. UNCHANGED <<cond, stable>> /\ e \notin stable
    BY <1>7, <1>16 DEF disp_writeev_eagain
  <2>2. \A x \in Events : x # e => queued'[x] = queued[x] /\ type'[x] = type[x]
    BY <1>16, WriteAgainKeeps DEF IInv, Cursors
  <2>3. QED
    BY <1>7, <1>9, <2>1, <2>2 DEF StableSound
<1>17. CASE UNCHANGED vars
  BY <1>1, <1>17 DEF vars, lists, history
<1>18. QED
  BY <1>4, <1>5, <1>6, <1>11, <1>12, <1>13, <1>14, <1>15, <1>16, <1>17 DEF Next, Loop, Handler

-----------------------------------------------------------------------------
(* The invariant is kept: the countdown, and who is ahead.                 *)

\* In a pass, a step that makes nothing due and lets nobody fall behind keeps NoneMissed;
\* it may count one descriptor that was due and is no more.
LEMMA CountKept ==
  ASSUME NoneMissed, pc \in {"walk", "handler"}, ~refilled, nsel \in Int,
         \/ nsel' = nsel /\ Due' \subseteq Due
         \/ \E e \in Due : nsel' = nsel - 1 /\ Due' \subseteq Due \ {e},
         \A e \in stable' : (type[e] = "EV_ALWAYS" \/ Chan(e) \in ready)' =>
           /\ e \in stable
           /\ type[e] = "EV_ALWAYS" \/ Chan(e) \in ready
           /\ e \in done => e \in done'
           /\ NotBefore(evs, Cursor, e) => e \in done' \/ NotBefore(evs, Cursor, e)'
  PROVE  NoneMissed'
<1>1. IsFiniteSet(Due) /\ Cardinality(Due) <= nsel /\ Cardinality(Due) \in Nat
  BY FS_CardinalityType DEF NoneMissed
<1>2. IsFiniteSet(Due') /\ Cardinality(Due') <= nsel'
  <2>1. CASE nsel' = nsel /\ Due' \subseteq Due
    <3>1. IsFiniteSet(Due') /\ Cardinality(Due') <= Cardinality(Due) /\ Cardinality(Due') \in Nat
      BY <1>1, <2>1, FS_Subset, FS_CardinalityType
    <3>2. QED
      BY <1>1, <2>1, <3>1
  <2>2. ASSUME NEW e \in Due, nsel' = nsel - 1, Due' \subseteq Due \ {e}
        PROVE  IsFiniteSet(Due') /\ Cardinality(Due') <= nsel'
    <3>1. IsFiniteSet(Due \ {e}) /\ Cardinality(Due \ {e}) = Cardinality(Due) - 1
      BY <1>1, <2>2, FS_RemoveElement
    <3>2. /\ IsFiniteSet(Due') /\ Cardinality(Due') <= Cardinality(Due \ {e})
          /\ Cardinality(Due') \in Nat
      BY <2>2, <3>1, FS_Subset, FS_CardinalityType
    <3>3. QED
      BY <1>1, <2>2, <3>1, <3>2
  <2>3. QED
    BY <2>1, <2>2
<1>3. ASSUME NEW e \in stable', (type[e] = "EV_ALWAYS" \/ Chan(e) \in ready)'
      PROVE  e \in done' \/ NotBefore(evs, Cursor, e)'
  <2>1. /\ e \in stable
        /\ type[e] = "EV_ALWAYS" \/ Chan(e) \in ready
        /\ e \in done => e \in done'
        /\ NotBefore(evs, Cursor, e) => e \in done' \/ NotBefore(evs, Cursor, e)'
    BY <1>3
  <2>2. e \in done \/ NotBefore(evs, Cursor, e)
    BY <2>1 DEF NoneMissed
  <2>3. QED
    BY <2>1, <2>2
<1> HIDE DEF Due
<1>4. QED
  BY <1>2, <1>3 DEF NoneMissed

\* A pass begins at the first event of the list.
LEMMA FreshPass ==
  ASSUME evs \in Seq(Events), UNCHANGED evs, pc' = "walk", ev' = First(evs),
         IsFiniteSet(Due'), Cardinality(Due') <= nsel',
         \A e \in stable' : Linked(evs, e)
  PROVE  NoneMissed'
<1>1. \A e \in stable' : NotBefore(evs, First(evs), e)
  BY FirstOrder
<1>2. Cursor' = First(evs)
  BY DEF Cursor
<1>3. \A e \in stable' : NotBefore(evs, Cursor, e)'
  BY <1>1, <1>2 DEF NotBefore
<1>4. QED
  BY <1>3 DEF NoneMissed

\* The events of a list, as ToSet gives them.
LEMMA ToSetLinked ==
  ASSUME NEW s \in Seq(Events)
  PROVE  \A e \in ToSet(s) : e \in Events /\ Linked(s, e)
<1>1. \A i \in 1 .. Len(s) : s[i] \in Events
  BY ElementOfSeq
<1>2. DOMAIN s = 1 .. Len(s)
  BY LenProperties
<1>3. QED
  BY <1>1, <1>2 DEF ToSet, Linked

\* select() reports no fewer descriptors than there are events to call for them.
LEMMA SelectCounts ==
  ASSUME OneEventPerChannel, IInv, TypesKept, ReadySound, SelectReady
  PROVE  NoneMissed'
<1>1. PICK s \in SUBSET set \ {{}} : set' = s /\ nsel' = Cardinality(s) /\ StartPass(s)
  BY DEF SelectReady
<1>2. UNCHANGED <<evs, type>> /\ pc' = "walk" /\ ev' = First(evs)
  BY DEF SelectReady, lists
<1>3. PICK D : D = Due'
  OBVIOUS
<1>4. \A e \in D : e \in Events /\ Chan(e) \in s
  BY <1>1, <1>2, <1>3 DEF Due, Chan, StartPass
<1>5. \A e, f \in D : Chan(e) = Chan(f) => e = f
  <2> SUFFICES ASSUME NEW e \in D, NEW f \in D, Chan(e) = Chan(f) PROVE e = f
    OBVIOUS
  <2>1. Fd[e] = Fd[f] /\ type[e] = type[f]
    BY DEF Chan
  <2>2. type[e] \in {"EV_READ", "EV_WRITE"}
    BY <1>1, <1>4 DEF ReadySound, Chan
  <2>3. InitType[e] = type[e] /\ InitType[f] = type[f]
    BY <1>4, <2>1, <2>2 DEF TypesKept
  <2>4. QED
    BY <1>4, <2>1, <2>2, <2>3 DEF OneEventPerChannel
<1>6. IsFiniteSet(D) /\ Cardinality(D) <= Cardinality(s)
  <2> DEFINE f == [e \in D |-> Chan(e)]
  <2>1. f \in [D -> s] /\ DOMAIN f = D
    BY <1>4
  <2>2. \A a, b \in DOMAIN f : f[a] = f[b] => a = b
    BY <1>5
  <2>3. IsFiniteSet(s)
    BY FS_Subset DEF IInv, Pass
  <2> HIDE DEF f
  <2>4. f \in Injection(D, s)
    BY <2>1, <2>2 DEF Injection, IsInjective
  <2>5. QED
    BY <2>3, <2>4, FS_Injection
<1>7. \A e \in stable' : Linked(evs, e)
  BY <1>1, ToSetLinked DEF StartPass, IInv, Links
<1>8. QED
  BY <1>1, <1>2, <1>3, <1>6, <1>7, FreshPass DEF IInv, Links

\* After an interrupted select(), nothing is due.
LEMMA EintrCounts ==
  ASSUME IInv, SelectEintr
  PROVE  NoneMissed'
<1>1. /\ UNCHANGED evs /\ pc' = "walk" /\ ev' = First(evs) /\ nsel' = 0
      /\ ready' = {} /\ stable' = {e \in ToSet(evs) : cond[e]}
  BY DEF SelectEintr, StartPass, lists
<1>2. Due' = {}
  BY <1>1 DEF Due
<1>3. IsFiniteSet(Due') /\ Cardinality(Due') <= nsel'
  BY <1>1, <1>2, FS_EmptySet
<1>4. \A e \in stable' : Linked(evs, e)
  BY <1>1, ToSetLinked DEF IInv, Links
<1>5. QED
  BY <1>1, <1>3, <1>4, FreshPass DEF IInv, Links

\* The walk leaves the event it stands on behind, and no other.
LEMMA WalkOn ==
  ASSUME IInv, pc = "walk", ev # NullEv, nextev' = NextIn(evs, ev),
         \/ pc' = "walk" /\ ev' = nextev'
         \/ pc' = "handler",
         UNCHANGED <<evs, type, ready>>
  PROVE  /\ \A x : NotBefore(evs, Cursor, x)' <=> (NotBefore(evs, Cursor, x) /\ x # ev)
         /\ NotBefore(evs, Cursor, ev)
         /\ Due' = Due \ {ev}
<1>1. ev \in Events /\ Linked(evs, ev)
  BY LinkedQueued DEF IInv, Cursors, EventOrNull
<1>2. Cursor = ev /\ Cursor' = NextIn(evs, ev)
  BY DEF Cursor
<1>3. evs \in Seq(Events) /\ NoDuplicates(evs)
  BY DEF IInv, Links, ListsSound
<1>4. ASSUME NEW x
      PROVE  NotBefore(evs, Cursor, x)' <=> (NotBefore(evs, Cursor, x) /\ x # ev)
  <2>1. NotBefore(evs, NextIn(evs, ev), x) <=> (NotBefore(evs, ev, x) /\ x # ev)
    BY <1>1, <1>3, NextOrder
  <2>2. NotBefore(evs, Cursor, x)' <=> NotBefore(evs, NextIn(evs, ev), x)
    BY <1>2 DEF NotBefore
  <2>3. QED
    BY <1>2, <2>1, <2>2
<1>5. NotBefore(evs, Cursor, ev)
  BY <1>1, <1>2, LenProperties, <1>3 DEF NotBefore, Linked
<1>6. Due' = {e \in Events : NotBefore(evs, Cursor, e)' /\ Chan(e)' \in ready'}
  BY DEF Due
<1>7. \A e \in Events : Chan(e)' = Chan(e)
  BY DEF Chan
<1>8. Due' = Due \ {ev}
  BY <1>4, <1>6, <1>7 DEF Due
<1>9. QED
  BY <1>4, <1>5, <1>8

\* Passing over an event: when it was due, the countdown has not reached zero, so it is called.
LEMMA SkipCounts ==
  ASSUME IInv, ReadySound, NoneMissed, ~refilled, Skip
  PROVE  NoneMissed'
<1>1. /\ pc = "walk" /\ ev # NullEv /\ nextev' = NextIn(evs, ev) /\ ev' = nextev' /\ pc' = "walk"
      /\ UNCHANGED <<evs, type, nsel, ready, done, stable, refilled>>
      /\ type[ev] # "EV_ALWAYS" /\ (nsel = 0 \/ Chan(ev) \notin set)
  BY DEF Skip, history
<1>2. /\ \A x : NotBefore(evs, Cursor, x)' <=> (NotBefore(evs, Cursor, x) /\ x # ev)
      /\ NotBefore(evs, Cursor, ev) /\ Due' = Due \ {ev}
  BY <1>1, WalkOn
<1>3. nsel \in Int /\ ev \in Events
  BY <1>1 DEF IInv, Pass, Cursors, EventOrNull
<1>4. Chan(ev) \notin ready
  <2> SUFFICES ASSUME Chan(ev) \in ready PROVE FALSE
    OBVIOUS
  <2>1. nsel = 0 /\ ev \in Due
    BY <1>1, <1>2, <1>3 DEF ReadySound, Due
  <2>2. IsFiniteSet(Due) /\ Cardinality(Due) <= nsel
    BY <1>1 DEF NoneMissed
  <2>3. Cardinality(Due) = 0
    BY <2>1, <2>2, FS_CardinalityType
  <2>4. QED
    BY <2>1, <2>2, <2>3, FS_EmptySet
<1>5. \A e \in stable' : (type[e] = "EV_ALWAYS" \/ Chan(e) \in ready)' =>
         /\ e \in stable
         /\ type[e] = "EV_ALWAYS" \/ Chan(e) \in ready
         /\ e \in done => e \in done'
         /\ NotBefore(evs, Cursor, e) => e \in done' \/ NotBefore(evs, Cursor, e)'
  BY <1>1, <1>2, <1>4 DEF Chan
<1>6. nsel' = nsel /\ Due' \subseteq Due
  BY <1>1, <1>2
<1>7. QED
  BY <1>1, <1>3, <1>5, <1>6, CountKept

\* Calling an event counts one descriptor, if it is due.
LEMMA HitCounts ==
  ASSUME IInv, StableSound, ReadySound, NoneMissed, ~refilled, CondFailed \/ Dispatch
  PROVE  NoneMissed'
<1>1. /\ pc = "walk" /\ ev # NullEv /\ nextev' = NextIn(evs, ev)
      /\ (pc' = "walk" /\ ev' = nextev') \/ pc' = "handler"
      /\ UNCHANGED <<evs, type, ready, stable>>
      /\ Hit(ev) /\ CountHit(ev)
  BY DEF CondFailed, Dispatch, history
<1>2. /\ \A x : NotBefore(evs, Cursor, x)' <=> (NotBefore(evs, Cursor, x) /\ x # ev)
      /\ NotBefore(evs, Cursor, ev) /\ Due' = Due \ {ev}
  BY <1>1, WalkOn
<1>3. nsel \in Int /\ ev \in Events
  BY <1>1 DEF IInv, Pass, Cursors, EventOrNull
<1>4. \/ nsel' = nsel /\ Due' \subseteq Due
      \/ \E e \in Due : nsel' = nsel - 1 /\ Due' \subseteq Due \ {e}
  <2>1. CASE type[ev] = "EV_ALWAYS"
    BY <1>1, <1>2, <2>1 DEF CountHit
  <2>2. CASE type[ev] # "EV_ALWAYS"
    <3>1. nsel # 0 /\ Chan(ev) \in set /\ nsel' = nsel - 1
      BY <1>1, <2>2 DEF Hit, CountHit
    <3>2. set = ready
      BY <1>1, <3>1 DEF IInv, Pass
    <3>3. ev \in Due
      BY <1>2, <1>3, <3>1, <3>2 DEF Due
    <3>4. QED
      BY <1>2, <3>1, <3>3
  <2>3. QED
    BY <2>1, <2>2
<1>5. ASSUME ev \in stable PROVE ev \in done'
  <2>1. cond[ev]
    BY <1>5 DEF StableSound
  <2>2. QED
    BY <2>1 DEF CondFailed, Dispatch
<1>6. done \subseteq done'
  BY DEF CondFailed, Dispatch, history
<1>7. \A e \in stable' : (type[e] = "EV_ALWAYS" \/ Chan(e) \in ready)' =>
         /\ e \in stable
         /\ type[e] = "EV_ALWAYS" \/ Chan(e) \in ready
         /\ e \in done => e \in done'
         /\ NotBefore(evs, Cursor, e) => e \in done' \/ NotBefore(evs, Cursor, e)'
  BY <1>1, <1>2, <1>5, <1>6 DEF Chan
<1>8. QED
  BY <1>1, <1>3, <1>4, <1>7, CountKept

\* A handler makes nothing due and lets no stable event fall behind.
LEMMA HandlerOpCounts ==
  ASSUME NoneMissed, IInv, pc = "handler", ~refilled,
         UNCHANGED <<pc, nsel, ready, done>>, stable' \subseteq stable,
         \A x \in Events :
           /\ NotBefore(evs, nextev, x)' /\ Chan(x)' \in ready =>
                NotBefore(evs, nextev, x) /\ Chan(x) \in ready
           /\ x \in stable' =>
                /\ type'[x] = type[x]
                /\ NotBefore(evs, nextev, x) => NotBefore(evs, nextev, x)',
         \A x \in stable : x \in Events
  PROVE  NoneMissed'
<1>1. Cursor = nextev /\ Cursor' = nextev'
  BY DEF Cursor
<1>2. nsel \in Int
  BY DEF IInv, Pass
<1>3. \A x : /\ NotBefore(evs, Cursor, x) <=> NotBefore(evs, nextev, x)
             /\ NotBefore(evs, Cursor, x)' <=> NotBefore(evs, nextev, x)'
  BY <1>1 DEF NotBefore
<1>4. Due' \subseteq Due
  BY <1>3 DEF Due
<1>5. \A e \in stable' : (type[e] = "EV_ALWAYS" \/ Chan(e) \in ready)' =>
         /\ e \in stable
         /\ type[e] = "EV_ALWAYS" \/ Chan(e) \in ready
         /\ e \in done => e \in done'
         /\ NotBefore(evs, Cursor, e) => e \in done' \/ NotBefore(evs, Cursor, e)'
  BY <1>3 DEF Chan
<1>6. QED
  BY <1>2, <1>4, <1>5, CountKept

\* evenq in a handler, of an event that is not refilled.
LEMMA HandlerEvenqCounts ==
  ASSUME IInv, StableSound, ReadySound, NoneMissed, pc = "handler", ~refilled,
         NEW e \in Events, HandlerEvenq(e), ~refilled'
  PROVE  NoneMissed'
<1>1. /\ evenq(e) /\ UNCHANGED <<nextev, type, pc, nsel, ready, done, stable>>
      /\ queued[e] \/ Chan(e) \notin set
  BY DEF HandlerEvenq, HandlerOp, locals
<1>2. Links /\ (nextev # NullEv => Linked(evs, nextev))
  BY LinkedQueued DEF IInv, Cursors, NextevOnList, EventOrNull
<1>3. PICK c : c = nextev
  OBVIOUS
<1>4. \A x \in Events :
        /\ NotBefore(evs, c, x) => NotBefore(evs', c, x)
        /\ NotBefore(evs', c, x) => (NotBefore(evs, c, x) \/ (x = e /\ ~queued[e]))
  BY <1>1, <1>2, <1>3, EvenqOrder
<1>5. \A x \in Events : /\ NotBefore(evs, nextev, x) <=> NotBefore(evs, c, x)
                        /\ NotBefore(evs, nextev, x)' <=> NotBefore(evs', c, x)
                        /\ Chan(x)' = Chan(x)
  BY <1>1, <1>3 DEF NotBefore, Chan
<1>6. ready \subseteq set
  BY DEF ReadySound
<1>7. \A x \in stable : x \in Events
  BY DEF StableSound
<1>8. \A x \in Events :
        /\ NotBefore(evs, nextev, x)' /\ Chan(x)' \in ready =>
             NotBefore(evs, nextev, x) /\ Chan(x) \in ready
        /\ x \in stable' =>
             /\ type'[x] = type[x]
             /\ NotBefore(evs, nextev, x) => NotBefore(evs, nextev, x)'
  BY <1>1, <1>4, <1>5, <1>6
<1>9. QED
  BY <1>1, <1>7, <1>8, HandlerOpCounts

\* evdeq in a handler, also of the event the walk goes on with.
LEMMA HandlerEvdeqCounts ==
  ASSUME IInv, StableSound, NoneMissed, pc = "handler", ~refilled,
         NEW e \in Events, HandlerEvdeq(e)
  PROVE  NoneMissed'
<1>1. evdeq(e) /\ UNCHANGED <<type, pc, nsel, ready, done>> /\ stable' = stable \ {e}
  BY DEF HandlerEvdeq, HandlerOp, locals
<1>2. \A x : /\ NotBefore(evs', nextev', x) => NotBefore(evs, nextev, x)
             /\ NotBefore(evs, nextev, x) /\ x # e => NotBefore(evs', nextev', x)
  <2>1. \/ UNCHANGED <<evs, nextev>>
        \/ /\ queued[e] /\ type[e] # "EV_TIMEOUT"
           /\ evs' = Unlink(evs, e)
           /\ nextev' = IF e = nextev THEN NextIn(evs, nextev) ELSE nextev
    BY <1>1 DEF evdeq
  <2>2. QED
    BY <2>1, EvdeqOrder DEF IInv, Cursors
<1>3. \A x : NotBefore(evs, nextev, x)' <=> NotBefore(evs', nextev', x)
  BY DEF NotBefore
<1>4. \A x \in stable : x \in Events
  BY DEF StableSound
<1>5. \A x \in Events :
        /\ NotBefore(evs, nextev, x)' /\ Chan(x)' \in ready =>
             NotBefore(evs, nextev, x) /\ Chan(x) \in ready
        /\ x \in stable' =>
             /\ type'[x] = type[x]
             /\ NotBefore(evs, nextev, x) => NotBefore(evs, nextev, x)'
  BY <1>1, <1>2, <1>3 DEF Chan
<1>6. QED
  BY <1>1, <1>4, <1>5, HandlerOpCounts

\* The write event that becomes a timeout leaves the walk as evdeq does.
LEMMA WriteEagainCounts ==
  ASSUME IInv, StableSound, NoneMissed, pc = "handler", ~refilled,
         NEW e \in Events, NEW timo \in Delays, WriteEagain(e, timo)
  PROVE  NoneMissed'
<1>1. /\ UNCHANGED <<pc, nsel, ready, done>> /\ stable' = stable \ {e}
      /\ \A x \in Events : x # e => type'[x] = type[x]
      /\ \/ UNCHANGED <<evs, nextev>>
         \/ /\ queued[e] /\ type[e] # "EV_TIMEOUT"
            /\ evs' = Unlink(evs, e)
            /\ nextev' = IF e = nextev THEN NextIn(evs, nextev) ELSE nextev
  BY DEF WriteEagain, HandlerOp, locals, IInv, Links
<1>2. \A x : /\ NotBefore(evs', nextev', x) => NotBefore(evs, nextev, x)
             /\ NotBefore(evs, nextev, x) /\ x # e => NotBefore(evs', nextev', x)
  BY <1>1, EvdeqOrder DEF IInv, Cursors
<1>3. \A x : NotBefore(evs, nextev, x)' <=> NotBefore(evs', nextev', x)
  BY DEF NotBefore
<1>4. ~NotBefore(evs', nextev', e)
  <2>1. IInv'
    BY NextKeeps DEF Next, Handler
  <2>2. type'[e] = "EV_TIMEOUT"
    BY DEF WriteEagain, IInv, Links
  <2>3. evs' \in Seq(Events) /\ ~Linked(evs', e)
    BY <2>1, <2>2 DEF IInv, Links, ListsSound
  <2>4. QED
    BY <2>3, OrderLinked
<1>5. \A x \in stable : x \in Events
  BY DEF StableSound
<1>6. \A x \in Events :
        /\ NotBefore(evs, nextev, x)' /\ Chan(x)' \in ready =>
             NotBefore(evs, nextev, x) /\ Chan(x) \in ready
        /\ x \in stable' =>
             /\ type'[x] = type[x]
             /\ NotBefore(evs, nextev, x) => NotBefore(evs, nextev, x)'
  BY <1>1, <1>2, <1>3, <1>4 DEF Chan
<1>7. QED
  BY <1>1, <1>5, <1>6, HandlerOpCounts

\* What else a handler does leaves the list and the walk alone.
LEMMA HandlerElseCounts ==
  ASSUME IInv, StableSound, NoneMissed, pc = "handler", ~refilled,
         NEW e \in Events,
         HandlerCond(e) \/ \E timo \in Delays : SetTimeout(e, timo)
  PROVE  NoneMissed'
<1>1. /\ UNCHANGED <<evs, nextev, pc, nsel, ready, done>> /\ stable' \subseteq stable
      /\ \A x \in Events : Linked(evs, x) => type'[x] = type[x]
  BY DEF HandlerCond, SetTimeout, HandlerOp, lists, locals
<1>2. \A x : NotBefore(evs, nextev, x)' <=> NotBefore(evs, nextev, x)
  BY <1>1 DEF NotBefore
<1>3. \A x : NotBefore(evs, nextev, x) => Linked(evs, x) /\ x \in Events
  BY OrderLinked DEF IInv, Links
<1>4. \A x \in stable : x \in Events /\ Linked(evs, x)
  BY DEF StableSound
<1>5. \A x \in Events :
        /\ NotBefore(evs, nextev, x)' /\ Chan(x)' \in ready =>
             NotBefore(evs, nextev, x) /\ Chan(x) \in ready
        /\ x \in stable' =>
             /\ type'[x] = type[x]
             /\ NotBefore(evs, nextev, x) => NotBefore(evs, nextev, x)'
  BY <1>1, <1>2, <1>3, <1>4 DEF Chan
<1>6. QED
  BY <1>1, <1>4, <1>5, HandlerOpCounts

\* The walk goes on where nextev is; after a timeout it begins, with nothing due.
LEMMA ReturnCounts ==
  ASSUME IInv, StableSound, ReadySound, NoneMissed, ~refilled, HandlerReturn
  PROVE  NoneMissed'
<1>1. /\ UNCHANGED <<evs, nextev, type, nsel, ready, done, stable, refilled>> /\ pc' = "walk"
      /\ ev' = IF pc = "handler" THEN nextev ELSE First(evs)
      /\ pc \in {"handler", "thandler"}
  BY DEF HandlerReturn, InHandler, lists, locals, history
<1>2. CASE pc = "handler"
  <2>1. Cursor = nextev /\ Cursor' = nextev
    BY <1>1, <1>2 DEF Cursor
  <2>2. \A x : NotBefore(evs, Cursor, x)' <=> NotBefore(evs, Cursor, x)
    BY <1>1, <2>1 DEF NotBefore
  <2>3. Due' = Due
    BY <1>1, <2>2 DEF Due, Chan
  <2>4. QED
    BY <1>1, <1>2, <2>2, <2>3 DEF NoneMissed, Chan
<1>3. CASE pc = "thandler"
  <2>1. ready = {} /\ nsel = 0 /\ ev' = First(evs)
    BY <1>1, <1>3 DEF ReadySound
  <2>2. Due' = {}
    BY <1>1, <2>1 DEF Due
  <2>3. IsFiniteSet(Due') /\ Cardinality(Due') <= nsel'
    BY <1>1, <2>1, <2>2, FS_EmptySet
  <2>4. \A e \in stable' : Linked(evs, e)
    BY <1>1 DEF StableSound
  <2>5. QED
    BY <1>1, <2>1, <2>3, <2>4, FreshPass DEF IInv, Links
<1>4. QED
  BY <1>1, <1>2, <1>3

\* Every step keeps the countdown.
LEMMA CountStays ==
  ASSUME OneEventPerChannel, IInv, PInv, [Next]_vars
  PROVE  NoneMissed'
<1> USE DEF PInv
<1>1. ASSUME pc' \notin {"walk", "handler"} \/ refilled' PROVE NoneMissed'
  BY <1>1 DEF NoneMissed
<1>2. CASE Setup \/ EnterSched \/ Prepare \/ SelectTimeout \/ EndPass
  BY <1>1, <1>2 DEF Setup, EnterSched, Prepare, SelectTimeout, EndPass
<1>3. CASE SelectReady \/ SelectEintr
  BY <1>3, SelectCounts, EintrCounts
<1>4. CASE Skip \/ CondFailed \/ Dispatch
  <2>1. refilled' = refilled
    BY <1>4 DEF Skip, CondFailed, Dispatch, history
  <2>2. CASE refilled
    BY <1>1, <2>1, <2>2
  <2>3. CASE ~refilled
    BY <1>4, <2>3, SkipCounts, HitCounts
  <2>4. QED
    BY <2>2, <2>3
<1>5. CASE HandlerReturn
  <2>1. refilled' = refilled
    BY <1>5 DEF HandlerReturn, history
  <2>2. QED
    BY <1>1, <1>5, <2>1, ReturnCounts
<1>6. ASSUME NEW e \in Events,
             \/ HandlerEvenq(e) \/ HandlerEvdeq(e) \/ disp_writeev_eagain(e) \/ HandlerCond(e)
             \/ \E timo \in Delays : SetTimeout(e, timo) \/ WriteEagain(e, timo)
      PROVE  NoneMissed'
  <2>1. HandlerOp /\ (refilled => refilled')
    <3>1. HandlerOp
      BY <1>6 DEF HandlerEvenq, HandlerEvdeq, WriteEagain, disp_writeev_eagain, HandlerCond, SetTimeout
    <3>2. HandlerEvenq(e) \/ refilled' = refilled
      BY <1>6 DEF HandlerEvdeq, WriteEagain, disp_writeev_eagain, HandlerCond, SetTimeout
    <3>3. HandlerEvenq(e) => (refilled => refilled')
      BY ZenonT(30) DEF HandlerEvenq
    <3>4. QED
      BY <3>1, <3>2, <3>3
  <2>2. CASE pc = "thandler" \/ refilled'
    BY <1>1, <2>1, <2>2 DEF HandlerOp
  <2>3. CASE pc = "handler" /\ ~refilled'
    <3>1. ~disp_writeev_eagain(e)
      BY <2>3 DEF disp_writeev_eagain
    <3>2. QED
      BY <1>6, <2>1, <2>3, <3>1, HandlerEvenqCounts, HandlerEvdeqCounts, WriteEagainCounts,
         HandlerElseCounts
  <2>4. QED
    BY <2>1, <2>2, <2>3 DEF HandlerOp, InHandler
<1>7. CASE UNCHANGED vars
  <2>1. UNCHANGED <<evs, nextev, type, pc, ev, nsel, ready, done, stable, refilled>>
    BY <1>7 DEF vars, lists, locals, history
  <2>2. \A x : NotBefore(evs, Cursor, x)' <=> NotBefore(evs, Cursor, x)
    BY <2>1 DEF NotBefore, Cursor
  <2>3. Due' = Due
    BY <2>1, <2>2 DEF Due, Chan
  <2>4. QED
    BY <2>1, <2>2, <2>3 DEF NoneMissed, Chan
<1>8. QED
  BY <1>2, <1>3, <1>4, <1>5, <1>6, <1>7 DEF Next, Loop, Handler

-----------------------------------------------------------------------------
(* The result.                                                             *)

\* A pass of sched() calls the handler of every event that select() reported, or that is
\* EV_ALWAYS, and that no handler dequeued or blocked, although it stops looking at the
\* descriptors after as many as select() counted: for any set of events in which a
\* descriptor has at most one that reads and one that writes.
THEOREM NoneMissedCorrect ==
  ASSUME OneEventPerChannel
  PROVE  Spec => []NoMissedEvent
<1>1. Init => PInv
  <2> SUFFICES ASSUME Init PROVE PInv
    OBVIOUS
  <2>1. TypesKept /\ StableSound /\ NoneMissed
    BY DEF Init, TypesKept, StableSound, NoneMissed
  <2>2. ReadySound
    BY DEF Init, ReadySound
  <2>3. QED
    BY <2>1, <2>2 DEF PInv
<1>2. IInv /\ PInv /\ [Next]_vars => PInv'
  <2> SUFFICES ASSUME IInv, PInv, [Next]_vars PROVE PInv'
    OBVIOUS
  <2>1. TypesKept'
    BY TypesStay DEF IInv, PInv
  <2>2. ReadySound' /\ StableSound'
    BY ReadyStays, StableStays DEF PInv
  <2>3. NoneMissed'
    BY CountStays
  <2>4. QED
    BY <2>1, <2>2, <2>3 DEF PInv
<1>3. IInv /\ PInv => NoMissedEvent
  <2> SUFFICES ASSUME IInv, PInv, pc = "walk", ev = NullEv, ~refilled,
                      NEW e \in stable, type[e] = "EV_ALWAYS" \/ Chan(e) \in ready
               PROVE  e \in done
    BY DEF NoMissedEvent
  <2>1. e \in done \/ NotBefore(evs, Cursor, e)
    BY DEF PInv, NoneMissed
  <2>2. Cursor = NullEv
    BY DEF Cursor
  <2>3. ~NotBefore(evs, NullEv, e)
    BY OrderLinked DEF IInv, Links
  <2>4. QED
    BY <2>1, <2>2, <2>3
<1>4. QED
  BY <1>1, <1>2, <1>3, Inductive, PTL DEF Spec

-----------------------------------------------------------------------------
(* Output.  One lemma per operation on a display says what the operation does *)
(* to the counts; one lemma per action carries that to the state.             *)

\* The counts of one display, stronger than BufferExact: what is saved is sound
\* too, what is kept is what removes the message, and the block is large enough.
Exact(b) ==
  /\ b.saved.free >= 0 =>
       /\ b.status # "off"
       /\ b.len = 0 /\ b.free = 0
       /\ b.saved.free > 0 /\ b.used + b.saved.free = b.saved.len
       /\ b.saved.len <= b.alloc
       /\ b.used = EraseLen
  /\ b.saved.free < 0 =>
       b.free > 0 /\ b.used + b.free = b.len /\ b.len <= b.alloc

Pending(b) == b.blocked => b.used > 0

-----------------------------------------------------------------------------
(* Operations on a display.                                                *)

\* Resize_obuf adds enough, and nothing when there is room.
LEMMA GrowthSound ==
  ASSUME NEW f \in Int
  PROVE  Growth(f) \in Nat /\ f + Growth(f) > 0 /\ (Growth(f) = 0 <=> f > 0)
<1>1. GRAIN \in Nat /\ GRAIN > 0
  BY OutputAssumption
<1>2. CASE f > 0
  BY <1>2 DEF Growth
<1>3. CASE f <= 0
  <2>1. PICK a \in Nat : a = -f
    BY <1>3
  <2>2. PICK q \in Int : q = a \div GRAIN
    BY <1>1, <2>1
  <2>3. q >= 0 /\ a < q * GRAIN + GRAIN
    BY <1>1, <2>1, <2>2, Z3
  <2>4. (q + 1) * GRAIN = q * GRAIN + GRAIN /\ q * GRAIN \in Int
    BY <1>1, <2>2, Z3
  <2>5. Growth(f) = (q + 1) * GRAIN
    BY <1>3, <2>1, <2>2 DEF Growth
  <2>6. q * GRAIN + GRAIN > 0
    BY <1>1, <2>1, <2>3, <2>4
  <2>. HIDE DEF Growth
  <2>. QED
    BY <1>1, <1>3, <2>1, <2>3, <2>4, <2>5, <2>6
<1>. QED BY <1>2, <1>3

\* Fields, and an update of the two counts that most operations change.
LEMMA Fields ==
  ASSUME NEW b \in DisplayFields
  PROVE  /\ b.used \in Nat /\ b.free \in Int /\ b.len \in Nat /\ b.alloc \in Nat
         /\ b.obufmax \in Nat /\ b.fuzz \in Nat /\ b.blocked \in BOOLEAN
         /\ b.status \in Statuses /\ b.timer \in BOOLEAN
         /\ b.saved.len \in Nat /\ b.saved.free \in Int
BY DEF DisplayFields, SavedCounts

LEMMA SetCounts ==
  ASSUME NEW b \in DisplayFields, NEW u \in Nat, NEW f \in Int
  PROVE  LET c == [b EXCEPT !.used = u, !.free = f]
         IN  /\ c \in DisplayFields
             /\ c.used = u /\ c.free = f /\ c.len = b.len /\ c.alloc = b.alloc
             /\ c.saved = b.saved /\ c.status = b.status /\ c.blocked = b.blocked
             /\ c.fuzz = b.fuzz /\ c.obufmax = b.obufmax /\ c.timer = b.timer
BY DEF DisplayFields

\* AddChar keeps the counts when no message is shown.
LEMMA PutSound ==
  ASSUME NEW b \in DisplayFields, NEW n \in Nat
  PROVE  /\ Put(b, n) \in DisplayFields
         /\ Put(b, n).used = b.used + n
         /\ Put(b, n).saved = b.saved /\ Put(b, n).status = b.status
         /\ Put(b, n).blocked = b.blocked
         /\ Exact(b) /\ b.saved.free < 0 => Exact(Put(b, n))
<1>. DEFINE g == Growth(b.free - n)
            u == b.used + n
            f == b.free - n + g
            c == [b EXCEPT !.used = u, !.free = f]
            e == [c EXCEPT !.len = c.len + g, !.alloc = b.len + g,
                           !.obuflenmax = b.len + g - b.obufmax]
<1>1. Put(b, n) = IF g = 0 THEN c ELSE e
  BY DEF Put
<1>2. /\ b.free \in Int /\ b.used \in Nat /\ b.len \in Nat /\ b.obufmax \in Nat
      /\ b.saved.free \in Int /\ b.alloc \in Nat
  BY Fields
<1>3. g \in Nat /\ b.free - n + g > 0 /\ (g = 0 <=> b.free - n > 0)
  BY <1>2, GrowthSound
<1>. HIDE DEF g
<1>4. /\ c \in DisplayFields
      /\ c.used = u /\ c.free = f /\ c.len = b.len /\ c.alloc = b.alloc
      /\ c.saved = b.saved /\ c.status = b.status /\ c.blocked = b.blocked
  <2>1. u \in Nat /\ f \in Int
    BY <1>2, <1>3
  <2>. HIDE DEF u, f, e
  <2>. QED BY <2>1 DEF DisplayFields
<1>. HIDE DEF c
<1>5. /\ e \in DisplayFields
      /\ e.used = c.used /\ e.free = c.free /\ e.len = b.len + g /\ e.alloc = b.len + g
      /\ e.saved = c.saved /\ e.status = c.status /\ e.blocked = c.blocked
  <2>1. b.len + g \in Nat /\ b.len + g - b.obufmax \in Int /\ c.len + g = b.len + g
    BY <1>2, <1>3, <1>4
  <2>. QED BY <1>4, <2>1 DEF DisplayFields
<1>. HIDE DEF e
<1>6. Exact(b) /\ b.saved.free < 0 => Exact(c) \/ g # 0
  BY <1>2, <1>3, <1>4 DEF Exact
<1>7. Exact(b) /\ b.saved.free < 0 => Exact(e)
  BY <1>2, <1>3, <1>4, <1>5 DEF Exact
<1>. QED BY <1>1, <1>4, <1>5, <1>6, <1>7

\* RemoveStatus brings the saved counts back.
LEMMA RemoveStatusSound ==
  ASSUME NEW b \in DisplayFields
  PROVE  /\ RemoveStatus(b) \in DisplayFields
         /\ RemoveStatus(b).status = "off"
         /\ RemoveStatus(b).blocked = b.blocked
         /\ RemoveStatus(b).used >= b.used
         /\ Exact(b) => Exact(RemoveStatus(b)) /\ RemoveStatus(b).saved.free < 0
<1>. DEFINE r == IF b.saved.free >= 0
                 THEN [b EXCEPT !.len = b.saved.len, !.free = b.saved.free] ELSE b
            s == [r EXCEPT !.saved = NoSaved, !.status = "off"]
<1>0. CursorLen \in Nat
  BY OutputAssumption
<1>1. /\ b.saved.len \in Nat /\ b.saved.free \in Int /\ b.used \in Nat /\ b.len \in Nat
      /\ b.alloc \in Nat /\ b.free \in Int
  BY Fields
<1>2. CASE b.status = "off"
  <2>1. RemoveStatus(b) = b
    BY <1>2 DEF RemoveStatus
  <2>. QED BY <1>1, <1>2, <2>1 DEF Exact
<1>3. CASE b.status # "off"
  <2>1. RemoveStatus(b) = Put(s, CursorLen)
    BY <1>3 DEF RemoveStatus
  <2>2. /\ r \in DisplayFields
        /\ r.used = b.used /\ r.alloc = b.alloc /\ r.blocked = b.blocked
        /\ r.len = IF b.saved.free >= 0 THEN b.saved.len ELSE b.len
        /\ r.free = IF b.saved.free >= 0 THEN b.saved.free ELSE b.free
    BY <1>1 DEF DisplayFields
  <2>. HIDE DEF r
  <2>3. NoSaved \in SavedCounts /\ NoSaved.free = -1 /\ "off" \in Statuses
    BY DEF NoSaved, SavedCounts, Statuses
  <2>4. /\ s \in DisplayFields /\ s.status = "off" /\ s.saved = NoSaved
        /\ s.used = r.used /\ s.alloc = r.alloc /\ s.blocked = r.blocked
        /\ s.len = r.len /\ s.free = r.free
    BY <2>2, <2>3 DEF DisplayFields
  <2>. HIDE DEF s
  <2>5. Exact(b) => Exact(s)
    BY <1>1, <1>3, <2>2, <2>3, <2>4 DEF Exact
  <2>6. /\ Put(s, CursorLen) \in DisplayFields
        /\ Put(s, CursorLen).used = s.used + CursorLen
        /\ Put(s, CursorLen).saved = s.saved /\ Put(s, CursorLen).status = s.status
        /\ Put(s, CursorLen).blocked = s.blocked
        /\ Exact(s) /\ s.saved.free < 0 => Exact(Put(s, CursorLen))
    BY <1>0, <2>4, PutSound
  <2>. QED BY <1>0, <1>1, <2>1, <2>2, <2>3, <2>4, <2>5, <2>6
<1>. QED BY <1>2, <1>3

\* AddChar keeps the counts, and removes the message at most.
LEMMA AddCharsSound ==
  ASSUME NEW b \in DisplayFields, NEW n \in Nat
  PROVE  /\ AddChars(b, n) \in DisplayFields
         /\ AddChars(b, n).status \in {b.status, "off"}
         /\ AddChars(b, n).blocked = b.blocked
         /\ AddChars(b, n).used >= b.used + n
         /\ b.saved.free < 0 => AddChars(b, n).status = b.status /\ AddChars(b, n).saved = b.saved
         /\ Exact(b) => Exact(AddChars(b, n))
<1>1. /\ b.saved.len \in Nat /\ b.saved.free \in Int /\ b.used \in Nat /\ b.len \in Nat
      /\ b.alloc \in Nat /\ b.free \in Int
  BY Fields
<1>2. CASE b.saved.free < 0 \/ n < b.free
  <2>1. AddChars(b, n) = Put(b, n)
    BY <1>2 DEF AddChars
  <2>2. ~(b.saved.free < 0) => ~Exact(b)
    BY <1>1, <1>2 DEF Exact
  <2>3. /\ Put(b, n) \in DisplayFields
        /\ Put(b, n).used = b.used + n
        /\ Put(b, n).saved = b.saved /\ Put(b, n).status = b.status
        /\ Put(b, n).blocked = b.blocked
        /\ Exact(b) /\ b.saved.free < 0 => Exact(Put(b, n))
    BY PutSound
  <2>. QED BY <1>1, <2>1, <2>2, <2>3
<1>3. CASE ~(b.saved.free < 0 \/ n < b.free)
  <2>. DEFINE m == IF b.free > 0 THEN b.free - 1 ELSE 0
              u == b.used + m
              f == b.free - m
              k == n - m
              c == [b EXCEPT !.used = u, !.free = f]
              r == RemoveStatus(c)
  <2>1. AddChars(b, n) = Put(r, k)
    BY <1>3 DEF AddChars
  <2>2. m \in Nat /\ u \in Nat /\ f \in Int /\ k \in Nat /\ u + k = b.used + n
    BY <1>1, <1>3
  <2>3. Exact(b) => u = b.used /\ f = b.free
    BY <1>1, <1>3 DEF Exact
  <2>. HIDE DEF m, u, f, k
  <2>4. /\ c \in DisplayFields /\ c.used = u /\ c.free = f /\ c.len = b.len /\ c.alloc = b.alloc
        /\ c.saved = b.saved /\ c.status = b.status /\ c.blocked = b.blocked
    <3>1. u \in Nat /\ f \in Int
      BY <2>2
    <3>. QED BY <3>1, SetCounts, ZenonT(40)
  <2>. HIDE DEF c
  <2>5. Exact(b) => Exact(c)
    BY <2>3, <2>4 DEF Exact
  <2>6. /\ r \in DisplayFields /\ r.status = "off" /\ r.blocked = c.blocked /\ r.used >= c.used
        /\ Exact(c) => Exact(r) /\ r.saved.free < 0
    BY <2>4, RemoveStatusSound
  <2>. HIDE DEF r
  <2>7. r.used \in Nat
    BY <2>6, Fields
  <2>8. /\ Put(r, k) \in DisplayFields
        /\ Put(r, k).used = r.used + k
        /\ Put(r, k).status = r.status /\ Put(r, k).blocked = r.blocked
        /\ Exact(r) /\ r.saved.free < 0 => Exact(Put(r, k))
    BY <2>2, <2>6, PutSound
  <2>. QED BY <1>1, <1>3, <2>1, <2>2, <2>4, <2>5, <2>6, <2>7, <2>8
<1>. QED BY <1>2, <1>3

\* Flush leaves an empty buffer, and the display is not blocked any more.
LEMMA FlushedSound ==
  ASSUME NEW b \in DisplayFields
  PROVE  /\ Flushed(b) \in DisplayFields
         /\ Flushed(b).used = 0 /\ (Pending(b) => ~Flushed(b).blocked)
         /\ Flushed(b).status = b.status /\ Flushed(b).saved = b.saved
         /\ Exact(b) /\ b.saved.free < 0 => Exact(Flushed(b))
<1>1. /\ b.saved.free \in Int /\ b.used \in Nat /\ b.len \in Nat
      /\ b.alloc \in Nat /\ b.free \in Int /\ b.blocked \in BOOLEAN
  BY Fields
<1>2. CASE b.used = 0
  <2>1. Flushed(b) = b
    BY <1>2 DEF Flushed
  <2>. QED BY <1>1, <1>2, <2>1 DEF Pending
<1>3. CASE b.used # 0
  <2>. DEFINE f == b.free + b.used
              c == [b EXCEPT !.used = 0, !.free = f]
              e == [c EXCEPT !.blocked = FALSE, !.fuzz = 0]
  <2>1. f \in Int
    BY <1>1
  <2>2. Flushed(b) = [b EXCEPT !.used = 0, !.free = f, !.blocked = FALSE, !.fuzz = 0]
    BY <1>3 DEF Flushed
  <2>. HIDE DEF f
  <2>3. Flushed(b) = e
    BY <2>2 DEF DisplayFields
  <2>4. /\ c \in DisplayFields /\ c.used = 0 /\ c.free = f /\ c.len = b.len /\ c.alloc = b.alloc
        /\ c.saved = b.saved /\ c.status = b.status
    BY <2>1 DEF DisplayFields
  <2>. HIDE DEF c
  <2>5. /\ e \in DisplayFields /\ e.used = c.used /\ e.free = c.free /\ e.len = c.len
        /\ e.alloc = c.alloc /\ e.saved = c.saved /\ e.status = c.status /\ e.blocked = FALSE
    BY <2>4 DEF DisplayFields
  <2>. HIDE DEF e
  <2>6. Exact(b) /\ b.saved.free < 0 => Exact(e)
    BY <1>1, <2>4, <2>5 DEF Exact, f
  <2>. QED BY <1>3, <2>3, <2>4, <2>5, <2>6 DEF Pending
<1>. QED BY <1>2, <1>3

\* The two halves of MakeStatus.
LEMMA StartStatusSound ==
  ASSUME NEW b \in DisplayFields, NEW kind \in {"win", "bell"}
  PROVE  /\ StartStatus(b, kind) \in DisplayFields
         /\ StartStatus(b, kind).blocked = b.blocked
         /\ StartStatus(b, kind).used >= b.used
         /\ Exact(b) => /\ Exact(StartStatus(b, kind))
                        /\ StartStatus(b, kind).status = kind
                        /\ StartStatus(b, kind).saved.free < 0
<1>. DEFINE r == RemoveStatus(b)
            c == [r EXCEPT !.status = kind]
<1>1. StartStatus(b, kind) = AddChars(c, MsgLen)
  BY DEF StartStatus
<1>2. MsgLen \in Nat
  BY OutputAssumption
<1>3. /\ r \in DisplayFields /\ r.blocked = b.blocked /\ r.used >= b.used
      /\ Exact(b) => Exact(r) /\ r.saved.free < 0
  BY RemoveStatusSound
<1>. HIDE DEF r
<1>4. kind \in Statuses
  BY DEF Statuses
<1>5. /\ c \in DisplayFields /\ c.status = kind /\ c.used = r.used /\ c.free = r.free
      /\ c.len = r.len /\ c.alloc = r.alloc /\ c.saved = r.saved /\ c.blocked = r.blocked
  BY <1>3, <1>4 DEF DisplayFields
<1>. HIDE DEF c
<1>6. r.used \in Nat /\ b.used \in Nat /\ r.saved.free \in Int
  BY <1>3, Fields
<1>7. Exact(b) => Exact(c)
  BY <1>3, <1>5, <1>6 DEF Exact
<1>8. /\ AddChars(c, MsgLen) \in DisplayFields
      /\ AddChars(c, MsgLen).blocked = c.blocked
      /\ AddChars(c, MsgLen).used >= c.used + MsgLen
      /\ c.saved.free < 0 => /\ AddChars(c, MsgLen).status = c.status
                             /\ AddChars(c, MsgLen).saved = c.saved
      /\ Exact(c) => Exact(AddChars(c, MsgLen))
  BY <1>2, <1>5, AddCharsSound
<1>9. AddChars(c, MsgLen).used \in Nat
  BY <1>8, Fields
<1>. QED BY <1>1, <1>2, <1>3, <1>5, <1>6, <1>7, <1>8, <1>9

LEMMA EndStatusSound ==
  ASSUME NEW b \in DisplayFields
  PROVE  /\ EndStatus(b) \in DisplayFields
         /\ EndStatus(b).status = b.status
         /\ Pending(b) => Pending(EndStatus(b))
         /\ Exact(b) /\ b.saved.free < 0 /\ b.status # "off" => Exact(EndStatus(b))
<1>. DEFINE w == Flushed(b)
            e == Put(w, EraseLen)
            s == [len |-> e.len, free |-> e.free]
            none == 0
            c == [e EXCEPT !.saved = s, !.len = none, !.free = none]
<1>0. EraseLen \in Nat
  BY OutputAssumption
<1>1. EndStatus(b) = c
  BY DEF EndStatus
<1>2. /\ w \in DisplayFields /\ w.used = 0 /\ (Pending(b) => ~w.blocked)
      /\ w.status = b.status /\ w.saved = b.saved
      /\ Exact(b) /\ b.saved.free < 0 => Exact(w)
  BY FlushedSound
<1>. HIDE DEF w
<1>3. /\ e \in DisplayFields /\ e.used = w.used + EraseLen /\ e.saved = w.saved
      /\ e.status = w.status /\ e.blocked = w.blocked
      /\ Exact(w) /\ w.saved.free < 0 => Exact(e)
  BY <1>0, <1>2, PutSound
<1>. HIDE DEF e
<1>4. /\ e.saved.free \in Int /\ e.used \in Nat /\ e.len \in Nat /\ e.alloc \in Nat
      /\ e.free \in Int
  BY <1>3, Fields
<1>5. s \in SavedCounts /\ s.len = e.len /\ s.free = e.free
  BY <1>4 DEF SavedCounts
<1>. HIDE DEF s
<1>. none \in Nat /\ none \in Int /\ none = 0
  OBVIOUS
<1>. HIDE DEF none
<1>6. /\ c \in DisplayFields /\ c.saved = s /\ c.len = 0 /\ c.free = 0 /\ c.used = e.used
      /\ c.alloc = e.alloc /\ c.status = e.status /\ c.blocked = e.blocked
  BY <1>3, <1>5 DEF DisplayFields
<1>. HIDE DEF c
<1>7. Exact(b) /\ b.saved.free < 0 /\ b.status # "off" => Exact(c)
  BY <1>0, <1>2, <1>3, <1>4, <1>5, <1>6 DEF Exact
<1>. QED BY <1>1, <1>2, <1>3, <1>6, <1>7 DEF Pending

\* NukePending keeps the counts, unless the real ones are saved.
LEMMA ClearSound ==
  ASSUME NEW b \in DisplayFields, NEW d
  PROVE  /\ Clear(d, b) \in DisplayFields
         /\ Clear(d, b).status = b.status /\ Clear(d, b).saved = b.saved
         /\ Clear(d, b).blocked = b.blocked
         /\ Exact(b) /\ (b.saved.free < 0 \/ d \notin AutoNuke) => Exact(Clear(d, b))
<1>1. /\ b.saved.free \in Int /\ b.used \in Nat /\ b.len \in Nat
      /\ b.alloc \in Nat /\ b.free \in Int
  BY Fields
<1>2. CASE d \notin AutoNuke
  BY <1>2 DEF Clear
<1>3. CASE d \in AutoNuke
  <2>. DEFINE f == b.free + b.used
              none == 0
              c == [b EXCEPT !.used = none, !.free = f]
  <2>1. Clear(d, b) = c
    BY <1>3 DEF Clear
  <2>2. f \in Int /\ none \in Nat /\ none = 0
    BY <1>1
  <2>. HIDE DEF f, none
  <2>3. /\ c \in DisplayFields /\ c.used = none /\ c.free = f /\ c.len = b.len /\ c.alloc = b.alloc
        /\ c.saved = b.saved /\ c.status = b.status /\ c.blocked = b.blocked
    BY <2>2 DEF DisplayFields
  <2>. HIDE DEF c
  <2>4. Exact(b) /\ b.saved.free < 0 => Exact(c)
    BY <1>1, <2>2, <2>3 DEF Exact, f
  <2>. QED BY <1>3, <2>1, <2>3, <2>4
<1>. QED BY <1>2, <1>3

\* Activate leaves no message and something to write.
LEMMA RedrawSound ==
  ASSUME NEW b \in DisplayFields, NEW d
  PROVE  /\ Redraw(d, b) \in DisplayFields
         /\ Redraw(d, b).status = "off"
         /\ Redraw(d, b).blocked = b.blocked
         /\ Redraw(d, b).used > 0
         /\ Exact(b) => Exact(Redraw(d, b))
<1>. DEFINE r == RemoveStatus(b)
            c == Clear(d, r)
<1>1. Redraw(d, b) = AddChars(c, RedrawLen)
  BY DEF Redraw
<1>2. RedrawLen \in Nat /\ RedrawLen > 0
  BY OutputAssumption
<1>3. /\ r \in DisplayFields /\ r.status = "off" /\ r.blocked = b.blocked
      /\ Exact(b) => Exact(r) /\ r.saved.free < 0
  BY RemoveStatusSound
<1>. HIDE DEF r
<1>4. /\ c \in DisplayFields /\ c.status = r.status /\ c.saved = r.saved /\ c.blocked = r.blocked
      /\ Exact(r) /\ (r.saved.free < 0 \/ d \notin AutoNuke) => Exact(c)
  BY <1>3, ClearSound
<1>. HIDE DEF c
<1>5. /\ AddChars(c, RedrawLen) \in DisplayFields
      /\ AddChars(c, RedrawLen).status \in {c.status, "off"}
      /\ AddChars(c, RedrawLen).blocked = c.blocked
      /\ AddChars(c, RedrawLen).used >= c.used + RedrawLen
      /\ Exact(c) => Exact(AddChars(c, RedrawLen))
  BY <1>2, <1>4, AddCharsSound
<1>6. AddChars(c, RedrawLen).used \in Nat /\ c.used \in Nat
  BY <1>4, <1>5, Fields
<1>. QED BY <1>1, <1>2, <1>3, <1>4, <1>5, <1>6

\* A display that starts is exact.
LEMMA MakeDisplaySound ==
  /\ MakeDisplay \in DisplayFields
  /\ Exact(MakeDisplay) /\ ~MakeDisplay.blocked /\ MakeDisplay.status = "off"
<1>1. GRAIN \in Nat /\ GRAIN > 0 /\ Limits[1] \in Nat /\ DefNonblock \in Nonblocks
  BY OutputAssumption
<1>2. NoSaved \in SavedCounts /\ NoSaved.free = -1
  BY DEF NoSaved, SavedCounts
<1>3. "off" \in Statuses /\ "EV_WRITE" \in WriteTypes
  BY DEF Statuses, WriteTypes
<1>4. /\ MakeDisplay.used = 0 /\ MakeDisplay.free = GRAIN /\ MakeDisplay.len = GRAIN
      /\ MakeDisplay.alloc = GRAIN /\ MakeDisplay.saved = NoSaved
      /\ MakeDisplay.status = "off" /\ MakeDisplay.blocked = FALSE
  BY DEF MakeDisplay
<1>5. MakeDisplay \in DisplayFields
  BY <1>1, <1>2, <1>3 DEF MakeDisplay, DisplayFields
<1>. QED BY <1>1, <1>2, <1>4, <1>5 DEF Exact

\* disp_writeev_fn: what was written leaves, and a blocked display that has
\* nothing left comes back.
LEMMA WrittenSound ==
  ASSUME NEW b \in DisplayFields, NEW d, NEW n \in Nat, n <= b.used
  PROVE  /\ Written(d, b, n) \in DisplayFields
         /\ Written(d, b, n).status \in {b.status, "off"}
         /\ Pending(Written(d, b, n))
         /\ Exact(b) /\ CanWrite(b) => Exact(Written(d, b, n))
<1>. DEFINE u == b.used - n
            f == b.free + n
            z == IF b.fuzz > n THEN b.fuzz - n ELSE 0
            t == b.timer /\ b.used - n > b.obufmax \div 2
            c == [b EXCEPT !.used = u, !.free = f]
            w == [c EXCEPT !.fuzz = z, !.timer = t]
            v == [w EXCEPT !.blocked = FALSE]
            r == Redraw(d, v)
            y == [r EXCEPT !.fuzz = r.used]
<1>1. /\ b.saved.free \in Int /\ b.used \in Nat /\ b.len \in Nat
      /\ b.alloc \in Nat /\ b.free \in Int /\ b.fuzz \in Nat /\ b.blocked \in BOOLEAN
  BY Fields
<1>2. u \in Nat /\ f \in Int /\ z \in Nat
  BY <1>1
<1>3. t \in BOOLEAN
  OBVIOUS
<1>4. [b EXCEPT !.used = @ - n, !.free = @ + n, !.fuzz = IF @ > n THEN @ - n ELSE 0,
                !.timer = @ /\ b.used - n > b.obufmax \div 2] = w
  <2>1. [b EXCEPT !.used = u, !.free = f, !.fuzz = z, !.timer = t] = w
    <3>. HIDE DEF u, f, z, t
    <3>. QED BY DEF DisplayFields
  <2>. QED BY <2>1
<1>5. Written(d, b, n) = IF w.blocked /\ w.used = 0 THEN y ELSE w
  <2>. HIDE DEF w, y
  <2>. QED BY <1>4 DEF Written, y, r, v
<1>. HIDE DEF u, f, z, t
<1>6. /\ c \in DisplayFields /\ c.used = u /\ c.free = f /\ c.len = b.len /\ c.alloc = b.alloc
      /\ c.saved = b.saved /\ c.status = b.status /\ c.blocked = b.blocked
  BY <1>2 DEF DisplayFields
<1>. HIDE DEF c
<1>7. /\ w \in DisplayFields /\ w.used = c.used /\ w.free = c.free /\ w.len = c.len
      /\ w.alloc = c.alloc /\ w.saved = c.saved /\ w.status = c.status /\ w.blocked = c.blocked
  BY <1>2, <1>3, <1>6 DEF DisplayFields
<1>. HIDE DEF w
<1>8. /\ v \in DisplayFields /\ v.used = w.used /\ v.free = w.free /\ v.len = w.len
      /\ v.alloc = w.alloc /\ v.saved = w.saved /\ v.status = w.status /\ v.blocked = FALSE
  BY <1>7 DEF DisplayFields
<1>. HIDE DEF v
<1>9. Exact(b) /\ CanWrite(b) => Exact(w) /\ Exact(v)
  <2>1. CanWrite(b) => b.len > b.free
    BY DEF CanWrite
  <2>2. u = b.used - n /\ f = b.free + n
    BY DEF u, f
  <2>. QED BY <1>1, <1>6, <1>7, <1>8, <2>1, <2>2 DEF Exact
<1>10. /\ r \in DisplayFields /\ r.status = "off" /\ r.blocked = v.blocked /\ r.used > 0
       /\ Exact(v) => Exact(r)
  BY <1>8, RedrawSound
<1>. HIDE DEF r
<1>11. r.used \in Nat
  BY <1>10, Fields
<1>12. /\ y \in DisplayFields /\ y.used = r.used /\ y.free = r.free /\ y.len = r.len
       /\ y.alloc = r.alloc /\ y.saved = r.saved /\ y.status = r.status /\ y.blocked = r.blocked
  BY <1>10, <1>11 DEF DisplayFields
<1>. HIDE DEF y
<1>13. Exact(r) => Exact(y)
  BY <1>12 DEF Exact
<1>14. w.used \in Nat
  BY <1>7, Fields
<1>15. CASE w.blocked /\ w.used = 0
  BY <1>5, <1>8, <1>9, <1>10, <1>12, <1>13, <1>15 DEF Pending
<1>16. CASE ~(w.blocked /\ w.used = 0)
  BY <1>5, <1>6, <1>7, <1>9, <1>14, <1>16 DEF Pending
<1>. QED BY <1>15, <1>16

-----------------------------------------------------------------------------
(* Types, blocked displays and conditions of events: what holds whatever   *)
(* the settings of the displays are.                                       *)

Blocked == \A d \in Displays : Pending(disp[d])

Base == OutputTypeOK /\ Blocked /\ NoDanglingCond

DispOK == disp \in [Displays -> DisplayFields] /\ Blocked

SameCounts(b, c) ==
  /\ c.used = b.used /\ c.free = b.free /\ c.len = b.len /\ c.alloc = b.alloc
  /\ c.saved = b.saved /\ c.status = b.status

LEMMA SameExact ==
  ASSUME NEW b, NEW c, SameCounts(b, c), Exact(b)
  PROVE  Exact(c)
BY DEF SameCounts, Exact

\* What muchpending does to the displays that it passes by.
LEMMA PassedSound ==
  ASSUME DispOK, NEW ds
  PROVE  /\ Passed(ds) \in [Displays -> DisplayFields]
         /\ \A d \in Displays : SameCounts(disp[d], Passed(ds)[d]) /\ Pending(Passed(ds)[d])
<1>1. ASSUME NEW d \in Displays
      PROVE  /\ Passed(ds)[d] \in DisplayFields
             /\ SameCounts(disp[d], Passed(ds)[d])
             /\ Pending(Passed(ds)[d])
  <2>. DEFINE b == disp[d]
              c == [b EXCEPT !.blocked = TRUE]
  <2>1. Passed(ds)[d] = IF d \in ds /\ Over(b) /\ ~b.blocked THEN c ELSE b
    BY DEF Passed
  <2>2. b \in DisplayFields /\ Pending(b)
    BY DEF DispOK, Blocked
  <2>. HIDE DEF b
  <2>3. c \in DisplayFields /\ SameCounts(b, c)
    BY <2>2 DEF DisplayFields, SameCounts
  <2>4. b.used \in Nat /\ b.obufmax \in Nat /\ b.fuzz \in Nat
    BY <2>2, Fields
  <2>5. Over(b) => Pending(c)
    BY <2>3, <2>4 DEF Over, Pending, SameCounts
  <2>6. SameCounts(b, b)
    BY DEF SameCounts
  <2>. HIDE DEF c
  <2>. QED BY <2>1, <2>2, <2>3, <2>5, <2>6 DEF b
<1>2. Passed(ds) = [d \in Displays |-> Passed(ds)[d]]
  BY DEF Passed
<1>. QED BY <1>1, <1>2

\* A step that gives display d the fields b.
LEMMA UpdateSound ==
  ASSUME DispOK, NEW d \in Displays, NEW b \in DisplayFields, Pending(b), Update(d, b)
  PROVE  DispOK'
BY DEF DispOK, Blocked, Update

LEMMA InitBase == OutputInit => Base
<1>. SUFFICES ASSUME OutputInit PROVE Base
  OBVIOUS
<1>1. OutputTypeOK
  BY MakeDisplaySound DEF OutputInit, OutputTypeOK, NoCond, NotFlushing
<1>2. Blocked
  BY MakeDisplaySound DEF OutputInit, Blocked, Pending
<1>3. NoDanglingCond
  BY DEF OutputInit, NoDanglingCond, NoCond
<1>. QED BY <1>1, <1>2, <1>3 DEF Base

\* A step that changes neither the conditions nor the set of displays.
LEMMA BaseFrom ==
  ASSUME Base, DispOK', UNCHANGED <<live, shows, waits>>,
         accepts' \in [Displays -> BOOLEAN],
         flushing' \in [d : Displays \union {NoDisplay}, for : {"none", "free", "message"}]
  PROVE  Base'
BY DEF Base, DispOK, OutputTypeOK, NoDanglingCond, Blocked

LEMMA StopReadingBase ==
  ASSUME Base, NEW r \in Readers, StopReading(r)
  PROVE  Base'
<1>1. PICK d \in Showing(Win[r]), ds \in SUBSET {e \in Showing(Win[r]) : ~Stops(disp[e])} :
        StopFor(r, d, Passed(ds))
  BY DEF StopReading
<1>. DEFINE p == Passed(ds)
            q == [p[d] EXCEPT !.timer = TRUE]
<1>2. d \in live /\ d \in Displays
  BY <1>1 DEF Showing, Base, OutputTypeOK
<1>3. /\ p \in [Displays -> DisplayFields]
      /\ \A e \in Displays : SameCounts(disp[e], p[e]) /\ Pending(p[e])
  BY PassedSound DEF Base, OutputTypeOK, DispOK
<1>4. disp' = p \/ disp' = [p EXCEPT ![d] = q]
  BY <1>1 DEF StopFor
<1>. HIDE DEF p
<1>5. p[d] \in DisplayFields
  BY <1>2, <1>3
<1>6. q \in DisplayFields /\ q.blocked = p[d].blocked /\ q.used = p[d].used
  BY <1>5 DEF DisplayFields
<1>. HIDE DEF q
<1>7. DispOK'
  BY <1>2, <1>3, <1>4, <1>6 DEF DispOK, Blocked, Pending
<1>8. PICK on \in {"status", "obuf"} : waits' = [waits EXCEPT ![r] = [on |-> on, d |-> d]]
  BY <1>1 DEF StopFor
<1>9. UNCHANGED <<live, shows, accepts, flushing>>
  BY DEF StopReading
<1>10. waits' \in [Readers -> [on : {"none", "status", "obuf"}, d : Displays \union {NoDisplay}]]
  BY <1>2, <1>8 DEF Base, OutputTypeOK
<1>11. NoDanglingCond'
  BY <1>2, <1>8, <1>9 DEF Base, OutputTypeOK, NoDanglingCond
<1>. QED BY <1>7, <1>9, <1>10, <1>11 DEF Base, DispOK, OutputTypeOK, Blocked

\* One display of ReadWindow.
LEMMA ReadOne ==
  ASSUME NEW b \in DisplayFields, NEW d, NEW n \in Nat \ {0}, NEW clear \in BOOLEAN
  PROVE  LET c == AddChars(IF clear THEN Clear(d, b) ELSE b, n)
         IN  /\ c \in DisplayFields
             /\ c.used > 0
             /\ c.status \in {b.status, "off"}
             /\ Exact(b) /\ (b.saved.free < 0 \/ d \notin AutoNuke) => Exact(c)
<1>. DEFINE a == IF clear THEN Clear(d, b) ELSE b
<1>1. /\ a \in DisplayFields /\ a.status = b.status
      /\ Exact(b) /\ (b.saved.free < 0 \/ d \notin AutoNuke) => Exact(a)
  BY ClearSound
<1>. HIDE DEF a
<1>2. /\ AddChars(a, n) \in DisplayFields
      /\ AddChars(a, n).status \in {a.status, "off"}
      /\ AddChars(a, n).used >= a.used + n
      /\ Exact(a) => Exact(AddChars(a, n))
  BY <1>1, AddCharsSound
<1>3. a.used \in Nat /\ AddChars(a, n).used \in Nat
  BY <1>1, <1>2, Fields
<1>. QED BY <1>1, <1>2, <1>3 DEF a

LEMMA ReadWindowBase ==
  ASSUME Base, NEW r \in Readers, ReadWindow(r)
  PROVE  Base'
<1>. DEFINE ds == Showing(Win[r])
            p == Passed(ds)
<1>1. PICK n \in Chunk, clear \in BOOLEAN :
        disp' = [d \in Displays |->
                   IF d \notin ds \/ p[d].blocked THEN p[d]
                   ELSE AddChars(IF clear THEN Clear(d, p[d]) ELSE p[d], n)]
  BY DEF ReadWindow
<1>2. n \in Nat \ {0}
  BY OutputAssumption
<1>3. DispOK
  BY DEF Base, OutputTypeOK, DispOK
<1>4. p \in [Displays -> DisplayFields] /\ \A e \in Displays : Pending(p[e])
  BY <1>3, PassedSound
<1>. HIDE DEF p, ds
<1>5. ASSUME NEW d \in Displays
      PROVE  disp'[d] \in DisplayFields /\ Pending(disp'[d])
  <2>1. p[d] \in DisplayFields /\ Pending(p[d])
    BY <1>4
  <2>. DEFINE c == AddChars(IF clear THEN Clear(d, p[d]) ELSE p[d], n)
  <2>2. c \in DisplayFields /\ c.used > 0
    BY <1>2, <2>1, ReadOne
  <2>3. disp'[d] = IF d \notin ds \/ p[d].blocked THEN p[d] ELSE c
    BY <1>1
  <2>. HIDE DEF c
  <2>. QED BY <2>1, <2>2, <2>3 DEF Pending
<1>6. disp' \in [Displays -> DisplayFields]
  <2>. DEFINE v(d) == IF d \notin ds \/ p[d].blocked THEN p[d]
                      ELSE AddChars(IF clear THEN Clear(d, p[d]) ELSE p[d], n)
  <2>1. disp' = [d \in Displays |-> v(d)]
    BY <1>1
  <2>. HIDE DEF v
  <2>. QED BY <1>5, <2>1
<1>7. DispOK'
  BY <1>5, <1>6 DEF DispOK, Blocked
<1>8. waits' = [waits EXCEPT ![r] = NoCond] /\ UNCHANGED <<live, shows, accepts, flushing>>
  BY DEF ReadWindow
<1>9. waits' \in [Readers -> [on : {"none", "status", "obuf"}, d : Displays \union {NoDisplay}]]
  BY <1>8 DEF Base, OutputTypeOK, NoCond
<1>10. NoDanglingCond'
  BY <1>8 DEF Base, OutputTypeOK, NoDanglingCond, NoCond
<1>. QED BY <1>7, <1>8, <1>9, <1>10 DEF Base, DispOK, OutputTypeOK, Blocked

\* The actions that give one display new fields and touch nothing else of Base.
LEMMA OnlyBase ==
  ASSUME Base, NEW d \in Displays, NEW b \in DisplayFields, Pending(b), Only(d, b)
  PROVE  Base'
<1>1. DispOK
  BY DEF Base, OutputTypeOK, DispOK
<1>2. DispOK'
  BY <1>1, UpdateSound DEF Only
<1>. QED BY <1>2, BaseFrom DEF Only, Base, OutputTypeOK

LEMMA HereOK ==
  ASSUME Base, NEW d \in Displays
  PROVE  disp[d] \in DisplayFields /\ Pending(disp[d])
BY DEF Base, OutputTypeOK, Blocked

LEMMA AttachBase ==
  ASSUME Base, NEW d \in Displays, Attach(d)
  PROVE  Base'
<1>. DEFINE b == Redraw(d, MakeDisplay)
<1>1. b \in DisplayFields /\ Pending(b)
  BY MakeDisplaySound, RedrawSound DEF Pending
<1>2. Update(d, b)
  BY DEF Attach
<1>. HIDE DEF b
<1>3. DispOK
  BY DEF Base, OutputTypeOK, DispOK
<1>4. DispOK'
  BY <1>1, <1>2, <1>3, UpdateSound
<1>5. /\ live' = live \union {d} /\ waits' = waits /\ flushing' = flushing
      /\ shows' \in [Displays -> SUBSET Windows] /\ accepts' \in [Displays -> BOOLEAN]
  BY DEF Attach, Base, OutputTypeOK
<1>6. NoDanglingCond'
  BY <1>5 DEF Base, NoDanglingCond
<1>. QED BY <1>4, <1>5, <1>6 DEF Base, DispOK, OutputTypeOK, Blocked

LEMMA DetachBase ==
  ASSUME Base, NEW d \in Displays, Detach(d)
  PROVE  Base'
<1>. DEFINE r == RemoveStatus(disp[d])
            b == Put(r, EraseLen)
<1>0. EraseLen \in Nat
  BY OutputAssumption
<1>1. disp[d] \in DisplayFields /\ Pending(disp[d])
  BY HereOK
<1>2. r \in DisplayFields /\ r.blocked = disp[d].blocked /\ r.used >= disp[d].used
  BY <1>1, RemoveStatusSound
<1>3. Update(d, b)
  BY DEF Detach
<1>. HIDE DEF r
<1>4. b \in DisplayFields /\ b.blocked = r.blocked /\ b.used = r.used + EraseLen
  BY <1>0, <1>2, PutSound
<1>. HIDE DEF b
<1>5. r.used \in Nat /\ disp[d].used \in Nat
  BY <1>1, <1>2, Fields
<1>6. Pending(b)
  BY <1>0, <1>1, <1>2, <1>4, <1>5 DEF Pending
<1>7. DispOK'
  BY <1>3, <1>4, <1>6, UpdateSound DEF Base, OutputTypeOK, DispOK
<1>. QED BY <1>7, BaseFrom DEF Detach, Base, OutputTypeOK

LEMMA MessageBase ==
  ASSUME Base, NEW d \in Displays, Message(d) \/ Bell(d)
  PROVE  Base'
<1>1. PICK kind \in {"win", "bell"} : Update(d, StartStatus(disp[d], kind))
  BY DEF Message, Bell
<1>. DEFINE b == StartStatus(disp[d], kind)
<1>2. disp[d] \in DisplayFields /\ ~disp[d].blocked
  BY HereOK DEF Message, Bell
<1>3. b \in DisplayFields /\ b.blocked = disp[d].blocked
  BY <1>2, StartStatusSound
<1>. HIDE DEF b
<1>4. DispOK'
  BY <1>1, <1>2, <1>3, UpdateSound DEF Base, OutputTypeOK, DispOK, Pending, b
<1>5. UNCHANGED <<live, shows, accepts, waits>>
  BY DEF Message, Bell
<1>6. flushing' = [d |-> d, for |-> "message"]
  BY DEF Message, Bell
<1>. QED BY <1>4, <1>5, <1>6, BaseFrom DEF Base, OutputTypeOK

LEMMA EndFlushBase ==
  ASSUME Base, NEW d \in Displays, EndFlush(d)
  PROVE  Base'
<1>1. flushing' = NotFlushing /\ accepts' = accepts
  BY DEF EndFlush
<1>2. flushing' \in [d : Displays \union {NoDisplay}, for : {"none", "free", "message"}]
  BY <1>1 DEF NotFlushing
<1>3. disp[d] \in DisplayFields /\ Pending(disp[d])
  BY HereOK
<1>4. DispOK
  BY DEF Base, OutputTypeOK, DispOK
<1>5. CASE flushing.for = "free"
  <2>1. FreeDisplay(d)
    BY <1>5 DEF EndFlush
  <2>2. DispOK'
    BY <1>4, <2>1, MakeDisplaySound, UpdateSound DEF FreeDisplay, Pending
  <2>3. /\ live' \subseteq Displays /\ shows' \in [Displays -> SUBSET Windows]
        /\ waits' \in [Readers -> [on : {"none", "status", "obuf"}, d : Displays \union {NoDisplay}]]
    BY <2>1 DEF FreeDisplay, Base, OutputTypeOK, NoCond
  <2>4. NoDanglingCond'
    BY <2>1 DEF FreeDisplay, Base, OutputTypeOK, NoDanglingCond, NoCond
  <2>. QED BY <1>1, <1>2, <2>2, <2>3, <2>4 DEF Base, DispOK, OutputTypeOK, Blocked
<1>6. CASE flushing.for # "free"
  <2>1. Update(d, EndStatus(disp[d])) /\ UNCHANGED <<live, shows, waits>>
    BY <1>6 DEF EndFlush
  <2>2. EndStatus(disp[d]) \in DisplayFields /\ Pending(EndStatus(disp[d]))
    BY <1>3, EndStatusSound
  <2>3. DispOK'
    BY <1>4, <2>1, <2>2, UpdateSound
  <2>. QED BY <1>1, <1>2, <2>1, <2>3, BaseFrom DEF Base, OutputTypeOK
<1>. QED BY <1>5, <1>6

LEMMA StatusTimeoutBase ==
  ASSUME Base, NEW d \in Displays, StatusTimeout(d)
  PROVE  Base'
<1>. DEFINE b == RemoveStatus(disp[d])
<1>1. disp[d] \in DisplayFields /\ Pending(disp[d])
  BY HereOK
<1>2. b \in DisplayFields /\ b.blocked = disp[d].blocked /\ b.used >= disp[d].used
  BY <1>1, RemoveStatusSound
<1>3. Only(d, b)
  BY DEF StatusTimeout
<1>. HIDE DEF b
<1>4. b.used \in Nat /\ disp[d].used \in Nat
  BY <1>1, <1>2, Fields
<1>5. Pending(b)
  BY <1>1, <1>2, <1>4 DEF Pending
<1>. QED BY <1>2, <1>3, <1>5, OnlyBase

LEMMA KeyBase ==
  ASSUME Base, NEW d \in Displays, Key(d)
  PROVE  Base'
<1>1. PICK w \in shows[d] :
        disp' = [e \in Displays |-> IF e \in Showing(w) THEN RemoveStatus(disp[e]) ELSE disp[e]]
  BY DEF Key
<1>2. ASSUME NEW e \in Displays
      PROVE  /\ disp[e] \in DisplayFields /\ Pending(disp[e])
             /\ RemoveStatus(disp[e]) \in DisplayFields /\ Pending(RemoveStatus(disp[e]))
  <2>. DEFINE b == RemoveStatus(disp[e])
  <2>1. disp[e] \in DisplayFields /\ Pending(disp[e])
    BY HereOK
  <2>2. b \in DisplayFields /\ b.blocked = disp[e].blocked /\ b.used >= disp[e].used
    BY <2>1, RemoveStatusSound
  <2>. HIDE DEF b
  <2>3. b.used \in Nat /\ disp[e].used \in Nat
    BY <2>1, <2>2, Fields
  <2>4. Pending(b)
    BY <2>1, <2>2, <2>3 DEF Pending
  <2>. QED BY <2>1, <2>2, <2>4 DEF b
<1>3. DispOK'
  BY <1>1, <1>2 DEF DispOK, Blocked
<1>4. UNCHANGED <<live, shows, accepts, waits, flushing>>
  BY DEF Key
<1>. QED BY <1>3, <1>4, BaseFrom DEF Base, OutputTypeOK

\* One display of the commands clear and reset: no message is left on it.
LEMMA ClearOne ==
  ASSUME NEW b \in DisplayFields, Pending(b), NEW d, NEW n \in Nat \ {0}, NEW clear \in BOOLEAN
  PROVE  LET r == RemoveStatus(b)
             c == IF r.blocked THEN r ELSE AddChars(IF clear THEN Clear(d, r) ELSE r, n)
         IN  /\ c \in DisplayFields /\ Pending(c) /\ c.status = "off"
             /\ Exact(b) => Exact(c)
<1>. DEFINE r == RemoveStatus(b)
<1>1. /\ r \in DisplayFields /\ r.status = "off" /\ r.blocked = b.blocked /\ r.used >= b.used
      /\ Exact(b) => Exact(r) /\ r.saved.free < 0
  BY RemoveStatusSound
<1>. HIDE DEF r
<1>2. b.used \in Nat /\ r.used \in Nat
  BY <1>1, Fields
<1>3. CASE r.blocked
  BY <1>1, <1>2, <1>3 DEF Pending, r
<1>4. CASE ~r.blocked
  <2>. DEFINE c == AddChars(IF clear THEN Clear(d, r) ELSE r, n)
  <2>1. /\ c \in DisplayFields /\ c.used > 0 /\ c.status \in {r.status, "off"}
        /\ Exact(r) /\ (r.saved.free < 0 \/ d \notin AutoNuke) => Exact(c)
    BY <1>1, ReadOne
  <2>. HIDE DEF c
  <2>2. c \in DisplayFields /\ Pending(c) /\ c.status = "off" /\ (Exact(b) => Exact(c))
    BY <1>1, <2>1 DEF Pending
  <2>. QED BY <1>4, <2>2 DEF c, r
<1>. QED BY <1>3, <1>4

LEMMA ClearCommandBase ==
  ASSUME Base, NEW d \in Displays, ClearCommand(d)
  PROVE  Base'
<1>1. PICK w \in shows[d] :
        \E n \in Chunk, clear \in BOOLEAN :
          disp' = [e \in Displays |->
                     LET b == RemoveStatus(disp[e])
                     IN  IF e \notin Showing(w) THEN disp[e]
                         ELSE IF b.blocked THEN b
                         ELSE AddChars(IF clear THEN Clear(e, b) ELSE b, n)]
  BY DEF ClearCommand
<1>. DEFINE ds == Showing(w)
<1>2. PICK n \in Chunk, clear \in BOOLEAN :
        disp' = [e \in Displays |->
                   LET b == RemoveStatus(disp[e])
                   IN  IF e \notin ds THEN disp[e]
                       ELSE IF b.blocked THEN b
                       ELSE AddChars(IF clear THEN Clear(e, b) ELSE b, n)]
  BY <1>1
<1>. HIDE DEF ds
<1>3. n \in Nat \ {0}
  BY OutputAssumption
<1>. DEFINE c(e) == LET b == RemoveStatus(disp[e])
                    IN  IF b.blocked THEN b ELSE AddChars(IF clear THEN Clear(e, b) ELSE b, n)
            v(e) == IF e \notin ds THEN disp[e] ELSE c(e)
<1>4. disp' = [e \in Displays |-> v(e)]
  BY <1>2
<1>5. ASSUME NEW e \in Displays
      PROVE  v(e) \in DisplayFields /\ Pending(v(e))
  <2>1. disp[e] \in DisplayFields /\ Pending(disp[e])
    BY HereOK
  <2>2. c(e) \in DisplayFields /\ Pending(c(e))
    BY <1>3, <2>1, ClearOne
  <2>. HIDE DEF c
  <2>. QED BY <2>1, <2>2
<1>. HIDE DEF v
<1>6. DispOK'
  BY <1>4, <1>5 DEF DispOK, Blocked
<1>7. UNCHANGED <<live, shows, accepts, waits, flushing>>
  BY DEF ClearCommand
<1>. QED BY <1>6, <1>7, BaseFrom DEF Base, OutputTypeOK

LEMMA ShowBase ==
  ASSUME Base, NEW d \in Displays, Show(d)
  PROVE  Base'
<1>. DEFINE b == Redraw(d, disp[d])
<1>1. disp[d] \in DisplayFields
  BY HereOK
<1>2. b \in DisplayFields /\ b.used > 0
  BY <1>1, RedrawSound
<1>3. Update(d, b) /\ shows' \in [Displays -> SUBSET Windows] /\ UNCHANGED <<live, accepts, waits, flushing>>
  BY DEF Show, Base, OutputTypeOK
<1>. HIDE DEF b
<1>4. DispOK'
  BY <1>2, <1>3, UpdateSound DEF Base, OutputTypeOK, DispOK, Pending
<1>. QED BY <1>3, <1>4 DEF Base, DispOK, OutputTypeOK, NoDanglingCond, Blocked

LEMMA WriteBase ==
  ASSUME Base, NEW d \in Displays, NEW n \in 0 .. OUTPUT_BLOCK_SIZE, Write(d, n)
  PROVE  Base'
<1>1. disp[d] \in DisplayFields
  BY HereOK
<1>2. n \in Nat /\ n <= disp[d].used /\ Only(d, Written(d, disp[d], n))
  BY OutputAssumption DEF Write
<1>3. Written(d, disp[d], n) \in DisplayFields /\ Pending(Written(d, disp[d], n))
  BY <1>1, <1>2, WrittenSound
<1>. QED BY <1>2, <1>3, OnlyBase

\* What WriteAgain, Nonblock and Obuflimit change is not part of the counts.
LEMMA SettingStep ==
  ASSUME Base, NEW d \in Displays, WriteAgain(d) \/ Nonblock(d) \/ Obuflimit(d)
  PROVE  \E b \in DisplayFields :
           SameCounts(disp[d], b) /\ b.blocked = disp[d].blocked /\ Only(d, b)
<1>1. disp[d] \in DisplayFields
  BY HereOK
<1>2. /\ disp[d].timer \in BOOLEAN /\ disp[d].len \in Nat
      /\ "EV_WRITE" \in WriteTypes /\ "EV_TIMEOUT" \in WriteTypes
  BY <1>1, Fields DEF WriteTypes
<1>3. CASE WriteAgain(d)
  <2>1. PICK t \in WriteTypes : Only(d, [disp[d] EXCEPT !.type = t])
    BY <1>2, <1>3 DEF WriteAgain
  <2>2. /\ [disp[d] EXCEPT !.type = t] \in DisplayFields
        /\ SameCounts(disp[d], [disp[d] EXCEPT !.type = t])
        /\ [disp[d] EXCEPT !.type = t].blocked = disp[d].blocked
    BY <1>1 DEF DisplayFields, SameCounts
  <2>. QED BY <2>1, <2>2
<1>4. CASE Nonblock(d)
  <2>1. PICK v \in Nonblocks :
          Only(d, [disp[d] EXCEPT !.nonblock = v, !.timer = @ /\ v = "timeout"])
    BY <1>4 DEF Nonblock
  <2>. DEFINE on == disp[d].timer /\ v = "timeout"
              b == [disp[d] EXCEPT !.nonblock = v, !.timer = on]
  <2>2. on \in BOOLEAN
    OBVIOUS
  <2>3. Only(d, b)
    BY <2>1
  <2>. HIDE DEF on
  <2>4. b \in DisplayFields /\ SameCounts(disp[d], b) /\ b.blocked = disp[d].blocked
    BY <1>1, <2>2 DEF DisplayFields, SameCounts
  <2>. HIDE DEF b
  <2>. QED BY <2>3, <2>4
<1>5. CASE Obuflimit(d)
  <2>1. PICK i \in 1 .. Len(Limits) :
          Only(d, [disp[d] EXCEPT !.obufmax = Limits[i], !.obuflenmax = disp[d].len - Limits[i]])
    BY <1>5 DEF Obuflimit
  <2>. DEFINE m == Limits[i]
              l == disp[d].len - m
              b == [disp[d] EXCEPT !.obufmax = m, !.obuflenmax = l]
  <2>2. m \in Nat
    BY OutputAssumption
  <2>3. Only(d, b)
    BY <2>1
  <2>. HIDE DEF m
  <2>4. l \in Int
    BY <1>2, <2>2
  <2>. HIDE DEF l
  <2>5. b \in DisplayFields /\ SameCounts(disp[d], b) /\ b.blocked = disp[d].blocked
    BY <1>1, <2>2, <2>4 DEF DisplayFields, SameCounts
  <2>. HIDE DEF b
  <2>. QED BY <2>3, <2>5
<1>. QED BY <1>3, <1>4, <1>5

LEMMA SettingBase ==
  ASSUME Base, NEW d \in Displays, WriteAgain(d) \/ Nonblock(d) \/ Obuflimit(d)
  PROVE  Base'
<1>1. PICK b \in DisplayFields :
        SameCounts(disp[d], b) /\ b.blocked = disp[d].blocked /\ Only(d, b)
  BY SettingStep
<1>2. Pending(b)
  BY <1>1, HereOK DEF Pending, SameCounts
<1>. QED BY <1>1, <1>2, OnlyBase

\* disp_blocked_fn blocks a display only when it owes more than obufmax.
LEMMA BlockedTimeoutSound ==
  ASSUME Base, NEW d \in Displays, BlockedTimeout(d)
  PROVE  \E b \in DisplayFields :
           SameCounts(disp[d], b) /\ Pending(b) /\ Update(d, b)
<1>. DEFINE a == disp[d]
            over == Over(a)
            k == a.blocked \/ over
            b == [a EXCEPT !.timer = FALSE, !.blocked = k]
<1>1. Update(d, b)
  BY DEF BlockedTimeout
<1>2. a \in DisplayFields /\ Pending(a)
  BY HereOK
<1>. HIDE DEF a
<1>3. a.used \in Nat /\ a.obufmax \in Nat /\ a.fuzz \in Nat
  BY <1>2, Fields
<1>4. k \in BOOLEAN /\ (k => a.used > 0)
  BY <1>2, <1>3 DEF Pending, Over
<1>. HIDE DEF k
<1>5. b \in DisplayFields /\ SameCounts(a, b) /\ b.blocked = k
  BY <1>2, <1>4 DEF DisplayFields, SameCounts
<1>. HIDE DEF b
<1>6. Pending(b)
  BY <1>4, <1>5 DEF Pending, SameCounts
<1>. QED BY <1>1, <1>5, <1>6 DEF a

LEMMA BlockedTimeoutBase ==
  ASSUME Base, NEW d \in Displays, BlockedTimeout(d)
  PROVE  Base'
<1>1. PICK b \in DisplayFields : SameCounts(disp[d], b) /\ Pending(b) /\ Update(d, b)
  BY BlockedTimeoutSound
<1>2. DispOK'
  BY <1>1, UpdateSound DEF Base, OutputTypeOK, DispOK
<1>3. /\ waits' \in [Readers -> [on : {"none", "status", "obuf"}, d : Displays \union {NoDisplay}]]
      /\ \A r \in Readers : waits'[r] = NoCond \/ waits'[r] = waits[r]
      /\ UNCHANGED <<live, shows, accepts, flushing>>
  BY DEF BlockedTimeout, Base, OutputTypeOK, NoCond
<1>4. NoDanglingCond'
  BY <1>3 DEF Base, NoDanglingCond, NoCond
<1>. QED BY <1>2, <1>3, <1>4 DEF Base, DispOK, OutputTypeOK, Blocked

LEMMA TerminalBase ==
  ASSUME Base, NEW d \in Displays, Stop(d) \/ Go(d)
  PROVE  Base'
BY DEF Base, OutputTypeOK, NoDanglingCond, Blocked, Stop, Go

LEMMA StutterBase == Base /\ UNCHANGED outputVars => Base'
BY DEF Base, OutputTypeOK, NoDanglingCond, Blocked, outputVars

LEMMA NextBase == Base /\ [OutputNext]_outputVars => Base'
<1>. SUFFICES ASSUME Base, [OutputNext]_outputVars PROVE Base'
  OBVIOUS
<1>1. ASSUME NEW r \in Readers, StopReading(r) \/ ReadWindow(r)
      PROVE  Base'
  BY <1>1, StopReadingBase, ReadWindowBase
<1>2. ASSUME NEW d \in Displays, Attach(d) \/ Detach(d) \/ Message(d) \/ Bell(d) \/ EndFlush(d)
      PROVE  Base'
  BY <1>2, AttachBase, DetachBase, MessageBase, EndFlushBase
<1>3. ASSUME NEW d \in Displays, StatusTimeout(d) \/ Key(d) \/ Show(d) \/ ClearCommand(d)
      PROVE  Base'
  BY <1>3, StatusTimeoutBase, KeyBase, ShowBase, ClearCommandBase
<1>4. ASSUME NEW d \in Displays, NEW n \in 0 .. OUTPUT_BLOCK_SIZE, Write(d, n)
      PROVE  Base'
  BY <1>4, WriteBase
<1>5. ASSUME NEW d \in Displays, \/ WriteAgain(d) \/ BlockedTimeout(d) \/ Nonblock(d)
                                 \/ Obuflimit(d) \/ Stop(d) \/ Go(d)
      PROVE  Base'
  BY <1>5, SettingBase, BlockedTimeoutBase, TerminalBase
<1>. QED BY <1>1, <1>2, <1>3, <1>4, <1>5, StutterBase DEF OutputNext

LEMMA BaseInvariant == OutputSpec => []Base
BY InitBase, NextBase, PTL DEF OutputSpec

\* Every variable keeps its type: whatever is written, stopped, blocked or freed,
\* the buffer never holds less than nothing and every condition is one of the
\* three that muchpending leaves.
THEOREM OutputTypeCorrect == OutputSpec => []OutputTypeOK
BY BaseInvariant, PTL DEF Base

\* FreeDisplay leaves no condition of a window's read event in the display's memory.
THEOREM CondsCorrect == OutputSpec => []NoDanglingCond
BY BaseInvariant, PTL DEF Base

\* What the run checks of the conditions and the types, in one.
THEOREM ConditionsCorrect == OutputSpec => []ConditionsSound
BY OutputTypeCorrect, CondsCorrect, PTL DEF ConditionsSound

\* A display that is blocked owes output, so that disp_writeev_fn will come to the
\* write that empties the buffer and draws it again.
THEOREM BlockedCorrect == OutputSpec => []BlockedComesBack
<1>1. Base => BlockedComesBack
  BY DEF Base, OutputTypeOK, Blocked, Pending, BlockedComesBack
<1>. QED BY <1>1, BaseInvariant, PTL

-----------------------------------------------------------------------------
(* The counts.  They are exact as long as no display has both autonuke and *)
(* a bell that is shown as a message.                                      *)

Counts == \A d \in Displays : Exact(disp[d])

BellsOnly == \A d \in Displays : disp[d].status = "bell" => d \in Bells

\* While MakeStatus waits in Flush the counts are not saved yet.
MessageBegun ==
  /\ flushing.for = "none" => flushing = NotFlushing
  /\ flushing.for = "message" =>
       \A d \in Displays :
         flushing.d = d => disp[d].saved.free < 0 /\ disp[d].status # "off"

CInv == Counts /\ BellsOnly /\ MessageBegun

LEMMA InitCounts == OutputInit => CInv
BY MakeDisplaySound DEF OutputInit, CInv, Counts, BellsOnly, MessageBegun, NotFlushing

LEMMA UpdateCounts ==
  ASSUME Base, CInv, NEW d \in Displays, NEW b \in DisplayFields,
         Exact(b), b.status = "bell" => d \in Bells, Update(d, b)
  PROVE  Counts' /\ BellsOnly'
BY DEF Base, OutputTypeOK, CInv, Counts, BellsOnly, Update

LEMMA IdleCounts ==
  ASSUME Base, CInv, NEW d \in Displays, NEW b \in DisplayFields,
         Exact(b), b.status = "bell" => d \in Bells, Update(d, b), Idle, UNCHANGED flushing
  PROVE  CInv'
<1>1. Counts' /\ BellsOnly'
  BY UpdateCounts
<1>2. MessageBegun'
  BY DEF Idle, MessageBegun, NotFlushing
<1>. QED BY <1>1, <1>2 DEF CInv

LEMMA HereCounts ==
  ASSUME Base, CInv, NEW d \in Displays
  PROVE  /\ disp[d] \in DisplayFields /\ Exact(disp[d])
         /\ disp[d].status = "bell" => d \in Bells
BY HereOK DEF CInv, Counts, BellsOnly

LEMMA StopReadingCounts ==
  ASSUME Base, CInv, NEW r \in Readers, StopReading(r)
  PROVE  CInv'
<1>1. PICK d \in Showing(Win[r]), ds \in SUBSET {e \in Showing(Win[r]) : ~Stops(disp[e])} :
        StopFor(r, d, Passed(ds))
  BY DEF StopReading
<1>. DEFINE p == Passed(ds)
            q == [p[d] EXCEPT !.timer = TRUE]
<1>2. d \in Displays
  BY <1>1 DEF Showing, Base, OutputTypeOK
<1>3. /\ p \in [Displays -> DisplayFields]
      /\ \A e \in Displays : SameCounts(disp[e], p[e]) /\ Pending(p[e])
  BY PassedSound DEF Base, OutputTypeOK, DispOK
<1>4. disp' = p \/ disp' = [p EXCEPT ![d] = q]
  BY <1>1 DEF StopFor
<1>. HIDE DEF p
<1>5. q \in DisplayFields /\ SameCounts(p[d], q)
  BY <1>2, <1>3 DEF DisplayFields, SameCounts
<1>. HIDE DEF q
<1>6. ASSUME NEW e \in Displays
      PROVE  SameCounts(disp[e], disp'[e])
  BY <1>2, <1>3, <1>4, <1>5 DEF SameCounts
<1>7. ASSUME NEW e \in Displays
      PROVE  Exact(disp'[e]) /\ (disp'[e].status = "bell" => e \in Bells)
  <2>1. SameCounts(disp[e], disp'[e])
    BY <1>6
  <2>2. Exact(disp[e]) /\ (disp[e].status = "bell" => e \in Bells)
    BY HereCounts
  <2>3. Exact(disp'[e])
    BY <2>1, <2>2, SameExact
  <2>. QED BY <2>1, <2>2, <2>3 DEF SameCounts
<1>8. MessageBegun'
  BY DEF StopReading, Idle, MessageBegun, NotFlushing
<1>. QED BY <1>7, <1>8 DEF CInv, Counts, BellsOnly

\* muchpending lets a window through only to displays without a message of their
\* own; a bell may be there, and then the display has no autonuke.
LEMMA ReadWindowCounts ==
  ASSUME AutoNuke \intersect Bells = {}, Base, CInv, NEW r \in Readers, ReadWindow(r)
  PROVE  CInv'
<1>. DEFINE ds == Showing(Win[r])
            p == Passed(ds)
<1>1. PICK n \in Chunk, clear \in BOOLEAN :
        disp' = [d \in Displays |->
                   IF d \notin ds \/ p[d].blocked THEN p[d]
                   ELSE AddChars(IF clear THEN Clear(d, p[d]) ELSE p[d], n)]
  BY DEF ReadWindow
<1>2. n \in Nat \ {0}
  BY OutputAssumption
<1>3. /\ p \in [Displays -> DisplayFields]
      /\ \A e \in Displays : SameCounts(disp[e], p[e]) /\ Pending(p[e])
  BY PassedSound DEF Base, OutputTypeOK, DispOK
<1>4. \A d \in ds : disp[d].status # "win"
  BY DEF ReadWindow, Stops
<1>. HIDE DEF p, ds
<1>5. ASSUME NEW d \in Displays
      PROVE  Exact(disp'[d]) /\ (disp'[d].status = "bell" => d \in Bells)
  <2>1. /\ disp[d] \in DisplayFields /\ Exact(disp[d])
        /\ disp[d].status = "bell" => d \in Bells
    BY HereCounts
  <2>2. p[d] \in DisplayFields /\ SameCounts(disp[d], p[d])
    BY <1>3
  <2>3. Exact(p[d])
    BY <2>1, <2>2, SameExact
  <2>4. p[d].status = disp[d].status /\ p[d].status \in Statuses /\ p[d].saved.free \in Int
    BY <2>2, Fields DEF SameCounts
  <2>5. CASE d \notin ds \/ p[d].blocked
    BY <1>1, <2>1, <2>3, <2>4, <2>5
  <2>6. CASE ~(d \notin ds \/ p[d].blocked)
    <3>. DEFINE c == AddChars(IF clear THEN Clear(d, p[d]) ELSE p[d], n)
    <3>1. disp'[d] = c
      BY <1>1, <2>6
    <3>2. p[d].status \in {"off", "bell"}
      BY <1>4, <2>4, <2>6 DEF Statuses
    <3>3. p[d].saved.free < 0 \/ d \notin AutoNuke
      BY <2>1, <2>3, <2>4, <3>2 DEF Exact
    <3>4. /\ c.status \in {p[d].status, "off"}
          /\ Exact(p[d]) /\ (p[d].saved.free < 0 \/ d \notin AutoNuke) => Exact(c)
      BY <1>2, <2>2, ReadOne
    <3>. HIDE DEF c
    <3>. QED BY <2>1, <2>3, <2>4, <3>1, <3>3, <3>4
  <2>. QED BY <2>5, <2>6
<1>6. MessageBegun'
  BY DEF ReadWindow, Idle, MessageBegun, NotFlushing
<1>. QED BY <1>5, <1>6 DEF CInv, Counts, BellsOnly

LEMMA AttachCounts ==
  ASSUME Base, CInv, NEW d \in Displays, Attach(d)
  PROVE  CInv'
<1>1. /\ Redraw(d, MakeDisplay) \in DisplayFields /\ Exact(Redraw(d, MakeDisplay))
      /\ Redraw(d, MakeDisplay).status = "off"
  BY MakeDisplaySound, RedrawSound
<1>2. Update(d, Redraw(d, MakeDisplay)) /\ Idle /\ UNCHANGED flushing
  BY DEF Attach
<1>. QED BY <1>1, <1>2, IdleCounts

LEMMA DetachCounts ==
  ASSUME Base, CInv, NEW d \in Displays, Detach(d)
  PROVE  CInv'
<1>. DEFINE r == RemoveStatus(disp[d])
            b == Put(r, EraseLen)
<1>0. EraseLen \in Nat
  BY OutputAssumption
<1>1. disp[d] \in DisplayFields /\ Exact(disp[d])
  BY HereCounts
<1>2. r \in DisplayFields /\ r.status = "off" /\ Exact(r) /\ r.saved.free < 0
  BY <1>1, RemoveStatusSound
<1>3. Update(d, b)
  BY DEF Detach
<1>. HIDE DEF r
<1>4. b \in DisplayFields /\ b.status = "off" /\ Exact(b)
  BY <1>0, <1>2, PutSound
<1>. HIDE DEF b
<1>5. Counts' /\ BellsOnly'
  BY <1>3, <1>4, UpdateCounts
<1>6. flushing' = [d |-> d, for |-> "free"]
  BY DEF Detach
<1>7. MessageBegun'
  BY <1>6 DEF MessageBegun
<1>. QED BY <1>5, <1>7 DEF CInv

LEMMA MessageCounts ==
  ASSUME Base, CInv, NEW d \in Displays, Message(d) \/ Bell(d)
  PROVE  CInv'
<1>1. PICK kind \in {"win", "bell"} :
        Update(d, StartStatus(disp[d], kind)) /\ (kind = "bell" => d \in Bells)
  BY DEF Message, Bell
<1>. DEFINE b == StartStatus(disp[d], kind)
<1>2. disp[d] \in DisplayFields /\ Exact(disp[d])
  BY HereCounts
<1>3. b \in DisplayFields /\ Exact(b) /\ b.status = kind /\ b.saved.free < 0
  BY <1>2, StartStatusSound
<1>4. Update(d, b)
  BY <1>1
<1>. HIDE DEF b
<1>5. Counts' /\ BellsOnly'
  BY <1>1, <1>3, <1>4, UpdateCounts
<1>6. flushing' = [d |-> d, for |-> "message"]
  BY DEF Message, Bell
<1>7. disp'[d] = b
  BY <1>4 DEF Update, Base, OutputTypeOK
<1>8. MessageBegun'
  BY <1>3, <1>6, <1>7 DEF MessageBegun
<1>. QED BY <1>5, <1>8 DEF CInv

LEMMA EndFlushCounts ==
  ASSUME Base, CInv, NEW d \in Displays, EndFlush(d)
  PROVE  CInv'
<1>1. flushing' = NotFlushing /\ flushing.d = d
  BY DEF EndFlush
<1>2. MessageBegun'
  BY <1>1 DEF MessageBegun, NotFlushing
<1>3. flushing.for \in {"none", "free", "message"} /\ flushing.for # "none"
  BY <1>1, OutputAssumption DEF Base, OutputTypeOK, CInv, MessageBegun, NotFlushing
<1>4. CASE flushing.for = "free"
  <2>1. Update(d, MakeDisplay)
    BY <1>4 DEF EndFlush, FreeDisplay
  <2>. QED BY <1>2, <2>1, MakeDisplaySound, UpdateCounts DEF CInv
<1>5. CASE flushing.for = "message"
  <2>. DEFINE b == EndStatus(disp[d])
  <2>1. Update(d, b)
    BY <1>5 DEF EndFlush
  <2>2. /\ disp[d] \in DisplayFields /\ Exact(disp[d])
        /\ disp[d].status = "bell" => d \in Bells
    BY HereCounts
  <2>3. disp[d].saved.free < 0 /\ disp[d].status # "off"
    BY <1>1, <1>5 DEF CInv, MessageBegun
  <2>4. b \in DisplayFields /\ b.status = disp[d].status /\ Exact(b)
    BY <2>2, <2>3, EndStatusSound
  <2>. HIDE DEF b
  <2>. QED BY <1>2, <2>1, <2>2, <2>4, UpdateCounts DEF CInv
<1>. QED BY <1>3, <1>4, <1>5

LEMMA StatusTimeoutCounts ==
  ASSUME Base, CInv, NEW d \in Displays, StatusTimeout(d)
  PROVE  CInv'
<1>. DEFINE b == RemoveStatus(disp[d])
<1>1. disp[d] \in DisplayFields /\ Exact(disp[d])
  BY HereCounts
<1>2. b \in DisplayFields /\ Exact(b) /\ b.status = "off"
  BY <1>1, RemoveStatusSound
<1>3. Update(d, b) /\ Idle /\ UNCHANGED flushing
  BY DEF StatusTimeout, Only
<1>. HIDE DEF b
<1>. QED BY <1>2, <1>3, IdleCounts

LEMMA KeyCounts ==
  ASSUME Base, CInv, NEW d \in Displays, Key(d)
  PROVE  CInv'
<1>1. PICK w \in shows[d] :
        disp' = [e \in Displays |-> IF e \in Showing(w) THEN RemoveStatus(disp[e]) ELSE disp[e]]
  BY DEF Key
<1>2. ASSUME NEW e \in Displays
      PROVE  Exact(disp'[e]) /\ (disp'[e].status = "bell" => e \in Bells)
  <2>1. /\ disp[e] \in DisplayFields /\ Exact(disp[e])
        /\ disp[e].status = "bell" => e \in Bells
    BY HereCounts
  <2>2. Exact(RemoveStatus(disp[e])) /\ RemoveStatus(disp[e]).status = "off"
    BY <2>1, RemoveStatusSound
  <2>3. disp'[e] = RemoveStatus(disp[e]) \/ disp'[e] = disp[e]
    BY <1>1
  <2>. QED BY <2>1, <2>2, <2>3
<1>3. MessageBegun'
  BY DEF Key, Idle, MessageBegun, NotFlushing
<1>. QED BY <1>2, <1>3 DEF CInv, Counts, BellsOnly

LEMMA ClearCommandCounts ==
  ASSUME Base, CInv, NEW d \in Displays, ClearCommand(d)
  PROVE  CInv'
<1>1. PICK w \in shows[d] :
        \E n \in Chunk, clear \in BOOLEAN :
          disp' = [e \in Displays |->
                     LET b == RemoveStatus(disp[e])
                     IN  IF e \notin Showing(w) THEN disp[e]
                         ELSE IF b.blocked THEN b
                         ELSE AddChars(IF clear THEN Clear(e, b) ELSE b, n)]
  BY DEF ClearCommand
<1>. DEFINE ds == Showing(w)
<1>2. PICK n \in Chunk, clear \in BOOLEAN :
        disp' = [e \in Displays |->
                   LET b == RemoveStatus(disp[e])
                   IN  IF e \notin ds THEN disp[e]
                       ELSE IF b.blocked THEN b
                       ELSE AddChars(IF clear THEN Clear(e, b) ELSE b, n)]
  BY <1>1
<1>. HIDE DEF ds
<1>3. n \in Nat \ {0}
  BY OutputAssumption
<1>. DEFINE c(e) == LET b == RemoveStatus(disp[e])
                    IN  IF b.blocked THEN b ELSE AddChars(IF clear THEN Clear(e, b) ELSE b, n)
<1>4. ASSUME NEW e \in Displays
      PROVE  Exact(disp'[e]) /\ (disp'[e].status = "bell" => e \in Bells)
  <2>1. /\ disp[e] \in DisplayFields /\ Exact(disp[e]) /\ Pending(disp[e])
        /\ disp[e].status = "bell" => e \in Bells
    BY HereCounts, HereOK
  <2>2. Exact(c(e)) /\ c(e).status = "off"
    BY <1>3, <2>1, ClearOne
  <2>3. disp'[e] = c(e) \/ disp'[e] = disp[e]
    BY <1>2
  <2>. HIDE DEF c
  <2>. QED BY <2>1, <2>2, <2>3
<1>5. MessageBegun'
  BY DEF ClearCommand, Idle, MessageBegun, NotFlushing
<1>. QED BY <1>4, <1>5 DEF CInv, Counts, BellsOnly

LEMMA ShowCounts ==
  ASSUME Base, CInv, NEW d \in Displays, Show(d)
  PROVE  CInv'
<1>. DEFINE b == Redraw(d, disp[d])
<1>1. disp[d] \in DisplayFields /\ Exact(disp[d])
  BY HereCounts
<1>2. b \in DisplayFields /\ Exact(b) /\ b.status = "off"
  BY <1>1, RedrawSound
<1>3. Update(d, b) /\ Idle /\ UNCHANGED flushing
  BY DEF Show
<1>. HIDE DEF b
<1>. QED BY <1>2, <1>3, IdleCounts

LEMMA WriteCounts ==
  ASSUME Base, CInv, NEW d \in Displays, NEW n \in 0 .. OUTPUT_BLOCK_SIZE, Write(d, n)
  PROVE  CInv'
<1>. DEFINE b == Written(d, disp[d], n)
<1>1. /\ disp[d] \in DisplayFields /\ Exact(disp[d])
      /\ disp[d].status = "bell" => d \in Bells
  BY HereCounts
<1>2. n \in Nat /\ n <= disp[d].used /\ CanWrite(disp[d])
  BY OutputAssumption DEF Write
<1>3. b \in DisplayFields /\ Exact(b) /\ b.status \in {disp[d].status, "off"}
  BY <1>1, <1>2, WrittenSound
<1>4. Update(d, b) /\ Idle /\ UNCHANGED flushing
  BY DEF Write, Only
<1>. HIDE DEF b
<1>. QED BY <1>1, <1>3, <1>4, IdleCounts

\* The actions that change none of the counts.
LEMMA SettingCounts ==
  ASSUME Base, CInv, NEW d \in Displays,
         WriteAgain(d) \/ Nonblock(d) \/ Obuflimit(d) \/ BlockedTimeout(d)
  PROVE  CInv'
<1>1. PICK b \in DisplayFields : SameCounts(disp[d], b) /\ Update(d, b)
  BY SettingStep, BlockedTimeoutSound DEF Only
<1>2. Exact(disp[d]) /\ (disp[d].status = "bell" => d \in Bells)
  BY HereCounts
<1>3. Exact(b) /\ b.status = disp[d].status
  BY <1>1, <1>2, SameExact DEF SameCounts
<1>4. Idle /\ UNCHANGED flushing
  BY DEF WriteAgain, Nonblock, Obuflimit, BlockedTimeout, Only
<1>. QED BY <1>1, <1>2, <1>3, <1>4, IdleCounts

LEMMA StillCounts ==
  ASSUME CInv, UNCHANGED <<disp, flushing>>
  PROVE  CInv'
BY DEF CInv, Counts, BellsOnly, MessageBegun

LEMMA NextCounts ==
  ASSUME AutoNuke \intersect Bells = {}
  PROVE  Base /\ CInv /\ [OutputNext]_outputVars => CInv'
<1>. SUFFICES ASSUME Base, CInv, [OutputNext]_outputVars PROVE CInv'
  OBVIOUS
<1>1. ASSUME NEW r \in Readers, StopReading(r) \/ ReadWindow(r)
      PROVE  CInv'
  BY <1>1, StopReadingCounts, ReadWindowCounts
<1>2. ASSUME NEW d \in Displays, Attach(d) \/ Detach(d) \/ Message(d) \/ Bell(d) \/ EndFlush(d)
      PROVE  CInv'
  BY <1>2, AttachCounts, DetachCounts, MessageCounts, EndFlushCounts
<1>3. ASSUME NEW d \in Displays, StatusTimeout(d) \/ Key(d) \/ Show(d) \/ ClearCommand(d)
      PROVE  CInv'
  BY <1>3, StatusTimeoutCounts, KeyCounts, ShowCounts, ClearCommandCounts
<1>4. ASSUME NEW d \in Displays, NEW n \in 0 .. OUTPUT_BLOCK_SIZE, Write(d, n)
      PROVE  CInv'
  BY <1>4, WriteCounts
<1>5. ASSUME NEW d \in Displays, WriteAgain(d) \/ BlockedTimeout(d) \/ Nonblock(d) \/ Obuflimit(d)
      PROVE  CInv'
  BY <1>5, SettingCounts
<1>6. ASSUME NEW d \in Displays, Stop(d) \/ Go(d)
      PROVE  CInv'
  BY <1>6, StillCounts DEF Stop, Go
<1>7. CASE UNCHANGED outputVars
  BY <1>7, StillCounts DEF outputVars
<1>. QED BY <1>1, <1>2, <1>3, <1>4, <1>5, <1>6, <1>7 DEF OutputNext

LEMMA CountsInvariant ==
  ASSUME AutoNuke \intersect Bells = {}
  PROVE  OutputSpec => []CInv
<1>1. Base /\ CInv /\ [OutputNext]_outputVars => CInv'
  BY NextCounts
<1>. QED BY <1>1, InitCounts, BaseInvariant, PTL DEF OutputSpec

\* AddChar, Flush, MakeStatus, RemoveStatus and disp_writeev_fn keep the counts of
\* obuf exact on displays that do not have both autonuke and a bell shown as a
\* message (configuration MCOutputNuke shows what happens with both).
THEOREM CountsCorrect ==
  ASSUME AutoNuke \intersect Bells = {}
  PROVE  OutputSpec => []BufferExact
<1>1. Base /\ CInv => BufferExact
  <2>. SUFFICES ASSUME Base, CInv, NEW d \in live
                PROVE  LET b == disp[d]
                       IN  IF b.saved.free >= 0
                           THEN b.len = 0 /\ b.free = 0 /\ b.used + b.saved.free = b.saved.len
                           ELSE b.used + b.free = b.len /\ b.free > 0
    BY DEF BufferExact
  <2>1. d \in Displays
    BY DEF Base, OutputTypeOK
  <2>2. disp[d] \in DisplayFields /\ Exact(disp[d])
    BY <2>1, HereCounts
  <2>3. disp[d].saved.free \in Int
    BY <2>2, Fields
  <2>. QED BY <2>2, <2>3 DEF Exact
<1>. QED BY <1>1, BaseInvariant, CountsInvariant, PTL

\* Under the same condition nothing is put behind the end of the allocated block:
\* Resize_obuf is always called in time.
THEOREM BlockCorrect ==
  ASSUME AutoNuke \intersect Bells = {}
  PROVE  OutputSpec => []NoOverrun
<1>1. Base /\ CInv => NoOverrun
  <2>. SUFFICES ASSUME Base, CInv, NEW d \in live
                PROVE  disp[d].used <= disp[d].alloc
    BY DEF NoOverrun
  <2>1. d \in Displays
    BY DEF Base, OutputTypeOK
  <2>2. disp[d] \in DisplayFields /\ Exact(disp[d])
    BY <2>1, HereCounts
  <2>3. /\ disp[d].saved.free \in Int /\ disp[d].used \in Nat /\ disp[d].free \in Int
        /\ disp[d].alloc \in Nat /\ disp[d].len \in Nat /\ disp[d].saved.len \in Nat
    BY <2>2, Fields
  <2>. QED BY <2>2, <2>3 DEF Exact
<1>. QED BY <1>1, BaseInvariant, CountsInvariant, PTL

\* Under the same condition what removes a message stays in obuf, whole, as long as
\* the message is shown.
THEOREM RemovalCorrect ==
  ASSUME AutoNuke \intersect Bells = {}
  PROVE  OutputSpec => []RemovalHeld
<1>1. Base /\ CInv => RemovalHeld
  BY DEF Base, OutputTypeOK, CInv, Counts, Exact, RemovalHeld
<1>. QED BY <1>1, BaseInvariant, CountsInvariant, PTL

\* What the run checks of obuf, in one.
THEOREM BufferCorrect ==
  ASSUME AutoNuke \intersect Bells = {}
  PROVE  OutputSpec => []BufferSafe
BY BlockCorrect, RemovalCorrect, PTL DEF BufferSafe
=============================================================================
