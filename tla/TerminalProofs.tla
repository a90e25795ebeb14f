--------------------------- MODULE TerminalProofs ---------------------------
(* Proofs about the emulated terminal, for any characters, any size of the  *)
(* table of combined characters, any sizes of the window, and any output:   *)
(* the table first (Combining), then rows and the functions that write      *)
(* them, the cursor, the parser, and the resizing of the text (Lines).      *)
EXTENDS Terminal, ListProofs, FiniteSetTheorems

Entries == C!Entries
Roots == C!Roots
Pool == Singles \o Doubles

-----------------------------------------------------------------------------
(* What is true of the table between two marks.                             *)

Shape(u) ==
  /\ u = [cc |-> u.cc, lru |-> u.lru]
  /\ u.cc = [i \in Entries \union Roots |-> u.cc[i]]
  /\ u.lru \in [Roots -> Seq(Entries)] /\ \A r \in Roots : IsInjective(u.lru[r])

\* What an entry is made of is in use.
Made(u) == \A i \in Entries : u.cc[i] # C!Free => C!InUse(u, u.cc[i][1])

\* The entries for single characters are in their list.
SinglesListed(u) == \A i \in ToSet(Singles) :
  /\ u.cc[i] # C!Free => i \in ToSet(u.lru["single"])
  /\ i \notin ToSet(u.lru["double"])

Table(u) == /\ Shape(u) /\ Made(u) /\ SinglesListed(u)
            /\ C!Grounded(u) /\ C!HeadKept(u, "single")

\* The assumption, in the names of this module.
LEMMA Constants ==
  /\ Entries = ToSet(Singles) \union ToSet(Doubles) /\ Roots = {"single", "double"}
  /\ Singles \in Seq(Entries) /\ Singles # <<>> /\ Doubles \in Seq(Entries)
  /\ ToSet(Singles) \intersect ToSet(Doubles) = {}
  /\ Entries \intersect Wide = {} /\ Entries \intersect Roots = {} /\ Unknown \notin Entries
BY TableAssumption DEF C!CombiningAssumption, Entries, Roots, C!Entries, C!Roots, ToSet, C!ToSet

\* The pool has every entry.
LEMMA PoolIs ==
  /\ Pool \in Seq(Entries) /\ Len(Pool) \in Nat /\ DOMAIN Pool = 1 .. Len(Pool)
  /\ \A i \in Entries : \E k \in 1 .. Len(Pool) : Pool[k] = i
<1>1. Singles \in Seq(Entries) /\ Doubles \in Seq(Entries)
  BY Constants
<1>2. /\ Len(Singles) \in Nat /\ DOMAIN Singles = 1 .. Len(Singles)
      /\ Len(Doubles) \in Nat /\ DOMAIN Doubles = 1 .. Len(Doubles)
  BY <1>1, LenProperties
<1>3. /\ Pool \in Seq(Entries) /\ Len(Pool) = Len(Singles) + Len(Doubles)
      /\ \A k \in 1 .. Len(Singles) + Len(Doubles) :
           Pool[k] = IF k <= Len(Singles) THEN Singles[k] ELSE Doubles[k - Len(Singles)]
  BY <1>1, ConcatProperties DEF Pool
<1>4. ASSUME NEW i \in Entries PROVE \E k \in 1 .. Len(Pool) : Pool[k] = i
  <2>1. CASE i \in ToSet(Singles)
    <3>1. PICK k \in 1 .. Len(Singles) : Singles[k] = i
      BY <1>2, <2>1 DEF ToSet
    <3>2. k \in 1 .. Len(Pool) /\ Pool[k] = i
      BY <1>2, <1>3, <3>1
    <3>3. QED
      BY <3>2
  <2>2. CASE i \in ToSet(Doubles)
    <3>1. PICK k \in 1 .. Len(Doubles) : Doubles[k] = i
      BY <1>2, <2>2 DEF ToSet
    <3>2. Len(Singles) + k \in 1 .. Len(Pool) /\ Pool[Len(Singles) + k] = i
      BY <1>2, <1>3, <3>1
    <3>3. QED
      BY <3>2
  <2>3. QED
    BY <2>1, <2>2, Constants
<1>5. QED
  BY <1>2, <1>3, <1>4, LenProperties

-----------------------------------------------------------------------------
(* Down the table.                                                          *)

\* c goes from an entry to what it combines, and stays at a character.
Descends(u, c, n) ==
  \A k \in 1 .. n : c[k] = IF c[k - 1] \in Entries THEN u.cc[c[k - 1]][1] ELSE c[k - 1]

\* As long as c is at an entry it has been, and the entries are in use.
LEMMA DescentUsed ==
  ASSUME NEW u, Made(u), NEW n \in Nat, NEW c, Descends(u, c, n), C!InUse(u, c[0]),
         NEW k \in 0 .. n, c[k] \in Entries
  PROVE  u.cc[c[k]] # C!Free /\ \A j \in 0 .. k : c[j] \in Entries
<1> DEFINE T == {l \in 0 .. n : c[l] \in Entries =>
                   u.cc[c[l]] # C!Free /\ \A j \in 0 .. l : c[j] \in Entries}
<1>1. 0 \in T
  BY DEF C!InUse, C!IsEntry, Entries
<1>2. ASSUME NEW l \in 0 .. n - 1, l \in T PROVE l + 1 \in T
  <2>1. l + 1 \in 1 .. n /\ (l + 1) - 1 = l /\ l + 1 \in 0 .. n
    OBVIOUS
  <2>2. c[l + 1] = IF c[l] \in Entries THEN u.cc[c[l]][1] ELSE c[l]
    BY <2>1 DEF Descends
  <2>3. ASSUME c[l + 1] \in Entries
        PROVE  u.cc[c[l + 1]] # C!Free /\ \A j \in 0 .. l + 1 : c[j] \in Entries
    <3>1. c[l] \in Entries /\ c[l + 1] = u.cc[c[l]][1]
      BY <2>2, <2>3
    <3>2. u.cc[c[l]] # C!Free /\ \A j \in 0 .. l : c[j] \in Entries
      BY <1>2, <3>1
    <3>3. u.cc[c[l + 1]] # C!Free
      BY <2>3, <3>1, <3>2 DEF Made, C!InUse, C!IsEntry, Entries
    <3>4. \A j \in 0 .. l + 1 : j \in 0 .. l \/ j = l + 1
      OBVIOUS
    <3>5. QED
      BY <2>3, <3>2, <3>3, <3>4
  <2>4. QED
    BY <2>1, <2>3
<1>3. ASSUME NEW l \in 0 .. n PROVE l \in T
  <2> HIDE DEF T
  <2>1. \A m \in 0 .. l - 1 : m \in T => m + 1 \in T
    BY <1>2
  <2>2. l \in Nat
    OBVIOUS
  <2>3. QED
    BY <1>1, <2>1, <2>2, UpTo
<1>4. QED
  BY <1>3

\* It is never at an entry twice.
LEMMA DescentOnce ==
  ASSUME NEW u, Made(u), C!Grounded(u), NEW n \in Nat, NEW c, Descends(u, c, n), C!InUse(u, c[0]),
         NEW a \in 0 .. n, NEW b \in 0 .. n, a < b, c[b] \in Entries
  PROVE  c[a] # c[b]
<1> SUFFICES ASSUME c[a] = c[b] PROVE FALSE
  OBVIOUS
<1> DEFINE S == {c[k] : k \in a .. b - 1}
<1>1. \A k \in 0 .. b : c[k] \in Entries
  BY DescentUsed
<1>2. \A k \in a .. b - 1 : k \in 0 .. n /\ k \in 0 .. b /\ k + 1 \in 1 .. n /\ (k + 1) - 1 = k
  OBVIOUS
<1>3. S \in SUBSET Entries /\ S # {}
  <2>1. a \in a .. b - 1
    OBVIOUS
  <2>2. QED
    BY <1>1, <1>2, <2>1
<1>4. ASSUME NEW x \in S PROVE u.cc[x] # C!Free /\ u.cc[x][1] \in S
  <2>1. PICK k \in a .. b - 1 : x = c[k]
    OBVIOUS
  <2>2. c[k] \in Entries /\ c[k + 1] = u.cc[c[k]][1]
    BY <1>1, <1>2 DEF Descends
  <2>3. u.cc[x] # C!Free
    BY <1>2, <2>1, <2>2, DescentUsed
  <2>4. CASE k + 1 = b
    <3>1. a \in a .. b - 1
      OBVIOUS
    <3>2. QED
      BY <2>1, <2>2, <2>3, <2>4, <3>1
  <2>5. CASE k + 1 # b
    <3>1. k + 1 \in a .. b - 1
      BY <2>5
    <3>2. QED
      BY <2>1, <2>2, <2>3, <3>1
  <2>6. QED
    BY <2>4, <2>5
<1> HIDE DEF S
<1>5. QED
  BY <1>3, <1>4 DEF C!Grounded, Entries

\* It comes to a character before it has been at every entry.
LEMMA DescentEnds ==
  ASSUME NEW u, Made(u), C!Grounded(u), NEW c, Descends(u, c, Len(Pool)), C!InUse(u, c[0])
  PROVE  c[Len(Pool)] \notin Entries
<1> DEFINE n == Len(Pool)
<1> SUFFICES ASSUME c[n] \in Entries PROVE FALSE
  OBVIOUS
<1>1. n \in Nat
  BY PoolIs
<1> DEFINE f == [k \in 0 .. n |-> CHOOSE p \in 1 .. n : Pool[p] = c[k]]
<1>2. \A k \in 0 .. n : c[k] \in Entries
  BY <1>1, DescentUsed
<1>3. \A k \in 0 .. n : f[k] \in 1 .. n /\ Pool[f[k]] = c[k]
  BY <1>2, PoolIs
<1> HIDE DEF f, n
<1>4. f \in [0 .. n -> 1 .. n]
  BY <1>3 DEF f
<1>5. /\ IsFiniteSet(0 .. n) /\ Cardinality(0 .. n) = n + 1
      /\ IsFiniteSet(1 .. n) /\ Cardinality(1 .. n) = n
  <2>1. 0 \in Int /\ 1 \in Int /\ n \in Int /\ (n - 0) + 1 = n + 1 /\ (n - 1) + 1 = n
    BY <1>1
  <2>2. QED
    BY <1>1, <2>1, FS_Interval, SMTT(30)
<1>6. PICK x, y \in 0 .. n : x # y /\ f[x] = f[y]
  <2>1. Cardinality(1 .. n) < Cardinality(0 .. n)
    BY <1>1, <1>5
  <2>2. QED
    BY <1>4, <1>5, <2>1, FS_PigeonHole
<1>7. c[x] = c[y]
  BY <1>3, <1>6
<1>8. x < y \/ y < x
  BY <1>1, <1>6
<1>9. Descends(u, c, n)
  BY DEF n
<1>10. QED
  BY <1>1, <1>2, <1>7, <1>8, <1>9, DescentOnce

-----------------------------------------------------------------------------
(* Up the list.                                                             *)

Brings(par, v, k) == C!Bring(v, k)
B == INSTANCE ListProofs WITH op <- Brings

LEMMA ToFrontIs ==
  ASSUME NEW list, NEW i
  PROVE  C!ToFront(list, i) = <<i>> \o RemoveFirst(list, i)
<1>1. C!RemoveFirst(list, i) = RemoveFirst(list, i)
  BY DEF C!RemoveFirst, RemoveFirst, C!SelectInSeq, SelectInSeq, C!RemoveAt, RemoveAt, C!Min, Min
<1>2. QED
  BY <1>1 DEF C!ToFront

LEMMA RelinkIs ==
  ASSUME NEW u, Shape(u), NEW root \in Roots, NEW i \in Entries
  PROVE  /\ C!Relink(u, root, i) = [cc |-> u.cc, lru |-> C!Relink(u, root, i).lru]
         /\ C!Relink(u, root, i).lru = [r \in Roots |->
              IF r = root THEN <<i>> \o RemoveFirst(u.lru[r], i) ELSE RemoveFirst(u.lru[r], i)]
<1>1. \A list : C!RemoveFirst(list, i) = RemoveFirst(list, i)
  BY DEF C!RemoveFirst, RemoveFirst, C!SelectInSeq, SelectInSeq, C!RemoveAt, RemoveAt, C!Min, Min
<1>2. u = [cc |-> u.cc, lru |-> u.lru]
  BY DEF Shape
<1> DEFINE new == [r \in Roots |->
             IF r = root THEN <<i>> \o RemoveFirst(u.lru[r], i) ELSE RemoveFirst(u.lru[r], i)]
<1>3. \A r \in Roots : (IF r = root THEN C!ToFront(u.lru[r], i) ELSE C!RemoveFirst(u.lru[r], i)) = new[r]
  BY <1>1, ToFrontIs
<1>4. [r \in Roots |-> IF r = root THEN C!ToFront(u.lru[r], i) ELSE C!RemoveFirst(u.lru[r], i)] = new
  BY <1>3
<1> HIDE DEF new
<1>5. C!Relink(u, root, i) = [u EXCEPT !.lru = new]
  BY <1>4 DEF C!Relink, Roots
<1>6. C!Relink(u, root, i) = [cc |-> u.cc, lru |-> new]
  BY <1>2, <1>5
<1>7. QED
  BY <1>6 DEF new

\* A list and what it is when i was brought to its front.
LEMMA BroughtList ==
  ASSUME NEW list \in Seq(Entries), IsInjective(list), NEW i \in Entries
  PROVE  LET new == <<i>> \o RemoveFirst(list, i)
         IN /\ new \in Seq(Entries) /\ IsInjective(new)
            /\ ToSet(new) = ToSet(list) \union {i} /\ new[1] = i
            /\ \A m \in 0 .. Len(list) : (\A j \in 1 .. m : list[j] # i) =>
                 /\ m + 1 <= Len(new)
                 /\ \A j \in 1 .. m : new[j + 1] = list[j]
<1> DEFINE rest == RemoveFirst(list, i)
           new == <<i>> \o rest
<1>1. Len(list) \in Nat /\ DOMAIN list = 1 .. Len(list)
  BY LenProperties
<1>2. rest \in Seq(Entries) /\ IsInjective(rest) /\ ToSet(rest) = ToSet(list) \ {i}
  <2>1. CASE i \in ToSet(list)
    BY <2>1, ListRemoved
  <2>2. CASE i \notin ToSet(list)
    <3>1. \A j \in 1 .. Len(list) : list[j] # i
      BY <2>2, <1>1 DEF ToSet
    <3>2. rest = list
      BY <3>1, ListUnchanged
    <3>3. QED
      BY <2>2, <3>2
  <2>3. QED
    BY <2>1, <2>2
<1>3. \A m \in 0 .. Len(list) : (\A j \in 1 .. m : list[j] # i) =>
        m <= Len(rest) /\ \A j \in 1 .. m : rest[j] = list[j]
  BY ListPrefix
<1> HIDE DEF rest
<1>4. /\ Len(rest) \in Nat /\ DOMAIN rest = 1 .. Len(rest)
      /\ new \in Seq(Entries) /\ Len(new) = 1 + Len(rest) /\ new[1] = i
      /\ \A j \in 1 .. Len(rest) : new[j + 1] = rest[j]
  <2>1. <<i>> \in Seq(Entries) /\ Len(<<i>>) = 1 /\ <<i>>[1] = i
    OBVIOUS
  <2>2. Len(rest) \in Nat /\ DOMAIN rest = 1 .. Len(rest)
    BY <1>2, LenProperties
  <2>3. /\ new \in Seq(Entries) /\ Len(new) = 1 + Len(rest)
        /\ \A j \in 1 .. 1 + Len(rest) : new[j] = IF j <= 1 THEN <<i>>[j] ELSE rest[j - 1]
    BY <1>2, <2>1, ConcatProperties
  <2>4. \A j \in 1 .. Len(rest) : j + 1 \in 1 .. 1 + Len(rest) /\ ~(j + 1 <= 1) /\ (j + 1) - 1 = j
    BY <2>2
  <2>5. 1 \in 1 .. 1 + Len(rest)
    BY <2>2
  <2> HIDE DEF new
  <2>6. QED
    BY <2>1, <2>2, <2>3, <2>4, <2>5
<1> HIDE DEF new
<1>5. DOMAIN new = 1 .. 1 + Len(rest)
  BY <1>4, LenProperties
<1>6. \A a \in 1 .. 1 + Len(rest) : a = 1 \/ \E j \in 1 .. Len(rest) : a = j + 1
  <2> TAKE a \in 1 .. 1 + Len(rest)
  <2>1. a = 1 \/ (a - 1 \in 1 .. Len(rest) /\ a = (a - 1) + 1)
    BY <1>4
  <2>2. QED
    BY <2>1
<1>7. \A j \in 1 .. Len(rest) : rest[j] # i
  BY <1>2, <1>4 DEF ToSet
<1>8. IsInjective(new)
  <2>1. ASSUME NEW a \in 1 .. 1 + Len(rest), NEW b \in 1 .. 1 + Len(rest), new[a] = new[b]
        PROVE  a = b
    <3>1. CASE a = 1 \/ b = 1
      BY <1>4, <1>6, <1>7, <2>1, <3>1
    <3>2. CASE a # 1 /\ b # 1
      <4>1. PICK j, k \in 1 .. Len(rest) : a = j + 1 /\ b = k + 1
        BY <1>6, <3>2
      <4>2. rest[j] = rest[k]
        BY <1>4, <2>1, <4>1
      <4>3. j = k
        BY <1>2, <1>4, <4>2 DEF IsInjective
      <4>4. QED
        BY <4>1, <4>3
    <3>3. QED
      BY <3>1, <3>2
  <2>2. QED
    BY <1>5, <2>1 DEF IsInjective
<1>9. ToSet(new) = ToSet(rest) \union {i}
  <2>1. \A x : x \in ToSet(new) <=> \E a \in 1 .. 1 + Len(rest) : new[a] = x
    BY <1>5 DEF ToSet
  <2>2. \A x : x \in ToSet(rest) <=> \E a \in 1 .. Len(rest) : rest[a] = x
    BY <1>4 DEF ToSet
  <2>3. 1 \in 1 .. 1 + Len(rest) /\ \A j \in 1 .. Len(rest) : j + 1 \in 1 .. 1 + Len(rest)
    BY <1>4
  <2>4. QED
    BY <1>4, <1>6, <2>1, <2>2, <2>3
<1>10. ASSUME NEW m \in 0 .. Len(list), \A j \in 1 .. m : list[j] # i
       PROVE  m + 1 <= Len(new) /\ \A j \in 1 .. m : new[j + 1] = list[j]
  <2>1. m <= Len(rest) /\ \A j \in 1 .. m : rest[j] = list[j]
    BY <1>3, <1>10
  <2>2. \A j \in 1 .. m : j \in 1 .. Len(rest)
    BY <1>1, <1>4, <2>1
  <2>3. QED
    BY <1>1, <1>4, <2>1, <2>2
<1>11. ToSet(new) = ToSet(list) \union {i}
  BY <1>2, <1>9
<1>12. QED
  BY <1>4, <1>8, <1>10, <1>11 DEF new, rest

\* comb_tofront is an iteration of Bring.
LEMMA TofrontSteps ==
  ASSUME NEW u, NEW root, NEW i
  PROVE  \E v : /\ v[0] = [table |-> u, root |-> root, i |-> i]
                /\ \A k \in 1 .. Len(Pool) : v[k] = C!Bring(v[k - 1], Pool[k])
                /\ v[Len(Pool)].table = C!comb_tofront(u, root, i)
<1> DEFINE base == [table |-> u, root |-> root, i |-> i]
<1>1. Len(Pool) \in Nat /\ DOMAIN Pool = 1 .. Len(Pool)
  BY PoolIs
<1>2. B!Folded({}, base, Pool).table = C!comb_tofront(u, root, i)
  BY DEF B!Folded, Brings, B!FoldLeft, FoldLeft, C!FoldLeft, B!MapThenFoldSet, MapThenFoldSet,
         C!MapThenFoldSet, B!Max, Max, C!Max, C!comb_tofront, Pool
<1> HIDE DEF base
<1>3. PICK v : /\ v[0] = base
               /\ \A k \in 1 .. Len(Pool) : v[k] = C!Bring(v[k - 1], Pool[k])
               /\ v[Len(Pool)] = B!Folded({}, base, Pool)
  BY <1>1, B!FoldLeftSteps DEF Brings
<1>4. QED
  BY <1>2, <1>3 DEF base

\* After m steps the first m entries of the list are those that were brought,
\* the last one first.
Brought(u, w, root, c, m) ==
  /\ Shape(w) /\ w.cc = u.cc /\ m <= Len(w.lru[root])
  /\ \A j \in 1 .. m : w.lru[root][j] = c[m - j]
  /\ ToSet(w.lru[root]) = ToSet(u.lru[root]) \union {c[k] : k \in 0 .. m - 1}
  /\ \A r \in Roots \ {root} : ToSet(w.lru[r]) = ToSet(u.lru[r]) \ {c[k] : k \in 0 .. m - 1}

LEMMA BringsOne ==
  ASSUME NEW u, NEW w, NEW root \in Roots, NEW c, NEW m \in Nat, Brought(u, w, root, c, m),
         c[m] \in Entries, \A k \in 0 .. m - 1 : c[k] # c[m]
  PROVE  Brought(u, C!Relink(w, root, c[m]), root, c, m + 1)
<1> DEFINE x == c[m]
           r2 == C!Relink(w, root, x)
           old == w.lru[root]
           new == <<x>> \o RemoveFirst(old, x)
           M == {c[k] : k \in 0 .. m - 1}
<1>1. Shape(w) /\ w.cc = u.cc
  BY DEF Brought
<1>2. /\ r2 = [cc |-> w.cc, lru |-> r2.lru]
      /\ r2.lru = [r \in Roots |->
           IF r = root THEN <<x>> \o RemoveFirst(w.lru[r], x) ELSE RemoveFirst(w.lru[r], x)]
  BY <1>1, RelinkIs
<1>3. w.lru \in [Roots -> Seq(Entries)] /\ \A r \in Roots : IsInjective(w.lru[r])
  BY <1>1 DEF Shape
<1>4. m <= Len(old) /\ \A j \in 1 .. m : old[j] = c[m - j]
  BY DEF Brought
<1>5. ToSet(old) = ToSet(u.lru[root]) \union M
  BY DEF Brought
<1>6. \A r \in Roots \ {root} : ToSet(w.lru[r]) = ToSet(u.lru[r]) \ M
  BY DEF Brought
<1>7. {c[k] : k \in 0 .. (m + 1) - 1} = M \union {x}
  <2>1. \A k : k \in 0 .. (m + 1) - 1 <=> k \in 0 .. m - 1 \/ k = m
    OBVIOUS
  <2>2. QED
    BY <2>1
<1>8. Len(old) \in Nat
  BY <1>3, LenProperties
<1>9. /\ new \in Seq(Entries) /\ IsInjective(new) /\ ToSet(new) = ToSet(old) \union {x} /\ new[1] = x
      /\ m + 1 <= Len(new) /\ \A j \in 1 .. m : new[j + 1] = old[j]
  <2>1. m \in 0 .. Len(old) /\ \A j \in 1 .. m : m - j \in 0 .. m - 1
    BY <1>4, <1>8
  <2>2. \A j \in 1 .. m : old[j] # x
    BY <1>4, <2>1
  <2> HIDE DEF old
  <2>3. old \in Seq(Entries) /\ IsInjective(old)
    BY <1>3 DEF old
  <2> HIDE DEF x
  <2>4. x \in Entries
    BY DEF x
  <2>5. QED
    BY <2>1, <2>2, <2>3, <2>4, BroughtList
<1> HIDE DEF r2, x, new, M
<1>10. r2.lru[root] = new
  BY <1>2 DEF new
<1>11. \A r \in Roots \ {root} : r2.lru[r] = RemoveFirst(w.lru[r], x)
  BY <1>2
<1>12. ASSUME NEW r \in Roots \ {root}
       PROVE  /\ r2.lru[r] \in Seq(Entries) /\ IsInjective(r2.lru[r])
              /\ ToSet(r2.lru[r]) = ToSet(w.lru[r]) \ {x}
  <2>1. r \in Roots /\ r2.lru[r] = RemoveFirst(w.lru[r], x)
    BY <1>11
  <2>2. w.lru[r] \in Seq(Entries) /\ IsInjective(w.lru[r])
    BY <1>3, <2>1
  <2>3. CASE x \in ToSet(w.lru[r])
    BY <2>1, <2>2, <2>3, ListRemoved
  <2>4. CASE x \notin ToSet(w.lru[r])
    <3>1. DOMAIN w.lru[r] = 1 .. Len(w.lru[r])
      BY <2>2, LenProperties
    <3>2. \A j \in 1 .. Len(w.lru[r]) : w.lru[r][j] # x
      BY <2>4, <3>1 DEF ToSet
    <3>3. RemoveFirst(w.lru[r], x) = w.lru[r]
      BY <3>2, ListUnchanged
    <3>4. QED
      BY <2>1, <2>2, <2>4, <3>3
  <2>5. QED
    BY <2>3, <2>4
<1>13. r2.cc = u.cc
  BY <1>1, <1>2
<1>14. Shape(r2)
  <2>1. r2 = [cc |-> r2.cc, lru |-> r2.lru]
    BY <1>2
  <2>2. r2.cc = [i \in Entries \union Roots |-> r2.cc[i]]
    BY <1>1, <1>13 DEF Shape
  <2>3. \A r \in Roots : r2.lru[r] \in Seq(Entries) /\ IsInjective(r2.lru[r])
    BY <1>9, <1>10, <1>12
  <2>4. r2.lru \in [Roots -> Seq(Entries)]
    BY <1>2, <2>3
  <2>5. QED
    BY <2>1, <2>2, <2>3, <2>4 DEF Shape
<1>15. ASSUME NEW j \in 1 .. m + 1 PROVE r2.lru[root][j] = c[(m + 1) - j]
  <2>1. CASE j = 1
    <3>1. (m + 1) - 1 = m
      OBVIOUS
    <3>2. QED
      BY <1>9, <1>10, <2>1, <3>1 DEF x
  <2>2. CASE j # 1
    <3>1. j - 1 \in 1 .. m /\ (j - 1) + 1 = j /\ m - (j - 1) = (m + 1) - j
      BY <2>2
    <3>2. new[j] = old[j - 1] /\ old[j - 1] = c[m - (j - 1)]
      BY <1>4, <1>9, <3>1
    <3>3. QED
      BY <1>10, <3>1, <3>2
  <2>3. QED
    BY <2>1, <2>2
<1>16. ToSet(r2.lru[root]) = ToSet(u.lru[root]) \union (M \union {x})
  BY <1>5, <1>9, <1>10
<1>17. \A r \in Roots \ {root} : ToSet(r2.lru[r]) = ToSet(u.lru[r]) \ (M \union {x})
  BY <1>6, <1>12
<1>18. Brought(u, r2, root, c, m + 1)
  BY <1>7, <1>9, <1>10, <1>13, <1>14, <1>15, <1>16, <1>17 DEF Brought
<1>19. QED
  BY <1>18 DEF r2, x

\* M has what its entries are made of, and all of them are in use.
Closed(u, M) == \A x \in M : u.cc[x] # C!Free /\ (u.cc[x][1] \in Entries => u.cc[x][1] \in M)

\* w is table u with the entries of M at the front of the list, i behind the others.
Lifts(u, w, root, i, M) ==
  /\ ToSet(w.lru[root]) = ToSet(u.lru[root]) \union M
  /\ \A r \in Roots \ {root} : ToSet(w.lru[r]) = ToSet(u.lru[r]) \ M
  /\ w.lru[root][Len(w.lru[root])] \in M => w.lru[root][Len(w.lru[root])] = i

\* comb_tofront brings a closed set of entries to the front, i last: i is
\* behind all of them.  It changes nothing else.
LEMMA TofrontIs ==
  ASSUME NEW u, Shape(u), Made(u), C!Grounded(u), NEW root \in Roots, NEW i \in Entries,
         u.cc[i] # C!Free
  PROVE  LET w == C!comb_tofront(u, root, i)
         IN /\ Shape(w) /\ w.cc = u.cc
            /\ \E M \in SUBSET Entries :
                 /\ i \in M /\ Closed(u, M) /\ (u.cc[i][1] \notin Entries => M = {i})
                 /\ Lifts(u, w, root, i, M)
<1> DEFINE n == Len(Pool)
<1>1. n \in Nat
  BY PoolIs
<1>2. PICK v : /\ v[0] = [table |-> u, root |-> root, i |-> i]
               /\ \A k \in 1 .. n : v[k] = C!Bring(v[k - 1], Pool[k])
               /\ v[n].table = C!comb_tofront(u, root, i)
  BY TofrontSteps
<1> DEFINE c == [k \in 0 .. n |-> v[k].i]
           T == {k \in 0 .. n :
             /\ Descends(u, c, k) /\ DOMAIN v[k] = {"i", "root", "table"} /\ v[k].root = root
             /\ \E m \in 0 .. k :
                  /\ Brought(u, v[k].table, root, c, m) /\ c[m] = c[k]
                  /\ \A l \in 0 .. m - 1 : c[l] \in Entries
                  /\ c[k] \in Entries => m = k}
<1> HIDE DEF n
<1>3. \A k \in 0 .. n : c[k] = v[k].i
  OBVIOUS
<1> HIDE DEF c
<1>4. c[0] = i /\ 0 \in 0 .. n
  BY <1>1, <1>2, <1>3
<1>5. C!InUse(u, c[0])
  BY <1>4 DEF C!InUse
<1>6. 0 \in T
  <2>1. Descends(u, c, 0)
    BY DEF Descends
  <2>2. Len(u.lru[root]) \in Nat
    BY LenProperties DEF Shape
  <2>3. Brought(u, u, root, c, 0)
    <3>1. {c[k] : k \in 0 .. 0 - 1} = {} /\ \A j : j \notin 1 .. 0
      OBVIOUS
    <3>2. QED
      BY <2>2, <3>1 DEF Brought
  <2>4. v[0].table = u /\ DOMAIN v[0] = {"i", "root", "table"} /\ v[0].root = root
    BY <1>2
  <2>5. 0 \in 0 .. 0 /\ \A l : l \notin 0 .. 0 - 1
    OBVIOUS
  <2>6. QED
    BY <1>4, <2>1, <2>3, <2>4, <2>5
<1>7. ASSUME NEW k \in 0 .. n - 1, k \in T PROVE k + 1 \in T
  <2>1. k \in 0 .. n /\ k + 1 \in 0 .. n /\ k + 1 \in 1 .. n /\ (k + 1) - 1 = k /\ k \in Nat
    BY <1>1
  <2>2. Descends(u, c, k) /\ DOMAIN v[k] = {"i", "root", "table"} /\ v[k].root = root
    BY <1>7
  <2>3. PICK m \in 0 .. k :
          /\ Brought(u, v[k].table, root, c, m) /\ c[m] = c[k]
          /\ \A l \in 0 .. m - 1 : c[l] \in Entries
          /\ c[k] \in Entries => m = k
    BY <1>7
  <2>4. v[k + 1] = C!Bring(v[k], Pool[k + 1])
    BY <1>2, <2>1
  <2>5. c[k + 1] = v[k + 1].i
    BY <1>3, <2>1
  <2>6. v[k].root = root /\ v[k].i = c[k] /\ v[k].table.cc = u.cc
    BY <1>3, <2>1, <2>2, <2>3 DEF Brought
  <2>7. \A l \in 1 .. k + 1 : l \in 1 .. k \/ l = k + 1
    BY <2>1
  <2>8. CASE c[k] \in Entries
    <3> DEFINE r2 == C!Relink(v[k].table, root, c[k])
               next == u.cc[c[k]][1]
    <3>1. /\ DOMAIN v[k + 1] = {"i", "root", "table"} /\ v[k + 1].root = root
          /\ v[k + 1].i = next /\ v[k + 1].table = r2
      <4>1. v[k + 1] = [v[k] EXCEPT !.table = C!Relink(v[k].table, v[k].root, v[k].i),
                                    !.i = v[k].table.cc[v[k].i][1]]
        BY <2>4, <2>6, <2>8 DEF C!Bring, C!IsEntry, Entries
      <4>2. v[k + 1] = [v[k] EXCEPT !.table = r2, !.i = next]
        BY <4>1, <2>6
      <4> HIDE DEF r2, next
      <4>3. QED
        BY <4>2, <2>2
    <3>2. c[k + 1] = next
      BY <2>5, <3>1
    <3>3. m = k
      BY <2>3, <2>8
    <3>4. \A l \in 0 .. k - 1 : c[l] # c[k]
      <4> TAKE l \in 0 .. k - 1
      <4>1. l \in 0 .. k /\ k \in 0 .. k /\ l < k
        BY <2>1
      <4>2. QED
        BY <1>5, <2>1, <2>2, <2>8, <4>1, DescentOnce
    <3>5. Brought(u, v[k + 1].table, root, c, k + 1)
      BY <2>1, <2>3, <2>8, <3>1, <3>3, <3>4, BringsOne
    <3>6. Descends(u, c, k + 1)
      BY <2>1, <2>2, <2>7, <2>8, <3>2 DEF Descends
    <3>7. \A l \in 0 .. (k + 1) - 1 : c[l] \in Entries
      <4>1. \A l \in 0 .. (k + 1) - 1 : l \in 0 .. k - 1 \/ l = k
        BY <2>1
      <4>2. QED
        BY <2>3, <2>8, <3>3, <4>1
    <3>8. k + 1 \in 0 .. k + 1
      BY <2>1
    <3>9. QED
      BY <2>1, <3>1, <3>5, <3>6, <3>7, <3>8
  <2>9. CASE c[k] \notin Entries
    <3>1. v[k + 1] = v[k]
      BY <2>4, <2>6, <2>9 DEF C!Bring, C!IsEntry, Entries
    <3>2. c[k + 1] = c[k]
      BY <2>5, <2>6, <3>1
    <3>3. Descends(u, c, k + 1)
      BY <2>1, <2>2, <2>7, <2>9, <3>2 DEF Descends
    <3>4. m \in 0 .. k + 1
      BY <2>1
    <3>5. QED
      BY <2>1, <2>2, <2>3, <2>9, <3>1, <3>2, <3>3, <3>4
  <2>10. QED
    BY <2>8, <2>9
<1>8. n \in T
  <2> HIDE DEF T
  <2>1. QED
    BY <1>1, <1>6, <1>7, UpTo
<1> DEFINE w == C!comb_tofront(u, root, i)
           list == w.lru[root]
<1>9. Descends(u, c, n) /\ \E m \in 0 .. n :
        /\ Brought(u, w, root, c, m) /\ c[m] = c[n] /\ \A l \in 0 .. m - 1 : c[l] \in Entries
  BY <1>2, <1>8
<1>10. PICK m \in 0 .. n :
         /\ Brought(u, w, root, c, m) /\ c[m] = c[n] /\ \A l \in 0 .. m - 1 : c[l] \in Entries
  BY <1>9
<1> HIDE DEF T, w
<1>11. c[m] \notin Entries
  <2>1. c[n] \notin Entries
    BY <1>5, <1>9, DescentEnds DEF n
  <2>2. QED
    BY <1>10, <2>1
<1>12. m \in Nat /\ m # 0 /\ 0 \in 0 .. m - 1
  BY <1>1, <1>4, <1>11
<1> DEFINE M == {c[k] : k \in 0 .. m - 1}
<1>13. ASSUME NEW l \in 0 .. m - 1
       PROVE  /\ c[l] \in Entries /\ u.cc[c[l]] # C!Free /\ c[l + 1] = u.cc[c[l]][1]
              /\ c[l + 1] \in Entries => l + 1 \in 0 .. m - 1
  <2>1. l \in 0 .. n /\ l + 1 \in 1 .. n /\ (l + 1) - 1 = l
    BY <1>1, <1>12
  <2>2. c[l] \in Entries
    BY <1>10
  <2>3. u.cc[c[l]] # C!Free
    BY <1>1, <1>5, <1>9, <2>1, <2>2, DescentUsed
  <2>4. c[l + 1] = u.cc[c[l]][1]
    BY <1>9, <2>1, <2>2 DEF Descends
  <2>5. l + 1 = m \/ l + 1 \in 0 .. m - 1
    BY <1>12
  <2>6. QED
    BY <1>11, <2>2, <2>3, <2>4, <2>5
<1>14. M \in SUBSET Entries /\ i \in M
  BY <1>4, <1>12, <1>13
<1>15. Closed(u, M)
  BY <1>13 DEF Closed
<1>16. u.cc[i][1] \notin Entries => M = {i}
  <2> HAVE u.cc[i][1] \notin Entries
  <2>1. c[0 + 1] \notin Entries
    BY <1>4, <1>12, <1>13
  <2>2. m = 1
    <3>1. 1 \in 0 .. m - 1 \/ m = 1
      BY <1>12
    <3>2. QED
      BY <1>10, <2>1, <3>1
  <2>3. \A l : l \in 0 .. m - 1 <=> l = 0
    BY <2>2
  <2>4. QED
    BY <1>4, <2>3
<1>17. Len(list) \in Nat /\ DOMAIN list = 1 .. Len(list) /\ IsInjective(list)
  <2>1. list \in Seq(Entries) /\ IsInjective(list)
    BY <1>10 DEF Brought, Shape
  <2>2. QED
    BY <2>1, LenProperties
<1>18. list[Len(list)] \in M => list[Len(list)] = i
  <2> HAVE list[Len(list)] \in M
  <2>1. PICK l \in 0 .. m - 1 : list[Len(list)] = c[l]
    OBVIOUS
  <2>2. m - l \in 1 .. m /\ m - (m - l) = l
    BY <1>12
  <2>3. m <= Len(list) /\ list[m - l] = c[l]
    BY <1>10, <2>2 DEF Brought
  <2>4. m - l \in 1 .. Len(list) /\ Len(list) \in 1 .. Len(list)
    BY <1>12, <1>17, <2>2, <2>3
  <2>5. Len(list) = m - l
    BY <1>17, <2>1, <2>3, <2>4 DEF IsInjective
  <2>6. l = 0
    BY <1>12, <1>17, <2>3, <2>5
  <2>7. QED
    BY <1>4, <2>1, <2>6
<1>19. /\ Shape(w) /\ w.cc = u.cc /\ ToSet(list) = ToSet(u.lru[root]) \union M
       /\ \A r \in Roots \ {root} : ToSet(w.lru[r]) = ToSet(u.lru[r]) \ M
  BY <1>10 DEF Brought
<1> HIDE DEF M
<1>20. Lifts(u, w, root, i, M)
  BY <1>18, <1>19 DEF Lifts
<1>21. QED
  BY <1>14, <1>15, <1>16, <1>19, <1>20 DEF w

-----------------------------------------------------------------------------
(* One more mark.                                                           *)

\* w is table u with the pair in j, and can be followed.
Links(u, w, j, pair) == /\ Shape(w) /\ Made(w) /\ C!Grounded(w)
                        /\ w.lru = u.lru /\ w.cc = [u.cc EXCEPT ![j] = pair]

\* An entry j that a character is now kept in.  What the character is made of must not be
\* made of j.
LEMMA LinkKeeps ==
  ASSUME NEW u, Shape(u), Made(u), C!Grounded(u), NEW j \in Entries \union Roots, NEW c1, NEW c,
         C!InUse(u, c1), NEW M \in SUBSET Entries, Closed(u, M), c1 \in Entries => c1 \in M, j \notin M
  PROVE  Links(u, [u EXCEPT !.cc[j] = <<c1, c>>], j, <<c1, c>>)
<1> DEFINE pair == <<c1, c>>
           w == [u EXCEPT !.cc[j] = pair]
<1>1. pair # C!Free /\ pair[1] = c1
  BY DEF C!Free
<1> HIDE DEF pair
<1>2. /\ u = [cc |-> u.cc, lru |-> u.lru]
      /\ u.cc = [i \in Entries \union Roots |-> u.cc[i]]
  BY DEF Shape
<1>3. w = [cc |-> [u.cc EXCEPT ![j] = pair], lru |-> u.lru]
  <2>1. PICK a, b : u = [cc |-> a, lru |-> b]
    BY <1>2
  <2>2. \A x : [[cc |-> a, lru |-> b] EXCEPT !.cc = x] = [cc |-> x, lru |-> b]
    OBVIOUS
  <2>3. u.lru = b /\ \A x : [u EXCEPT !.cc = x] = [cc |-> x, lru |-> b]
    BY <2>1, <2>2
  <2>4. QED
    BY <2>3
<1> HIDE DEF w
<1>4. w.cc = [u.cc EXCEPT ![j] = pair] /\ w.lru = u.lru /\ w = [cc |-> w.cc, lru |-> w.lru]
  BY <1>3
<1>5. \A i \in Entries : w.cc[i] = IF i = j THEN pair ELSE u.cc[i]
  BY <1>2, <1>4
<1>6. Shape(w)
  <2>1. w.cc = [i \in Entries \union Roots |-> w.cc[i]]
    BY <1>2, <1>4
  <2>2. QED
    BY <1>4, <2>1 DEF Shape
<1>7. \A x : C!InUse(u, x) => C!InUse(w, x)
  BY <1>1, <1>5 DEF C!InUse, C!IsEntry, Entries
<1>8. Made(w)
  BY <1>1, <1>5, <1>7 DEF Made
<1>9. C!Grounded(w)
  <2> SUFFICES ASSUME NEW S \in SUBSET Entries, S # {}
               PROVE  \E i \in S : w.cc[i] = C!Free \/ w.cc[i][1] \notin S
    BY DEF C!Grounded, Entries
  <2>1. CASE j \notin S
    <3>1. PICK i \in S : u.cc[i] = C!Free \/ u.cc[i][1] \notin S
      BY DEF C!Grounded, Entries
    <3>2. QED
      BY <1>5, <2>1, <3>1
  <2>2. CASE j \in S /\ c1 \notin S
    BY <1>1, <1>5, <2>2
  <2>3. CASE j \in S /\ c1 \in S
    <3>1. S \intersect M \in SUBSET Entries /\ S \intersect M # {}
      BY <2>3
    <3>2. PICK i \in S \intersect M : u.cc[i] = C!Free \/ u.cc[i][1] \notin S \intersect M
      BY <3>1 DEF C!Grounded, Entries
    <3>3. u.cc[i][1] \notin S
      BY <3>2 DEF Closed
    <3>4. QED
      BY <1>5, <3>2, <3>3
  <2>4. QED
    BY <2>1, <2>2, <2>3
<1>10. QED
  BY <1>4, <1>6, <1>8, <1>9 DEF Links, w, pair

\* Combined leaves a table behind, when the table with the new entry is one that can
\* be followed.
LEMMA CombinedKeeps ==
  ASSUME NEW u, Table(u), NEW root \in Roots, NEW i \in Entries \union Roots, NEW c1, NEW c,
         Links(u, [u EXCEPT !.cc[i] = <<c1, c>>], i, <<c1, c>>),
         i # "single", root = "double" => c1 \notin Entries /\ i \notin ToSet(Singles)
  PROVE  LET r == C!Combined(u, root, i, <<c1, c>>)
         IN /\ Table(r.table) /\ C!InUse(r.table, r.cell) /\ r.cell = i
            /\ \A x : C!InUse(u, x) => C!InUse(r.table, x)
<1> DEFINE pair == <<c1, c>>
           set == [u EXCEPT !.cc[i] = pair]
           w == C!comb_tofront(set, root, i)
           r == C!Combined(u, root, i, pair)
<1>1. pair # C!Free /\ pair[1] = c1
  BY DEF C!Free
<1>2. /\ Shape(u) /\ Made(u) /\ C!Grounded(u) /\ SinglesListed(u) /\ u.cc["single"] = C!Free
      /\ u.cc = [x \in Entries \union Roots |-> u.cc[x]]
  BY DEF Table, C!HeadKept, Shape
<1>3. /\ Shape(set) /\ Made(set) /\ C!Grounded(set)
      /\ set.lru = u.lru /\ set.cc = [u.cc EXCEPT ![i] = pair]
  BY DEF Links
<1>4. r.cell = i /\ r.table = IF i \in Entries THEN w ELSE set
  BY DEF C!Combined, C!IsEntry, Entries
<1> HIDE DEF pair, set, w, r
<1>5. \A x \in Entries \union Roots : set.cc[x] = IF x = i THEN pair ELSE u.cc[x]
  BY <1>2, <1>3
<1>6. "single" \in Roots /\ "double" \in Roots /\ Entries \intersect Roots = {}
      /\ ToSet(Singles) \subseteq Entries /\ \A x \in Roots : x = "single" \/ x = "double"
  BY Constants
<1>7. set.cc["single"] = C!Free
  BY <1>2, <1>5, <1>6
<1>8. \A x : C!InUse(u, x) => C!InUse(set, x)
  BY <1>1, <1>5 DEF C!InUse, C!IsEntry, Entries
<1>9. CASE i \in Entries
  <2>1. set.cc[i] # C!Free /\ set.cc[i][1] = c1
    BY <1>1, <1>5
  <2>2. /\ Shape(w) /\ w.cc = set.cc
        /\ \E N \in SUBSET Entries :
             /\ i \in N /\ Closed(set, N) /\ (set.cc[i][1] \notin Entries => N = {i})
             /\ Lifts(set, w, root, i, N)
    BY <1>3, <1>9, <2>1, TofrontIs DEF w
  <2>3. PICK N \in SUBSET Entries :
             /\ i \in N /\ (c1 \notin Entries => N = {i})
             /\ ToSet(w.lru[root]) = ToSet(u.lru[root]) \union N
             /\ \A o \in Roots \ {root} : ToSet(w.lru[o]) = ToSet(u.lru[o]) \ N
    BY <1>3, <2>1, <2>2 DEF Lifts
  <2>4. Made(w)
    BY <1>3, <2>2 DEF Made, C!InUse
  <2>5. C!Grounded(w)
    BY <1>3, <2>2 DEF C!Grounded
  <2>6. C!HeadKept(w, "single")
    BY <1>7, <2>2 DEF C!HeadKept
  <2>7. ASSUME NEW x \in ToSet(Singles)
        PROVE  /\ w.cc[x] # C!Free => x \in ToSet(w.lru["single"])
               /\ x \notin ToSet(w.lru["double"])
    <3>1. /\ u.cc[x] # C!Free => x \in ToSet(u.lru["single"])
          /\ x \notin ToSet(u.lru["double"])
      BY <1>2 DEF SinglesListed
    <3>2. w.cc[x] # C!Free => x = i \/ u.cc[x] # C!Free
      BY <1>5, <1>6, <2>2
    <3>3. CASE root = "single"
      <4>1. "double" \in Roots \ {root}
        BY <1>6, <3>3
      <4>2. QED
        BY <2>3, <3>1, <3>2, <3>3, <4>1
    <3>4. CASE root = "double"
      <4>1. "single" \in Roots \ {root}
        BY <1>6, <3>4
      <4>2. N = {i} /\ x # i
        BY <2>3, <3>4
      <4>3. QED
        BY <2>3, <3>1, <3>2, <3>4, <4>1, <4>2
    <3>5. QED
      BY <1>6, <3>3, <3>4
  <2>8. Table(w)
    BY <2>2, <2>4, <2>5, <2>6, <2>7 DEF Table, SinglesListed
  <2>9. C!InUse(w, i) /\ \A x : C!InUse(u, x) => C!InUse(w, x)
    BY <1>8, <2>1, <2>2 DEF C!InUse
  <2>10. QED
    BY <1>4, <1>9, <2>8, <2>9 DEF r, pair
<1>10. CASE i \notin Entries
  <2>1. SinglesListed(set)
    BY <1>2, <1>3, <1>5, <1>6, <1>10 DEF SinglesListed
  <2>2. Table(set)
    BY <1>3, <1>7, <2>1 DEF Table, C!HeadKept
  <2>3. C!InUse(set, i)
    BY <1>10 DEF C!InUse, C!IsEntry, Entries
  <2>4. QED
    BY <1>4, <1>8, <1>10, <2>2, <2>3 DEF r, pair
<1>11. QED
  BY <1>9, <1>10

\* The first entry that is free, or for the same character already.
LEMMA FittingIs ==
  ASSUME NEW u, NEW root \in Roots, NEW pair
  PROVE  LET k == C!Fitting(u, root, pair)
             part == C!Part(root)
         IN /\ k # 0 => part[k] \in ToSet(part) /\ (u.cc[part[k]] = C!Free \/ u.cc[part[k]] = pair)
            /\ k = 0 => \A i \in ToSet(part) : u.cc[i] # C!Free
<1> DEFINE part == C!Part(root)
           I == {i \in 1 .. Len(part) : u.cc[part[i]] \in {C!Free, pair}}
           k == C!Fitting(u, root, pair)
<1>1. Len(part) \in Nat /\ DOMAIN part = 1 .. Len(part)
  BY Constants, LenProperties DEF C!Part
<1> HIDE DEF part
<1>2. k = IF I = {} THEN 0 ELSE Min(I)
  BY DEF part, C!Fitting, C!SelectInSeq, SelectInSeq, C!Min, Min
<1>3. I # {} => Min(I) \in I
  <2> HAVE I # {}
  <2>1. I \in SUBSET Nat
    OBVIOUS
  <2> HIDE DEF I
  <2>2. PICK m \in I : \A x \in I : m <= x
    BY <2>1, LeastNumber
  <2>3. QED
    BY <2>2 DEF Min
<1> HIDE DEF k
<1>4. CASE I = {}
  BY <1>1, <1>2, <1>4 DEF ToSet, part, k
<1>5. CASE I # {}
  <2>1. k \in I
    BY <1>2, <1>3, <1>5
  <2>2. k \in 1 .. Len(part) /\ (u.cc[part[k]] = C!Free \/ u.cc[part[k]] = pair)
    BY <2>1
  <2>3. k # 0 /\ part[k] \in ToSet(part)
    BY <1>1, <2>2 DEF ToSet
  <2>4. QED
    BY <2>2, <2>3 DEF part, k
<1>6. QED
  BY <1>4, <1>5

\* The table when no entry is used.
THEOREM NoCombinationsIsTable == Table(C!NoCombinations)
<1> DEFINE u == C!NoCombinations
<1>1. /\ u = [cc |-> u.cc, lru |-> u.lru]
      /\ u.cc = [i \in Entries \union Roots |-> C!Free] /\ u.lru = [r \in Roots |-> <<>>]
  BY DEF C!NoCombinations, Entries, Roots
<1> HIDE DEF u
<1>2. <<>> \in Seq(Entries) /\ IsInjective(<<>>) /\ ToSet(<<>>) = {}
  BY EmptySeq, LenProperties DEF IsInjective, ToSet
<1>3. Shape(u)
  BY <1>1, <1>2 DEF Shape
<1>4. "single" \in Roots /\ "double" \in Roots /\ ToSet(Singles) \subseteq Entries
  BY Constants
<1>5. Made(u) /\ SinglesListed(u) /\ C!HeadKept(u, "single")
  BY <1>1, <1>2, <1>4 DEF Made, SinglesListed, C!HeadKept
<1>6. C!Grounded(u)
  BY <1>1 DEF C!Grounded, Entries
<1>7. QED
  BY <1>3, <1>5, <1>6 DEF Table, u

\* A mark that is combined with a character, or with an entry that is in use,
\* leaves the table as it must be, whatever is in it, and what the cell now has is
\* an entry in use, the head of a list or "?".  The entries that were in use still are.
THEOREM CombiningKeepsTable ==
  ASSUME NEW u, Table(u), NEW c, NEW c1, C!InUse(u, c1)
  PROVE  LET r == C!utf8_handle_comb(u, c, c1)
         IN /\ Table(r.table) /\ C!InUse(r.table, r.cell)
            /\ \A x : C!InUse(u, x) => C!InUse(r.table, x)
            /\ r.cell \in Entries \union Roots \union {Unknown}
<1> DEFINE root == IF c1 \in Wide THEN "double" ELSE "single"
           pair == <<c1, c>>
           k == C!Fitting(u, root, pair)
           part == C!Part(root)
           r == C!utf8_handle_comb(u, c, c1)
           lifted == IF c1 \in Entries THEN C!comb_tofront(u, root, c1) ELSE u
           last == C!Oldest(lifted, root)
<1>1. r = IF k # 0 THEN C!Combined(u, root, part[k], pair) ELSE C!Recycled(lifted, root, last, pair)
  BY DEF C!utf8_handle_comb, C!Recycle, C!IsEntry, Entries
<1>2. /\ "single" \in Roots /\ "double" \in Roots /\ Entries \intersect Roots = {}
      /\ ToSet(Singles) \subseteq Entries /\ ToSet(Doubles) \subseteq Entries
      /\ ToSet(Singles) \intersect ToSet(Doubles) = {} /\ Unknown \notin Entries
      /\ \A x \in Roots : x = "single" \/ x = "double"
  BY Constants
<1>3. root \in Roots /\ (root = "double" => c1 \notin Entries)
  BY <1>2, Constants
<1>4. part = IF root = "double" THEN Doubles ELSE Singles
  BY DEF C!Part
<1>5. /\ Shape(u) /\ Made(u) /\ C!Grounded(u) /\ SinglesListed(u)
  BY DEF Table
<1>6. /\ k # 0 => part[k] \in ToSet(part) /\ (u.cc[part[k]] = C!Free \/ u.cc[part[k]] = pair)
      /\ k = 0 => \A i \in ToSet(part) : u.cc[i] # C!Free
  BY <1>3, FittingIs
<1>7. pair[1] = c1 /\ pair # C!Free
  BY DEF C!Free
<1> HIDE DEF root, k, part, r
<1>8. CASE k # 0
  <2> DEFINE i == part[k]
  <2>1. i \in Entries /\ (root = "double" => i \notin ToSet(Singles))
    BY <1>2, <1>4, <1>6, <1>8
  <2>2. i # "single" /\ i \in Entries \union Roots
    BY <1>2, <2>1
  <2>3. r = C!Combined(u, root, i, pair)
    BY <1>1, <1>8
  <2>4. Links(u, [u EXCEPT !.cc[i] = pair], i, pair)
    <3>1. CASE u.cc[i] = C!Free
      <4> DEFINE M == {x \in Entries : u.cc[x] # C!Free}
      <4>1. Closed(u, M) /\ (c1 \in Entries => c1 \in M) /\ i \notin M /\ M \in SUBSET Entries
        BY <1>5, <3>1 DEF Closed, Made, C!InUse, C!IsEntry, Entries
      <4> HIDE DEF M, i
      <4>2. QED
        BY <1>5, <2>2, <4>1, LinkKeeps
    <3>2. CASE u.cc[i] = pair
      <4>1. u = [cc |-> u.cc, lru |-> u.lru] /\ u.cc = [x \in Entries \union Roots |-> u.cc[x]]
        BY <1>5 DEF Shape
      <4> HIDE DEF i, pair
      <4>2. [u.cc EXCEPT ![i] = pair] = u.cc
        BY <2>2, <3>2, <4>1
      <4>3. [u EXCEPT !.cc[i] = pair] = [cc |-> [u.cc EXCEPT ![i] = pair], lru |-> u.lru]
        BY <4>1
      <4>4. [u EXCEPT !.cc[i] = pair] = u
        BY <4>1, <4>2, <4>3
      <4>5. QED
        BY <1>5, <4>2, <4>4 DEF Links
    <3>3. QED
      BY <1>6, <1>8, <3>1, <3>2
  <2> HIDE DEF i
  <2>5. QED
    BY <1>3, <2>1, <2>2, <2>3, <2>4, CombinedKeeps DEF r
<1>9. CASE k = 0
  <2>1. /\ Shape(lifted) /\ lifted.cc = u.cc
        /\ \E M \in SUBSET Entries :
             /\ Closed(u, M) /\ (c1 \in Entries => c1 \in M) /\ (c1 \notin Entries => M = {})
             /\ c1 \in Entries => Lifts(u, lifted, root, c1, M)
    <3>1. CASE c1 \in Entries
      <4>1. u.cc[c1] # C!Free
        BY <3>1 DEF C!InUse, C!IsEntry, Entries
      <4>2. lifted = C!comb_tofront(u, root, c1)
        BY <3>1
      <4> HIDE DEF lifted
      <4>3. /\ Shape(lifted) /\ lifted.cc = u.cc
            /\ \E M \in SUBSET Entries :
                 /\ c1 \in M /\ Closed(u, M) /\ (u.cc[c1][1] \notin Entries => M = {c1})
                 /\ Lifts(u, lifted, root, c1, M)
        BY <1>3, <1>5, <3>1, <4>1, <4>2, TofrontIs
      <4>4. QED
        BY <3>1, <4>3
    <3>2. CASE c1 \notin Entries
      <4>1. Closed(u, {}) /\ lifted = u
        BY <3>2 DEF Closed
      <4> HIDE DEF lifted
      <4>2. QED
        BY <1>5, <3>2, <4>1
    <3>3. QED
      BY <3>1, <3>2
  <2>2. PICK M \in SUBSET Entries :
          /\ Closed(u, M) /\ (c1 \in Entries => c1 \in M) /\ (c1 \notin Entries => M = {})
          /\ c1 \in Entries => Lifts(u, lifted, root, c1, M)
    BY <2>1
  <2>3. /\ (c1 \notin Entries => lifted = u) /\ (root = "double" => lifted = u)
    BY <1>3
  <2> HIDE DEF lifted
  <2>4. Table(lifted)
    <3>1. Made(lifted) /\ C!Grounded(lifted) /\ C!HeadKept(lifted, "single")
      BY <1>5, <2>1 DEF Made, C!InUse, C!Grounded, C!HeadKept, Table
    <3>2. SinglesListed(lifted)
      <4>1. CASE root = "double"
        BY <1>5, <2>3, <4>1
      <4>2. CASE root = "single"
        <5>1. ToSet(u.lru["single"]) \subseteq ToSet(lifted.lru["single"])
              /\ ToSet(lifted.lru["double"]) \subseteq ToSet(u.lru["double"])
          BY <1>2, <2>2, <2>3, <4>2 DEF Lifts
        <5>2. QED
          BY <1>5, <2>1, <5>1 DEF SinglesListed
      <4>3. QED
        BY <1>2, <1>3, <4>1, <4>2
    <3>3. QED
      BY <2>1, <3>1, <3>2 DEF Table
  <2>5. \A x : C!InUse(lifted, x) <=> C!InUse(u, x)
    BY <2>1 DEF C!InUse
  <2> DEFINE list == lifted.lru[root]
  <2>6. list \in Seq(Entries) /\ Len(list) \in Nat /\ DOMAIN list = 1 .. Len(list)
    BY <1>3, <2>1, LenProperties DEF Shape
  <2>7. last = IF list = <<>> THEN root ELSE list[Len(list)]
    BY DEF C!Oldest, C!Last, Last
  <2>8. list # <<>> => list[Len(list)] \in Entries /\ list[Len(list)] \in ToSet(list)
    <3> HAVE list # <<>>
    <3>1. Len(list) \in 1 .. Len(list)
      BY <2>6, EmptySeq
    <3>2. QED
      BY <2>6, <3>1 DEF ToSet
  \* the single entries are all used and listed
  <2>9. root = "single" => list # <<>>
    <3> HAVE root = "single"
    <3>1. Len(Singles) \in Nat /\ Len(Singles) # 0 /\ DOMAIN Singles = 1 .. Len(Singles)
      BY Constants, EmptySeq, LenProperties
    <3>2. Singles[1] \in ToSet(Singles)
      BY <3>1 DEF ToSet
    <3>3. u.cc[Singles[1]] # C!Free
      BY <1>4, <1>6, <1>9, <3>2
    <3>4. Singles[1] \in ToSet(list)
      BY <2>1, <2>4, <3>2, <3>3 DEF Table, SinglesListed
    <3>5. QED
      BY <3>4, EmptySeq DEF ToSet
  <2>10. last \in Entries \union Roots /\ last # "single"
    BY <1>2, <1>3, <2>7, <2>8, <2>9
  <2>11. root = "double" => last \notin ToSet(Singles)
    <3> HAVE root = "double"
    <3>1. CASE list = <<>>
      BY <1>2, <2>7, <3>1
    <3>2. CASE list # <<>>
      BY <2>4, <2>7, <2>8, <3>2 DEF Table, SinglesListed
    <3>3. QED
      BY <3>1, <3>2
  <2> HIDE DEF last
  <2>12. CASE last = c1
    <3>1. r.table = lifted /\ r.cell = Unknown
      BY <1>1, <1>7, <1>9, <2>12 DEF C!Recycled
    <3>2. QED
      BY <1>2, <2>4, <2>5, <3>1 DEF C!InUse, C!IsEntry, Entries, r
  <2>13. CASE last # c1
    <3>1. r = C!Combined(lifted, root, last, pair)
      BY <1>1, <1>7, <1>9, <2>13 DEF C!Recycled
    <3>2. last \notin M
      <4>1. CASE list = <<>>
        BY <1>2, <1>3, <2>7, <4>1
      <4>2. CASE list # <<>>
        BY <2>2, <2>7, <2>13, <4>2 DEF Lifts
      <4>3. QED
        BY <4>1, <4>2
    <3>3. Closed(lifted, M)
      BY <2>1, <2>2 DEF Closed
    <3>4. C!InUse(lifted, c1)
      BY <2>5
    <3>5. Links(lifted, [lifted EXCEPT !.cc[last] = pair], last, pair)
      BY <2>2, <2>4, <2>10, <3>2, <3>3, <3>4, LinkKeeps DEF Table
    <3>6. /\ Table(r.table) /\ C!InUse(r.table, r.cell) /\ r.cell = last
          /\ \A x : C!InUse(lifted, x) => C!InUse(r.table, x)
      BY <1>3, <2>4, <2>10, <2>11, <3>1, <3>5, CombinedKeeps
    <3>7. QED
      BY <2>5, <2>10, <3>6 DEF r
  <2>14. QED
    BY <2>12, <2>13
<1>10. QED
  BY <1>8, <1>9

-----------------------------------------------------------------------------
(* Rows: w cells each, all of them in S.                                    *)

Row(w, S) == [c : [1 .. w -> S], soft : BOOLEAN]

\* A function over 1 .. n is a sequence, and its evaluation is itself.
LEMMA TupleIs ==
  ASSUME NEW S, NEW n \in Nat, NEW f \in [1 .. n -> S]
  PROVE  Tuple(f) = f /\ f \in Seq(S) /\ Len(f) = n /\ DOMAIN f = 1 .. n
<1>1. f \in Seq(S)
  BY SeqDef
<1>2. Len(f) = n /\ DOMAIN f = 1 .. n
  BY <1>1, LenProperties
<1>3. QED
  BY <1>1, <1>2, ConcatEmptySeq DEF Tuple

\* Blanks are a sequence of cells.
LEMMA BlanksAre ==
  ASSUME NEW S, Blank \in S, NEW n \in Nat
  PROVE  Blanks(n) \in Seq(S) /\ Len(Blanks(n)) = n /\ Blanks(n) \in [1 .. n -> S]
<1> DEFINE f == [i \in 1 .. n |-> Blank]
<1>1. f \in [1 .. n -> S]
  OBVIOUS
<1>2. Tuple(f) = f /\ f \in Seq(S) /\ Len(f) = n
  BY <1>1, TupleIs
<1>3. Blanks(n) = Tuple(f)
  BY DEF Blanks
<1>4. QED
  BY <1>1, <1>2, <1>3

\* Lines of blanks are rows.
LEMMA BlankLinesAre ==
  ASSUME NEW S, Blank \in S, NEW w \in Nat, NEW n \in Nat
  PROVE  /\ BlankLines(n, w) \in Seq(Row(w, S)) /\ Len(BlankLines(n, w)) = n
         /\ BlankLines(n, w) \in [1 .. n -> Row(w, S)]
<1> DEFINE f == [i \in 1 .. n |-> BlankLine(w)]
<1>1. BlankLine(w) \in Row(w, S)
  BY BlanksAre DEF BlankLine, Row
<1>2. f \in [1 .. n -> Row(w, S)]
  BY <1>1
<1>3. Tuple(f) = f /\ f \in Seq(Row(w, S)) /\ Len(f) = n
  BY <1>2, TupleIs
<1>4. BlankLines(n, w) = Tuple(f)
  BY DEF BlankLines
<1>5. QED
  BY <1>2, <1>3, <1>4

\* A part of a sequence.
LEMMA PartIs ==
  ASSUME NEW S, NEW s \in Seq(S), NEW m \in Nat \ {0}, NEW n \in Int, n <= Len(s)
  PROVE  /\ SubSeq(s, m, n) \in Seq(S)
         /\ Len(SubSeq(s, m, n)) = IF m <= n THEN n - m + 1 ELSE 0
         /\ \A i \in 1 .. n - m + 1 : SubSeq(s, m, n)[i] = s[m + i - 1]
<1>1. Len(s) \in Nat /\ \A i \in 1 .. Len(s) : s[i] \in S
  BY LenProperties, ElementOfSeq
<1>2. \A i \in m .. n : s[i] \in S
  BY <1>1
<1>3. QED
  BY <1>1, <1>2, SubSeqProperties

\* A sequence of length n is a function over 1 .. n.
LEMMA SeqIs ==
  ASSUME NEW S, NEW s \in Seq(S), NEW n, Len(s) = n
  PROVE  s \in [1 .. n -> S]
BY LenProperties

\* The cells of a row are a sequence of its width.
LEMMA CellsAre ==
  ASSUME NEW S, NEW w \in Nat, NEW l \in Row(w, S)
  PROVE  l.c \in Seq(S) /\ Len(l.c) = w /\ DOMAIN l.c = 1 .. w /\ l.soft \in BOOLEAN
<1>1. l.c \in [1 .. w -> S] /\ l.soft \in BOOLEAN
  BY DEF Row
<1>2. QED
  BY <1>1, TupleIs

\* A row with other cells is a row.
LEMMA WithCells ==
  ASSUME NEW S, NEW w \in Nat, NEW l \in Row(w, S), NEW c \in Seq(S), Len(c) = w
  PROVE  [l EXCEPT !.c = c] \in Row(w, S)
BY SeqIs DEF Row

\* Writing a cell and clearing some leaves a row a row.
LEMMA PutKeeps ==
  ASSUME NEW S, NEW w \in Nat, NEW l \in Row(w, S), NEW x, NEW ch \in S
  PROVE  Put(l, x, ch) \in Row(w, S)
BY DEF Put, Row

\* So does clearing cells (clear_mline).
LEMMA EraseKeeps ==
  ASSUME NEW S, Blank \in S, NEW w \in Nat, NEW l \in Row(w, S), NEW xs, NEW xe
  PROVE  Erase(l, xs, xe) \in Row(w, S)
<1> DEFINE f == [i \in DOMAIN l.c |-> IF i \in xs + 1 .. xe + 1 THEN Blank ELSE l.c[i]]
<1>1. f \in [1 .. w -> S]
  BY DEF Row
<1>2. Tuple(f) = f
  BY <1>1, TupleIs
<1>3. Erase(l, xs, xe) = [l EXCEPT !.c = Tuple(f)]
  BY DEF Erase
<1> HIDE DEF f
<1>4. QED
  BY <1>1, <1>2, <1>3 DEF Row

\* So does clearing the character of which half is overwritten.
LEMMA KillsKeep ==
  ASSUME NEW S, Blank \in S, NEW w \in Nat, NEW l \in Row(w, S), NEW x
  PROVE  KillDwRight(l, x) \in Row(w, S) /\ KillDwLeft(l, x) \in Row(w, S)
BY EraseKeeps DEF KillDwRight, KillDwLeft

\* Two and three sequences, one after the other.
LEMMA TwoIs ==
  ASSUME NEW S, NEW a \in Seq(S), NEW b \in Seq(S)
  PROVE  a \o b \in Seq(S) /\ Len(a \o b) = Len(a) + Len(b) /\ Len(a) \in Nat /\ Len(b) \in Nat
BY ConcatProperties, LenProperties

\* Three sequences.
LEMMA ThreeIs ==
  ASSUME NEW S, NEW a \in Seq(S), NEW b \in Seq(S), NEW e \in Seq(S)
  PROVE  a \o b \o e \in Seq(S) /\ Len(a \o b \o e) = Len(a) + Len(b) + Len(e)
<1>1. a \o b \in Seq(S) /\ Len(a \o b) = Len(a) + Len(b)
  BY TwoIs
<1> DEFINE f == a \o b
<1> HIDE DEF f
<1>2. f \o e \in Seq(S) /\ Len(f \o e) = Len(f) + Len(e)
  BY <1>1, TwoIs DEF f
<1>3. QED
  BY <1>1, <1>2 DEF f

\* Inserting and deleting cells.
LEMMA InsertKeeps ==
  ASSUME NEW S, Blank \in S, NEW w \in Nat, NEW l \in Row(w, S), NEW x \in Nat, NEW n \in Nat, x + n <= w
  PROVE  InsertBlanks(l, x, n) \in Row(w, S)
<1> DEFINE a == SubSeq(l.c, 1, x)
           b == Blanks(n)
           e == SubSeq(l.c, x + 1, Len(l.c) - n)
           cells == a \o b \o e
<1>1. l.c \in Seq(S) /\ Len(l.c) = w
  BY CellsAre
<1>2. a \in Seq(S) /\ Len(a) = x
  BY <1>1, PartIs
<1>3. e \in Seq(S) /\ Len(e) = w - n - x
  BY <1>1, PartIs
<1>4. b \in Seq(S) /\ Len(b) = n
  BY BlanksAre
<1>5. InsertBlanks(l, x, n) = [l EXCEPT !.c = cells]
  BY DEF InsertBlanks
<1> HIDE DEF a, b, e
<1>6. cells \in Seq(S) /\ Len(cells) = Len(a) + Len(b) + Len(e)
  BY <1>2, <1>3, <1>4, ThreeIs
<1> HIDE DEF cells
<1>7. Len(cells) = w
  BY <1>2, <1>3, <1>4, <1>6
<1>8. QED
  BY <1>5, <1>6, <1>7, WithCells

\* Deleting cells leaves a row a row.
LEMMA DeleteKeeps ==
  ASSUME NEW S, Blank \in S, NEW w \in Nat, NEW l \in Row(w, S), NEW x \in Nat, NEW n \in Nat, x + n <= w
  PROVE  DeleteCells(l, x, n) \in Row(w, S)
<1> DEFINE a == SubSeq(l.c, 1, x)
           b == SubSeq(l.c, x + n + 1, Len(l.c))
           e == Blanks(n)
           cells == a \o b \o e
<1>1. l.c \in Seq(S) /\ Len(l.c) = w
  BY CellsAre
<1>2. a \in Seq(S) /\ Len(a) = x
  BY <1>1, PartIs
<1>3. b \in Seq(S) /\ Len(b) = w - n - x
  BY <1>1, PartIs
<1>4. e \in Seq(S) /\ Len(e) = n
  BY BlanksAre
<1>5. DeleteCells(l, x, n) = [l EXCEPT !.c = cells]
  BY DEF DeleteCells
<1> HIDE DEF a, b, e
<1>6. cells \in Seq(S) /\ Len(cells) = Len(a) + Len(b) + Len(e)
  BY <1>2, <1>3, <1>4, ThreeIs
<1> HIDE DEF cells
<1>7. Len(cells) = w
  BY <1>2, <1>3, <1>4, <1>6
<1>8. QED
  BY <1>5, <1>6, <1>7, WithCells

-----------------------------------------------------------------------------
(* What is true of a window between two bytes.                              *)

Fields == {"ml", "hist", "width", "height", "x", "y", "top", "bot", "saved", "sx", "sy", "wrap",
           "insert", "origin", "tabs", "alt", "state", "interm", "args", "osc", "slen", "decode", "comb"}

\* What may be in a cell: a character, or an entry that is in use.  The head of a
\* list is what a character in the last case is made: its cell then shows nothing.
Written == Bytes \union Multi \union {Replacement}
Characters == Written \union Roots \union {Right, Blank, Unknown, "E"}
Good(table) == {i \in Characters \union Entries : C!InUse(table, i)}

Page(ml, hist, w, h, S) == ml \in [1 .. h -> Row(w, S)] /\ hist \in Seq(Row(w, S))
Screen(u, S) ==
  /\ u.width \in Nat /\ 2 <= u.width /\ u.height \in Nat /\ 1 <= u.height
  /\ Page(u.ml, u.hist, u.width, u.height, S)
  /\ u.x \in 0 .. u.width /\ u.y \in 0 .. u.height - 1
Spare(a, S) == a = NoScreen \/ Screen(a, S)
Margins(u) ==
  /\ u.top \in Nat /\ u.bot \in Nat /\ u.top <= u.bot /\ u.bot < u.height
  /\ u.sx \in 0 .. u.width /\ u.sy \in 0 .. u.height - 1
  /\ u.tabs \in SUBSET (0 .. u.width)
Parser(u) ==
  /\ u.state \in States /\ u.slen \in Nat /\ u.slen < MaxStr
  /\ u.args \in Seq(Nat) /\ u.args # <<>> /\ Len(u.args) <= MaxArgs + 1
  /\ u.decode \in Multi \union {None}

Win(u) == /\ DOMAIN u = Fields /\ Screen(u, Good(u.comb)) /\ Margins(u)
          /\ Spare(u.alt, Good(u.comb)) /\ Parser(u) /\ Table(u.comb)

\* A character may be in a cell, whatever the table.
LEMMA GoodIs ==
  ASSUME NEW u
  PROVE  Characters \subseteq Good(u) /\ Blank \in Good(u) /\ Right \in Good(u)
<1>1. Characters \intersect Entries = {}
  BY NoCharacter, Constants DEF Characters, Entries, Written, Multi, Replacement
<1>2. QED
  BY <1>1 DEF Good, C!InUse, C!IsEntry, Characters, Entries

\* The text is another one, and nothing else is.
Repaged(u, v) == DOMAIN v = DOMAIN u /\ \A f \in DOMAIN u \ {"ml", "hist"} : v[f] = u[f]
Keeps(u, v) == Win(v) /\ Repaged(u, v)

\* The fields of a window that has another text.
LEMMA RepagedSame ==
  ASSUME NEW u, DOMAIN u = Fields, NEW v, Repaged(u, v)
  PROVE  /\ DOMAIN v = Fields /\ v.width = u.width /\ v.height = u.height /\ v.x = u.x /\ v.y = u.y
         /\ v.top = u.top /\ v.bot = u.bot /\ v.sx = u.sx /\ v.sy = u.sy /\ v.tabs = u.tabs
         /\ v.alt = u.alt /\ v.state = u.state /\ v.args = u.args /\ v.slen = u.slen
         /\ v.decode = u.decode /\ v.comb = u.comb /\ v.insert = u.insert /\ v.wrap = u.wrap
BY DEF Repaged, Fields

\* A window stays one when its new text is made of as many rows of its width.
LEMMA RepagedKeeps ==
  ASSUME NEW u, Win(u), NEW v, Repaged(u, v), Page(v.ml, v.hist, u.width, u.height, Good(u.comb))
  PROVE  Keeps(u, v)
<1>1. DOMAIN u = Fields
  BY DEF Win
<1>2. /\ DOMAIN v = Fields /\ v.width = u.width /\ v.height = u.height /\ v.x = u.x /\ v.y = u.y
      /\ v.top = u.top /\ v.bot = u.bot /\ v.sx = u.sx /\ v.sy = u.sy /\ v.tabs = u.tabs
      /\ v.alt = u.alt /\ v.state = u.state /\ v.args = u.args /\ v.slen = u.slen
      /\ v.decode = u.decode /\ v.comb = u.comb
  BY <1>1, RepagedSame
<1>3. Screen(v, Good(v.comb))
  BY <1>2 DEF Win, Screen
<1>4. Margins(v)
  BY <1>2 DEF Win, Margins
<1>5. Parser(v)
  BY <1>2 DEF Win, Parser
<1>6. QED
  BY <1>2, <1>3, <1>4, <1>5 DEF Keeps, Win

\* Two changes of the text are one.
LEMMA RepagedTwice ==
  ASSUME NEW u, NEW v, NEW z, Keeps(u, v), Keeps(v, z)
  PROVE  Keeps(u, z)
BY DEF Keeps, Repaged

\* One line is another one.
LEMMA LineKeeps ==
  ASSUME NEW u, Win(u), NEW y \in 0 .. u.height - 1, NEW l \in Row(u.width, Good(u.comb))
  PROVE  Keeps(u, [u EXCEPT !.ml[y + 1] = l])
<1> DEFINE v == [u EXCEPT !.ml[y + 1] = l]
<1>1. DOMAIN u = Fields /\ Page(u.ml, u.hist, u.width, u.height, Good(u.comb)) /\ u.height \in Nat
  BY DEF Win, Screen
<1>2. Repaged(u, v)
  BY DEF Repaged
<1>3. v.ml = [u.ml EXCEPT ![y + 1] = l] /\ v.hist = u.hist
  BY <1>1 DEF Fields
<1> HIDE DEF v
<1>4. Page(v.ml, v.hist, u.width, u.height, Good(u.comb))
  BY <1>1, <1>3 DEF Page
<1>5. QED
  BY <1>2, <1>4, RepagedKeeps DEF v

\* A line of the screen is a row.
LEMMA LineIs ==
  ASSUME NEW u, Win(u), NEW y \in 0 .. u.height - 1
  PROVE  u.ml[y + 1] \in Row(u.width, Good(u.comb))
BY SMTT(30) DEF Win, Screen, Page

\* Writing a character leaves the window a window.
LEMMA PutCharKeeps ==
  ASSUME NEW u, Win(u), NEW ch \in Characters, NEW x, NEW y \in 0 .. u.height - 1
  PROVE  Keeps(u, MPutChar(u, ch, x, y))
<1> DEFINE w == u.width
           S == Good(u.comb)
           l0 == u.ml[y + 1]
           l1 == Put(KillDwLeft(KillDwRight(l0, x), x), x, ch)
           l2 == IF ch \in Wide THEN Put(KillDwLeft(l1, x + 1), x + 1, Right) ELSE l1
<1>1. w \in Nat /\ Blank \in S /\ Right \in S /\ ch \in S /\ l0 \in Row(w, S)
  BY GoodIs, LineIs DEF Win, Screen
<1>2. MPutChar(u, ch, x, y) = [u EXCEPT !.ml[y + 1] = l2]
  BY DEF MPutChar
<1> HIDE DEF w, S, l0
<1>3. l1 \in Row(w, S)
  BY <1>1, KillsKeep, PutKeeps
<1> HIDE DEF l1
<1>4. l2 \in Row(w, S)
  BY <1>1, <1>3, KillsKeep, PutKeeps
<1> HIDE DEF l2
<1>5. QED
  BY <1>2, <1>4, LineKeeps DEF w, S

\* So does inserting one.
LEMMA InsCharKeeps ==
  ASSUME NEW u, Win(u), NEW ch \in Characters, NEW x \in 0 .. u.width - 1, NEW y \in 0 .. u.height - 1
  PROVE  Keeps(u, MInsChar(u, ch, x, y))
<1> DEFINE w == u.width
           last == u.width - 1
           S == Good(u.comb)
           l0 == u.ml[y + 1]
           l1 == Put(InsertBlanks(KillDwRight(KillDwRight(l0, x), last), x, 1), x, ch)
           l2 == IF ch \notin Wide THEN l1
                 ELSE IF x + 1 < last
                 THEN Put(InsertBlanks(KillDwRight(l1, last), x + 1, 1), x + 1, Right)
                 ELSE Put(l1, x + 1, Right)
<1>1. w \in Nat /\ Blank \in S /\ Right \in S /\ ch \in S /\ l0 \in Row(w, S)
  BY GoodIs, LineIs DEF Win, Screen
<1>2. MInsChar(u, ch, x, y) = [u EXCEPT !.ml[y + 1] = l2]
  BY DEF MInsChar, With
<1>3. x \in Nat /\ x + 1 <= w /\ (x + 1 < last => x + 1 + 1 <= w)
  BY <1>1
<1> HIDE DEF w, S, l0, last
<1>4. l1 \in Row(w, S)
  BY <1>1, <1>3, KillsKeep, PutKeeps, InsertKeeps
<1> HIDE DEF l1
<1>5. l2 \in Row(w, S)
  <2>1. CASE x + 1 < last
    <3>1. InsertBlanks(KillDwRight(l1, last), x + 1, 1) \in Row(w, S)
      BY <1>1, <1>3, <1>4, <2>1, KillsKeep, InsertKeeps
    <3>2. QED
      BY <1>1, <1>4, <2>1, <3>1, PutKeeps
  <2>2. CASE ~(x + 1 < last)
    BY <1>1, <1>4, <2>2, PutKeeps
  <2>3. QED
    BY <2>1, <2>2
<1> HIDE DEF l2
<1>6. QED
  BY <1>2, <1>5, LineKeeps DEF w, S

\* So does moving what is right of the cursor.
LEMMA ScrollHKeeps ==
  ASSUME NEW u, Win(u), NEW n \in Int, NEW xs \in 0 .. u.width - 1, NEW y \in 0 .. u.height - 1
  PROVE  Keeps(u, MScrollH(u, n, y, xs))
<1> DEFINE w == u.width
           last == u.width - 1
           S == Good(u.comb)
           l0 == KillDwRight(u.ml[y + 1], xs)
           m == Least(IF n < 0 THEN -n ELSE n, last - xs + 1)
           l1 == IF m > last - xs THEN l0
                 ELSE IF n > 0 THEN KillDwRight(l0, xs + m) ELSE KillDwLeft(l0, last - m)
           l2 == IF n > 0 THEN DeleteCells(l1, xs, m) ELSE InsertBlanks(l1, xs, m)
<1>1. w \in Nat /\ Blank \in S /\ u.ml[y + 1] \in Row(w, S)
  BY GoodIs, LineIs DEF Win, Screen
<1>2. MScrollH(u, n, y, xs) = [u EXCEPT !.ml[y + 1] = l2]
  BY DEF MScrollH
<1>3. m \in Nat /\ xs \in Nat /\ xs + m <= w
  BY <1>1 DEF Least
<1> HIDE DEF w, S, last, m
<1>4. l0 \in Row(w, S)
  BY <1>1, KillsKeep
<1> HIDE DEF l0
<1>5. l1 \in Row(w, S)
  BY <1>1, <1>4, KillsKeep
<1> HIDE DEF l1
<1>6. l2 \in Row(w, S)
  BY <1>1, <1>3, <1>5, DeleteKeeps, InsertKeeps
<1> HIDE DEF l2
<1>7. QED
  BY <1>2, <1>6, LineKeeps DEF w, S

\* So does scrolling lines, those lost at the top going to the scrollback.
LEMMA ScrollVKeeps ==
  ASSUME NEW u, Win(u), NEW n \in Int, NEW ys \in Nat, NEW ye \in Nat, ys <= ye, ye < u.height
  PROVE  Keeps(u, MScrollV(u, n, ys, ye))
<1> DEFINE w == u.width
           h == u.height
           R == Row(u.width, Good(u.comb))
           m == Least(IF n < 0 THEN -n ELSE n, ye - ys + 1)
           region == SubSeq(u.ml, ys + 1, ye + 1)
           new == BlankLines(m, w)
           moved == IF n > 0 THEN SubSeq(region, m + 1, Len(region)) \o new
                             ELSE new \o SubSeq(region, 1, Len(region) - m)
           first == SubSeq(u.ml, 1, ys)
           rest == SubSeq(u.ml, ye + 2, Len(u.ml))
           lost == SubSeq(region, 1, m)
           all == u.hist \o lost
           ml == first \o moved \o rest
           hist == IF n > 0 /\ ys = u.top THEN SubSeq(all, Len(all) - Len(u.hist) + 1, Len(all)) ELSE u.hist
           v == MScrollV(u, n, ys, ye)
<1>1. /\ w \in Nat /\ h \in Nat /\ DOMAIN u = Fields
      /\ u.ml \in [1 .. h -> R] /\ u.hist \in Seq(R)
  BY DEF Win, Screen, Page
<1>2. Repaged(u, v) /\ v.ml = ml /\ v.hist = hist
  BY <1>1 DEF MScrollV, ToHistory, Repaged, Fields
<1>3. m \in Nat /\ m <= ye - ys + 1
  BY <1>1 DEF Least
<1>4. new \in Seq(R) /\ Len(new) = m
  BY <1>1, <1>3, GoodIs, BlankLinesAre
<1> HIDE DEF m, R, w, h, v, new
<1>5. u.ml \in Seq(R) /\ Len(u.ml) = h
  BY <1>1, TupleIs
<1>6. region \in Seq(R) /\ Len(region) = ye - ys + 1
  BY <1>1, <1>5, PartIs DEF h
<1>7. first \in Seq(R) /\ Len(first) = ys /\ rest \in Seq(R) /\ Len(rest) = h - ye - 1
  <2>1. first \in Seq(R) /\ Len(first) = ys
    BY <1>1, <1>5, PartIs DEF h
  <2>2. rest \in Seq(R) /\ Len(rest) = h - ye - 1
    BY <1>1, <1>5, PartIs, SMTT(30) DEF h
  <2>3. QED
    BY <2>1, <2>2
<1> HIDE DEF region, first, rest
<1>8. moved \in Seq(R) /\ Len(moved) = ye - ys + 1
  <2> DEFINE upper == SubSeq(region, m + 1, Len(region))
             lower == SubSeq(region, 1, Len(region) - m)
  <2>1. upper \in Seq(R) /\ Len(upper) = ye - ys + 1 - m
    BY <1>3, <1>6, PartIs
  <2>2. lower \in Seq(R) /\ Len(lower) = ye - ys + 1 - m
    BY <1>3, <1>6, PartIs
  <2>3. moved = IF n > 0 THEN upper \o new ELSE new \o lower
    OBVIOUS
  <2> HIDE DEF upper, lower, moved
  <2>4. upper \o new \in Seq(R) /\ Len(upper \o new) = ye - ys + 1
    BY <1>3, <1>4, <2>1, TwoIs
  <2>5. new \o lower \in Seq(R) /\ Len(new \o lower) = ye - ys + 1
    BY <1>3, <1>4, <2>2, TwoIs
  <2>6. QED
    BY <2>3, <2>4, <2>5
<1> HIDE DEF moved
<1>9. ml \in [1 .. h -> R]
  <2>1. ml \in Seq(R) /\ Len(ml) = Len(first) + Len(moved) + Len(rest)
    BY <1>7, <1>8, ThreeIs, SMTT(30)
  <2>2. Len(ml) = h
    BY <1>1, <1>7, <1>8, <2>1
  <2>3. QED
    BY <2>1, <2>2, SeqIs
<1>10. hist \in Seq(R)
  <2>1. lost \in Seq(R)
    BY <1>3, <1>6, PartIs
  <2> HIDE DEF lost
  <2>2. all \in Seq(R) /\ Len(all) = Len(u.hist) + Len(lost) /\ Len(u.hist) \in Nat /\ Len(lost) \in Nat
    BY <1>1, <2>1, TwoIs
  <2> HIDE DEF all
  <2>3. SubSeq(all, Len(all) - Len(u.hist) + 1, Len(all)) \in Seq(R)
    BY <2>2, PartIs
  <2>4. QED
    BY <1>1, <2>3
<1> HIDE DEF ml, hist
<1>11. QED
  BY <1>2, <1>9, <1>10, RepagedKeeps DEF R, Page, v, h, w

\* So does clearing an area.
LEMMA ClearAreaKeeps ==
  ASSUME NEW u, Win(u), NEW xs \in Int, NEW xe \in Int, NEW ys, NEW ye
  PROVE  Keeps(u, MClearArea(u, xs, ys, xe, ye))
<1> DEFINE w == u.width
           h == u.height
           S == Good(u.comb)
           R == Row(w, S)
           from == Least(xs, w - 1)
           to == Least(xe, w - 1)
           first(l, y) == IF y = ys THEN KillDwRight(l, from) ELSE l
           both(l, y) == IF y = ye THEN KillDwLeft(first(l, y), to) ELSE first(l, y)
           cleared(l, y) == Erase(both(l, y), IF y = ys THEN from ELSE 0, IF y = ye THEN to ELSE w - 1)
           ml == [i \in DOMAIN u.ml |-> IF i - 1 \in ys .. ye THEN cleared(u.ml[i], i - 1) ELSE u.ml[i]]
           v == MClearArea(u, xs, ys, xe, ye)
<1>1. /\ w \in Nat /\ h \in Nat /\ DOMAIN u = Fields /\ Blank \in S
      /\ u.ml \in [1 .. h -> R] /\ u.hist \in Seq(R)
  BY GoodIs DEF Win, Screen, Page
<1>2. Repaged(u, v) /\ v.hist = u.hist /\ v.ml = Tuple(ml)
  BY <1>1 DEF MClearArea, Repaged, Fields
<1> HIDE DEF v, from, to, w, h, S
<1>3. ASSUME NEW l \in R, NEW y PROVE cleared(l, y) \in R
  <2>1. first(l, y) \in R
    BY <1>1, KillsKeep
  <2> HIDE DEF first
  <2>2. both(l, y) \in R
    BY <1>1, <2>1, KillsKeep
  <2> HIDE DEF both
  <2>3. QED
    BY <1>1, <2>2, EraseKeeps
<1> HIDE DEF cleared, R
<1>4. ml \in [1 .. h -> R]
  BY <1>1, <1>3
<1> HIDE DEF ml
<1>5. Tuple(ml) \in [1 .. h -> R]
  BY <1>1, <1>4, TupleIs
<1>6. QED
  BY <1>1, <1>2, <1>5, RepagedKeeps DEF R, Page, h, w, S, v

\* So does writing a character that goes to the next line.
LEMMA WrapCharKeeps ==
  ASSUME NEW u, Win(u), NEW ch \in Characters, NEW y \in 0 .. u.height - 1
  PROVE  Keeps(u, MWrapChar(u, ch, y))
<1> DEFINE l == [u.ml[y + 1] EXCEPT !.soft = TRUE]
           soft == [u EXCEPT !.ml[y + 1].soft = TRUE]
           to == IF y # u.bot /\ y < u.height - 1 THEN y + 1 ELSE y
           v == IF y = u.bot THEN MScrollV(soft, 1, u.top, u.bot) ELSE soft
           z == IF u.insert THEN MInsChar(v, ch, 0, to) ELSE MPutChar(v, ch, 0, to)
<1>1. MWrapChar(u, ch, y) = z
  BY DEF MWrapChar, With
<1>2. to \in 0 .. u.height - 1 /\ 0 \in 0 .. u.width - 1
  BY DEF Win, Screen
<1>3. Keeps(u, soft)
  <2>1. l \in Row(u.width, Good(u.comb))
    BY LineIs DEF Row
  <2>2. soft = [u EXCEPT !.ml[y + 1] = l]
    OBVIOUS
  <2> HIDE DEF l, soft
  <2>3. QED
    BY <2>1, <2>2, LineKeeps
<1> HIDE DEF soft, to
<1>4. Win(soft) /\ soft.height = u.height /\ soft.width = u.width
  BY <1>3, RepagedSame DEF Keeps, Win
<1>5. Keeps(u, v)
  <2>1. u.top \in Nat /\ u.bot \in Nat /\ u.top <= u.bot /\ u.bot < soft.height
    BY <1>4 DEF Win, Margins
  <2>2. Keeps(soft, MScrollV(soft, 1, u.top, u.bot))
    BY <1>4, <2>1, ScrollVKeeps
  <2>3. QED
    BY <1>3, <2>2, RepagedTwice
<1> HIDE DEF v
<1>6. Win(v) /\ v.height = u.height /\ v.width = u.width
  BY <1>5, RepagedSame DEF Keeps, Win
<1>7. Keeps(v, z)
  BY <1>2, <1>6, PutCharKeeps, InsCharKeeps
<1> HIDE DEF z
<1>8. QED
  BY <1>1, <1>5, <1>7, RepagedTwice

-----------------------------------------------------------------------------
(* What is not text.                                                        *)

Cursor == {"x", "y"}
Bounds == {"top", "bot", "sx", "sy", "tabs"}
Flags == {"saved", "wrap", "insert", "origin", "interm", "osc"}
Parsed == {"state", "args", "slen", "decode"}

\* Only some fields are others.
Same(u, v, others) == DOMAIN v = Fields /\ \A f \in Fields \ others : v[f] = u[f]

\* A window stays one when its cursor, margins and parser are others.
LEMMA SameText ==
  ASSUME NEW u, Win(u), NEW v, Same(u, v, Cursor \union Bounds \union Flags \union Parsed),
         v.x \in 0 .. u.width, v.y \in 0 .. u.height - 1, Margins(v), Parser(v)
  PROVE  Win(v)
<1>1. /\ DOMAIN v = Fields /\ v.width = u.width /\ v.height = u.height
      /\ v.alt = u.alt /\ v.comb = u.comb /\ v.ml = u.ml /\ v.hist = u.hist
  BY DEF Same, Fields, Cursor, Bounds, Flags, Parsed
<1>2. Screen(v, Good(v.comb))
  BY <1>1 DEF Win, Screen
<1>3. QED
  BY <1>1, <1>2 DEF Win

\* A window stays one when only the cursor and flags are others.
LEMMA CursorKeeps ==
  ASSUME NEW u, Win(u), NEW v, Same(u, v, Cursor \union Flags), v.x \in 0 .. u.width, v.y \in 0 .. u.height - 1
  PROVE  Win(v)
<1>1. /\ v.width = u.width /\ v.height = u.height /\ v.top = u.top /\ v.bot = u.bot /\ v.sx = u.sx
      /\ v.sy = u.sy /\ v.tabs = u.tabs
      /\ v.state = u.state /\ v.args = u.args /\ v.slen = u.slen /\ v.decode = u.decode
  BY DEF Same, Fields, Cursor, Flags
<1>2. Margins(v) /\ Parser(v)
  BY <1>1 DEF Win, Margins, Parser
<1>3. Same(u, v, Cursor \union Bounds \union Flags \union Parsed)
  BY DEF Same
<1>4. QED
  BY <1>2, <1>3, SameText

\* The cursor may go to any place of the screen.
LEMMA AtKeeps ==
  ASSUME NEW u, Win(u), NEW x \in 0 .. u.width, NEW y \in 0 .. u.height - 1
  PROVE  Win(At(u, x, y))
<1> DEFINE v == At(u, x, y)
<1>1. Same(u, v, Cursor \union Flags) /\ v.x = x /\ v.y = y
  BY DEF Same, Fields, Win, Cursor, At
<1> HIDE DEF v
<1>2. Win(v)
  BY <1>1, CursorKeeps
<1>3. QED
  BY <1>2 DEF v

\* The cursor may go to any column of its line.
LEMMA XKeeps ==
  ASSUME NEW u, Win(u), NEW x \in 0 .. u.width
  PROVE  Win([u EXCEPT !.x = x])
<1> DEFINE v == [u EXCEPT !.x = x]
<1>1. Same(u, v, Cursor \union Flags) /\ v.x = x /\ v.y = u.y /\ u.y \in 0 .. u.height - 1
  BY DEF Same, Fields, Win, Cursor, Screen
<1> HIDE DEF v
<1>2. Win(v)
  BY <1>1, CursorKeeps
<1>3. QED
  BY <1>2 DEF v

\* Flags are of no importance here.
LEMMA FlagKeeps ==
  ASSUME NEW u, Win(u), NEW v, Same(u, v, Flags)
  PROVE  Win(v)
<1>1. v.x = u.x /\ v.y = u.y /\ u.x \in 0 .. u.width /\ u.y \in 0 .. u.height - 1
  BY DEF Same, Fields, Flags, Win, Screen
<1>2. Same(u, v, Cursor \union Flags)
  BY DEF Same
<1>3. QED
  BY <1>1, <1>2, CursorKeeps

\* A window stays one when only margins, the saved cursor and tabs are others.
LEMMA BoundsKeep ==
  ASSUME NEW u, Win(u), NEW v, Same(u, v, Bounds \union Flags), Margins(v)
  PROVE  Win(v)
<1>1. v.x = u.x /\ v.y = u.y /\ u.x \in 0 .. u.width /\ u.y \in 0 .. u.height - 1
  BY DEF Same, Fields, Bounds, Flags, Win, Screen
<1>2. v.state = u.state /\ v.args = u.args /\ v.slen = u.slen /\ v.decode = u.decode
  BY DEF Same, Fields, Bounds, Flags
<1>3. Parser(v)
  BY <1>2 DEF Win, Parser
<1>4. Same(u, v, Cursor \union Bounds \union Flags \union Parsed)
  BY DEF Same
<1>5. QED
  BY <1>1, <1>3, <1>4, SameText

\* A window stays one when only the state of the parser is another.
LEMMA ParserKeeps ==
  ASSUME NEW u, Win(u), NEW v, Same(u, v, Parsed \union Flags), Parser(v)
  PROVE  Win(v)
<1>1. v.x = u.x /\ v.y = u.y /\ u.x \in 0 .. u.width /\ u.y \in 0 .. u.height - 1
  BY DEF Same, Fields, Parsed, Flags, Win, Screen
<1>2. /\ v.width = u.width /\ v.height = u.height /\ v.top = u.top /\ v.bot = u.bot /\ v.sx = u.sx
      /\ v.sy = u.sy /\ v.tabs = u.tabs
  BY DEF Same, Fields, Parsed, Flags
<1>3. Margins(v)
  BY <1>2 DEF Win, Margins
<1>4. Same(u, v, Cursor \union Bounds \union Flags \union Parsed)
  BY DEF Same
<1>5. QED
  BY <1>1, <1>3, <1>4, SameText

-----------------------------------------------------------------------------
(* The operations on a window.                                              *)

\* The numbers that are compared.
LEMMA WinNumbers ==
  ASSUME NEW u, Win(u)
  PROVE  /\ u.width \in Nat /\ 2 <= u.width /\ u.height \in Nat /\ 1 <= u.height /\ DOMAIN u = Fields
         /\ u.x \in 0 .. u.width /\ u.y \in 0 .. u.height - 1
         /\ u.top \in Nat /\ u.bot \in Nat /\ u.top <= u.bot /\ u.bot < u.height
         /\ u.sx \in 0 .. u.width /\ u.sy \in 0 .. u.height - 1 /\ u.tabs \in SUBSET (0 .. u.width)
BY DEF Win, Screen, Margins

\* The saved cursor is a place on the screen.
LEMMA SaveRestoreKeep ==
  ASSUME NEW u, Win(u)
  PROVE  Win(SaveCursor(u)) /\ Win(RestoreCursor(u))
<1> DEFINE v == SaveCursor(u)
<1>0. DOMAIN u = Fields
  BY DEF Win
<1>1. Same(u, v, Bounds \union Flags) /\ v.sx = u.x /\ v.sy = u.y
  BY <1>0 DEF SaveCursor, Same, Fields, Bounds, Flags
<1>2. v.width = u.width /\ v.height = u.height /\ v.top = u.top /\ v.bot = u.bot /\ v.tabs = u.tabs
  BY <1>0 DEF SaveCursor, Fields
<1> HIDE DEF v
<1>3. Margins(v)
  BY <1>1, <1>2, WinNumbers DEF Margins
<1>4. Win(v)
  BY <1>1, <1>3, BoundsKeep
<1>5. Win(RestoreCursor(u))
  BY WinNumbers, AtKeeps DEF RestoreCursor
<1>6. QED
  BY <1>4, <1>5 DEF v

\* The cursor goes back by one, perhaps to the line above.
LEMMA BackSpaceKeeps ==
  ASSUME NEW u, Win(u)
  PROVE  Win(BackSpace(u))
<1>1. CASE u.x > 0
  BY <1>1, WinNumbers, AtKeeps DEF BackSpace
<1>2. CASE ~(u.x > 0) /\ u.wrap /\ u.y > 0
  <2>1. u.width - 1 \in 0 .. u.width /\ u.y - 1 \in 0 .. u.height - 1
    BY <1>2, WinNumbers
  <2>2. QED
    BY <1>2, <2>1, AtKeeps DEF BackSpace
<1>3. CASE ~(u.x > 0) /\ ~(u.wrap /\ u.y > 0)
  BY <1>3 DEF BackSpace
<1>4. QED
  BY <1>1, <1>2, <1>3

\* Scrolling what is between the margins.
LEMMA ScrollKeeps ==
  ASSUME NEW u, Win(u), NEW n \in Int
  PROVE  Keeps(u, MScrollV(u, n, u.top, u.bot))
BY WinNumbers, ScrollVKeeps

\* A line feed leaves the window a window of the same size.
LEMMA LineFeedKeeps ==
  ASSUME NEW u, Win(u), NEW cr
  PROVE  Win(LineFeed(u, cr)) /\ (cr => LineFeed(u, cr).x = 0)
         /\ LineFeed(u, cr).width = u.width /\ LineFeed(u, cr).height = u.height
<1> DEFINE v == IF cr THEN [u EXCEPT !.x = 0] ELSE u
           z == LineFeed(u, cr)
<1>1. Win(v) /\ v.width = u.width /\ v.height = u.height /\ (cr => v.x = 0)
  BY WinNumbers, XKeeps DEF Fields
<1>2. z = IF v.y # v.bot THEN At(v, v.x, Least(v.y + 1, v.height - 1)) ELSE MScrollV(v, 1, v.top, v.bot)
  BY DEF LineFeed
<1> HIDE DEF v, z
<1>3. CASE v.y # v.bot
  <2>1. Least(v.y + 1, v.height - 1) \in 0 .. v.height - 1
    BY <1>1, WinNumbers DEF Least
  <2>2. z = At(v, v.x, Least(v.y + 1, v.height - 1))
    BY <1>2, <1>3
  <2>3. Win(z)
    BY <1>1, <2>1, <2>2, WinNumbers, AtKeeps
  <2>4. z.x = v.x /\ z.width = v.width /\ z.height = v.height
    <3>1. DOMAIN v = Fields
      BY <1>1 DEF Win
    <3>2. QED
      BY <2>2, <3>1 DEF At, Fields
  <2>5. QED
    BY <1>1, <2>3, <2>4 DEF z
<1>4. CASE v.y = v.bot
  <2>1. z = MScrollV(v, 1, v.top, v.bot)
    BY <1>2, <1>4
  <2>2. Keeps(v, z)
    BY <1>1, <2>1, ScrollKeeps
  <2>3. QED
    BY <1>1, <2>2, RepagedSame DEF Keeps, Win, z
<1>5. QED
  BY <1>3, <1>4

\* The cursor goes up, down and left by any number, and stays on the screen.
LEMMA UpDownKeep ==
  ASSUME NEW u, Win(u), NEW n \in Nat
  PROVE  Win(CursorUp(u, n)) /\ Win(CursorDown(u, n)) /\ Win(CursorLeft(u, n))
<1>1. Most(u.y - n, IF u.y < u.top THEN 0 ELSE u.top) \in 0 .. u.height - 1
  BY WinNumbers DEF Most
<1>2. Least(u.y + n, IF u.y > u.bot THEN u.height - 1 ELSE u.bot) \in 0 .. u.height - 1
  BY WinNumbers DEF Least
<1>3. Most(u.x - n, 0) \in 0 .. u.width
  BY WinNumbers DEF Most
<1>4. QED
  BY <1>1, <1>2, <1>3, WinNumbers, AtKeeps DEF CursorUp, CursorDown, CursorLeft

\* The cursor after the last column goes to the next line.
LEMMA OffMarginKeeps ==
  ASSUME NEW u, Win(u)
  PROVE  Win(OffMargin(u))
BY LineFeedKeeps DEF OffMargin

\* The cursor goes right by any number.
LEMMA RightKeeps ==
  ASSUME NEW u, Win(u), NEW n \in Nat
  PROVE  Win(CursorRight(u, n))
<1> DEFINE v == OffMargin(u)
<1>1. Win(v)
  BY OffMarginKeeps
<1>2. CursorRight(u, n) = At(v, Least(v.x + n, v.width - 1), v.y)
  BY DEF CursorRight, With
<1> HIDE DEF v
<1>3. Least(v.x + n, v.width - 1) \in 0 .. v.width
  BY <1>1, WinNumbers DEF Least
<1>4. QED
  BY <1>1, <1>2, <1>3, WinNumbers, AtKeeps

\* The line feed in the other direction.
LEMMA ReverseKeeps ==
  ASSUME NEW u, Win(u)
  PROVE  Win(ReverseLineFeed(u))
BY ScrollKeeps, UpDownKeep DEF ReverseLineFeed, Keeps

\* The next tab stop and the one before are on the screen.
LEMMA TabsMove ==
  ASSUME NEW u, Win(u)
  PROVE  Win(NextStop(u)) /\ Win(BackwardTab(u))
<1>1. Win(NextStop(u))
  <2> DEFINE stops == {i \in u.tabs \union {u.width - 1} : i > u.x /\ i < u.width}
             s == CHOOSE i \in stops : \A j \in stops : i <= j
  <2>1. NextStop(u) = IF stops = {} THEN u ELSE At(u, s, u.y)
    BY DEF NextStop
  <2>2. stops \in SUBSET Nat /\ \A i \in stops : i \in 0 .. u.width
    BY WinNumbers
  <2> HIDE DEF stops
  <2>3. stops # {} => s \in stops
    BY <2>2, LeastNumber
  <2> HIDE DEF s
  <2>4. QED
    BY <2>1, <2>2, <2>3, WinNumbers, AtKeeps
<1>2. Win(BackwardTab(u))
  <2> DEFINE stops == {i \in u.tabs \union {0} : i < u.x}
             s == CHOOSE i \in stops : \A j \in stops : i >= j
             back == {u.x - i : i \in stops}
  <2>1. BackwardTab(u) = IF stops = {} THEN u ELSE At(u, s, u.y)
    BY DEF BackwardTab
  <2>2. stops \in SUBSET Nat /\ \A i \in stops : i \in 0 .. u.width /\ i < u.x
    BY WinNumbers
  <2> HIDE DEF stops
  <2>3. stops # {} => s \in stops
    <3> HAVE stops # {}
    <3>1. back \in SUBSET Nat /\ back # {}
      BY <2>2, WinNumbers
    <3>2. PICK m \in back : \A n \in back : m <= n
      BY <3>1, LeastNumber
    <3>3. PICK i \in stops : m = u.x - i
      BY <3>2
    <3>4. \A j \in stops : i >= j
      <4> TAKE j \in stops
      <4>1. u.x - i <= u.x - j
        BY <3>2, <3>3
      <4>2. QED
        BY <2>2, <4>1, WinNumbers
    <3>5. QED
      BY <3>4
  <2> HIDE DEF s
  <2>4. QED
    BY <2>1, <2>2, <2>3, WinNumbers, AtKeeps
<1>3. QED
  BY <1>1, <1>2

\* A tabulator.
LEMMA ForwardTabKeeps ==
  ASSUME NEW u, Win(u)
  PROVE  Win(ForwardTab(u))
BY OffMarginKeeps, TabsMove DEF ForwardTab

\* The cursor is placed, whatever the parameters are.
LEMMA GotoKeeps ==
  ASSUME NEW u, Win(u), NEW row \in Nat, NEW column \in Nat
  PROVE  Win(GotoPos(u, row, column)) /\ Win(Home(u))
<1>1. Least(Most(column, 1), u.width) - 1 \in 0 .. u.width
  BY WinNumbers DEF Least, Most
<1>2. Least(Most(row, 1) + (IF u.origin THEN u.top ELSE 0), u.height) - 1 \in 0 .. u.height - 1
  BY WinNumbers DEF Least, Most
<1>3. Win(GotoPos(u, row, column))
  BY <1>1, <1>2, AtKeeps DEF GotoPos
<1>4. 0 \in 0 .. u.width /\ (IF u.origin THEN u.top ELSE 0) \in 0 .. u.height - 1
  BY WinNumbers
<1>5. Win(Home(u))
  BY <1>4, AtKeeps DEF Home
<1>6. QED
  BY <1>3, <1>5

\* New margins are on the screen, the upper above the lower.
LEMMA SetMarginsKeeps ==
  ASSUME NEW u, Win(u), NEW a \in Nat, NEW b \in Nat
  PROVE  Win(SetMargins(u, a, b))
<1> DEFINE first == IF a = 0 THEN 1 ELSE a
           last == IF b = 0 THEN u.height ELSE b
           v == [u EXCEPT !.top = first - 1, !.bot = last - 1]
<1>1. SetMargins(u, a, b) = IF last > u.height \/ first >= last THEN u ELSE Home(v)
  BY DEF SetMargins
<1>2. first \in Nat /\ 1 <= first /\ last \in Nat
  BY WinNumbers
<1>3. ASSUME ~(last > u.height \/ first >= last) PROVE Win(v)
  <2> HIDE DEF first, last
  <2>1. Same(u, v, Bounds \union Flags) /\ v.top = first - 1 /\ v.bot = last - 1
    BY WinNumbers DEF Same, Fields, Bounds, Flags
  <2>2. v.width = u.width /\ v.height = u.height /\ v.sx = u.sx /\ v.sy = u.sy /\ v.tabs = u.tabs
    BY <2>1 DEF Same, Fields, Bounds, Flags
  <2> HIDE DEF v
  <2>3. Margins(v)
    BY <1>2, <1>3, <2>1, <2>2, WinNumbers DEF Margins
  <2>4. QED
    BY <2>1, <2>3, BoundsKeep
<1> HIDE DEF first, last, v
<1>4. QED
  BY <1>1, <1>3, GotoKeeps

\* Inserting and deleting characters and lines, and scrolling, by any number.
LEMMA EditsKeep ==
  ASSUME NEW u, Win(u), NEW n \in Int
  PROVE  /\ Win(InsertChar(u, n)) /\ Win(DeleteChar(u, n)) /\ Win(ScrollRegion(u, n))
         /\ Win(InsertLine(u, n)) /\ Win(DeleteLine(u, n))
<1>1. -n \in Int /\ Column(u) \in 0 .. u.width - 1 /\ u.y \in 0 .. u.height - 1
  BY WinNumbers DEF Column, Least
<1>2. Win(InsertChar(u, n)) /\ Win(DeleteChar(u, n))
  BY <1>1, ScrollHKeeps DEF InsertChar, DeleteChar, Keeps
<1>3. Win(ScrollRegion(u, n))
  BY ScrollKeeps DEF ScrollRegion, Keeps
<1>4. CASE InMargins(u)
  <2>1. u.y \in Nat /\ u.bot \in Nat /\ u.y <= u.bot /\ u.bot < u.height
    BY <1>4, WinNumbers DEF InMargins
  <2>2. Keeps(u, MScrollV(u, n, u.y, u.bot)) /\ Keeps(u, MScrollV(u, -n, u.y, u.bot))
    BY <1>1, <2>1, ScrollVKeeps
  <2>3. QED
    BY <1>2, <1>3, <2>2 DEF InsertLine, DeleteLine, Keeps
<1>5. CASE ~InMargins(u)
  BY <1>2, <1>3, <1>5 DEF InsertLine, DeleteLine
<1>6. QED
  BY <1>4, <1>5

\* Clearing the screen, a part of it, and a part of a line.
LEMMA ClearsKeep ==
  ASSUME NEW u, Win(u), NEW from \in Int, NEW to \in Int
  PROVE  /\ Win(ClearScreen(u)) /\ Win(ClearFromBOS(u)) /\ Win(ClearToEOS(u))
         /\ Win(ClearLineRegion(u, from, to))
<1>1. /\ u.height \in Nat /\ u.height - 1 \in Nat /\ u.x \in Int /\ u.width - 1 \in Int
      /\ 0 <= u.height - 1 /\ u.height - 1 < u.height
  BY WinNumbers
<1>2. Win(ClearScreen(u))
  BY <1>1, ScrollVKeeps DEF ClearScreen, Keeps
<1>3. QED
  BY <1>1, <1>2, ClearAreaKeeps DEF ClearFromBOS, ClearToEOS, ClearLineRegion, Keeps

\* The alignment test.
LEMMA FillKeeps ==
  ASSUME NEW u, Win(u)
  PROVE  Win(FillWithEs(u))
<1> DEFINE S == Good(u.comb)
           R == Row(u.width, S)
           cells == [j \in 1 .. u.width |-> "E"]
           l == [c |-> Tuple(cells), soft |-> FALSE]
           ml == [i \in DOMAIN u.ml |-> l]
           v == [u EXCEPT !.ml = Tuple(ml)]
<1>1. FillWithEs(u) = At(v, 0, 0)
  BY DEF FillWithEs
<1>2. u.ml \in [1 .. u.height -> R] /\ u.hist \in Seq(R) /\ "E" \in S /\ DOMAIN u = Fields
  BY GoodIs DEF Win, Screen, Page, Characters
<1>3. cells \in [1 .. u.width -> S]
  BY <1>2
<1>4. Tuple(cells) = cells
  BY <1>3, WinNumbers, TupleIs
<1>5. l \in R
  BY <1>3, <1>4 DEF Row
<1> HIDE DEF l, R
<1>6. ml \in [1 .. u.height -> R]
  BY <1>2, <1>5
<1>7. Tuple(ml) \in [1 .. u.height -> R]
  BY <1>6, WinNumbers, TupleIs
<1> HIDE DEF ml
<1>8. Repaged(u, v) /\ v.ml = Tuple(ml) /\ v.hist = u.hist
  BY <1>2 DEF Repaged, Fields
<1> HIDE DEF v, S
<1>9. Keeps(u, v)
  BY <1>2, <1>7, <1>8, RepagedKeeps DEF Page, R, S
<1>10. Win(v) /\ 0 \in 0 .. v.width /\ 0 \in 0 .. v.height - 1
  BY <1>9, WinNumbers DEF Keeps
<1>11. QED
  BY <1>1, <1>10, AtKeeps

\* The reset.
LEMMA ResetKeeps ==
  ASSUME NEW u, Win(u)
  PROVE  Win(ResetWindow(u))
<1> DEFINE tabs == DefaultTabs(u.width) \union (u.tabs \intersect {u.width})
           v == [u EXCEPT !.wrap = TRUE, !.origin = FALSE, !.insert = FALSE, !.saved = FALSE,
                          !.top = 0, !.bot = u.height - 1, !.state = "LIT", !.tabs = tabs]
<1>1. ResetWindow(u) = At(v, 0, 0)
  BY DEF ResetWindow
<1>2. tabs \in SUBSET (0 .. u.width) /\ DOMAIN u = Fields
  BY WinNumbers DEF DefaultTabs
<1> HIDE DEF tabs
<1>3. /\ DOMAIN v = Fields /\ v.top = 0 /\ v.bot = u.height - 1 /\ v.tabs = tabs /\ v.state = "LIT"
      /\ v.x = u.x /\ v.y = u.y /\ v.sx = u.sx /\ v.sy = u.sy /\ v.width = u.width /\ v.height = u.height
      /\ v.args = u.args /\ v.slen = u.slen /\ v.decode = u.decode
      /\ v.ml = u.ml /\ v.hist = u.hist /\ v.alt = u.alt /\ v.comb = u.comb
  BY <1>2 DEF Fields
<1>4. Same(u, v, Cursor \union Bounds \union Flags \union Parsed)
  BY <1>3 DEF Same, Fields, Cursor, Bounds, Flags, Parsed
<1> HIDE DEF v
<1>5. Margins(v)
  BY <1>2, <1>3, WinNumbers DEF Margins
<1>6. Parser(v)
  BY <1>3 DEF Win, Parser, States
<1>7. Win(v)
  BY <1>3, <1>4, <1>5, <1>6, WinNumbers, SameText
<1>8. 0 \in 0 .. v.width /\ 0 \in 0 .. v.height - 1
  BY <1>7, WinNumbers
<1>9. QED
  BY <1>1, <1>7, <1>8, AtKeeps

-----------------------------------------------------------------------------
(* Printing.                                                                *)

\* What is a screen with some cells is one with more.
LEMMA ScreenGrows ==
  ASSUME NEW S, NEW T, S \subseteq T
  PROVE  /\ \A w, h, ml, hist : Page(ml, hist, w, h, S) => Page(ml, hist, w, h, T)
         /\ \A a : Screen(a, S) => Screen(a, T)
         /\ \A a : Spare(a, S) => Spare(a, T)
<1>1. \A w : Row(w, S) \subseteq Row(w, T)
  BY DEF Row
<1>2. ASSUME NEW w, NEW h, NEW ml, NEW hist, Page(ml, hist, w, h, S) PROVE Page(ml, hist, w, h, T)
  <2>1. Row(w, S) \subseteq Row(w, T)
    BY <1>1
  <2>2. hist \in Seq(Row(w, T))
    BY <1>2, <2>1, SeqMonotonic DEF Page
  <2>3. QED
    BY <1>2, <2>1, <2>2 DEF Page
<1>3. \A a : Screen(a, S) => Screen(a, T)
  BY <1>2 DEF Screen
<1>4. QED
  BY <1>2, <1>3 DEF Spare

\* A mark: the cell before the cursor gets an entry of the table that is in use,
\* and every other cell keeps what it has.
LEMMA CombineKeeps ==
  ASSUME NEW u, Win(u), NEW c
  PROVE  Win(Combine(u, c))
<1> DEFINE y == IF u.x = 0 THEN Most(u.y - 1, 0) ELSE u.y
           before == IF u.x = 0 THEN u.width - 1 ELSE u.x - 1
           l == Line(u, y)
           x == IF IsRight(l, before) THEN before - 1 ELSE before
           c1 == l.c[x + 1]
           r == C!utf8_handle_comb(u.comb, c, c1)
           v == [u EXCEPT !.comb = r.table, !.ml[y + 1].c[x + 1] = r.cell]
           S == Good(u.comb)
           T == Good(r.table)
<1>1. Combine(u, c) = IF x < 0 THEN u ELSE v
  BY DEF Combine, With
<1>2. y \in 0 .. u.height - 1
  BY WinNumbers DEF Most
<1>3. before \in 0 .. u.width - 1
  BY WinNumbers
<1>4. l \in Row(u.width, S)
  BY <1>2, LineIs DEF Line
<1> HIDE DEF y, before, S, T
<1>5. ASSUME ~(x < 0) PROVE Win(v)
  <2>1. x + 1 \in 1 .. u.width
    BY <1>3, <1>5, WinNumbers
  <2> HIDE DEF x
  <2>2. c1 \in S
    BY <1>4, <2>1 DEF Row
  <2>3. C!InUse(u.comb, c1) /\ Table(u.comb)
    BY <2>2 DEF S, Good, Win
  <2> HIDE DEF c1
  <2>4. /\ Table(r.table) /\ C!InUse(r.table, r.cell)
        /\ \A i : C!InUse(u.comb, i) => C!InUse(r.table, i)
        /\ r.cell \in Entries \union Roots \union {Unknown}
    BY <2>3, CombiningKeepsTable
  <2> HIDE DEF r
  <2>5. S \subseteq T /\ r.cell \in T
    BY <2>4 DEF S, T, Good, Characters
  <2>6. DOMAIN u = Fields /\ Page(u.ml, u.hist, u.width, u.height, T) /\ Spare(u.alt, T)
    BY <2>5, ScreenGrows DEF Win, Screen, S
  <2> DEFINE l2 == [l EXCEPT !.c[x + 1] = r.cell]
             ml == [u.ml EXCEPT ![y + 1] = l2]
  <2>7. l2 \in Row(u.width, T)
    <3>1. l \in Row(u.width, T)
      <4>1. y + 1 \in 1 .. u.height
        BY <1>2, WinNumbers
      <4>2. QED
        BY <2>6, <4>1 DEF Page, Line
    <3>2. QED
      BY <2>5, <3>1 DEF Row
  <2>8. v = [u EXCEPT !.comb = r.table, !.ml = ml]
    BY DEF Line
  <2>9. ml \in [1 .. u.height -> Row(u.width, T)]
    BY <2>6, <2>7 DEF Page
  <2> HIDE DEF v, l2, ml
  <2>10. /\ DOMAIN v = Fields /\ v.top = u.top /\ v.bot = u.bot /\ v.tabs = u.tabs /\ v.state = u.state
         /\ v.x = u.x /\ v.y = u.y /\ v.sx = u.sx /\ v.sy = u.sy /\ v.width = u.width /\ v.height = u.height
         /\ v.args = u.args /\ v.slen = u.slen /\ v.decode = u.decode
         /\ v.ml = ml /\ v.hist = u.hist /\ v.alt = u.alt /\ v.comb = r.table
    BY <2>6, <2>8 DEF Fields
  <2>11. Screen(v, T)
    BY <2>6, <2>9, <2>10, WinNumbers DEF Screen, Page
  <2>12. Margins(v) /\ Parser(v)
    BY <2>10 DEF Win, Margins, Parser
  <2>13. QED
    BY <2>4, <2>6, <2>10, <2>11, <2>12 DEF Win, T
<1> HIDE DEF x, v
<1>6. QED
  BY <1>1, <1>5

\* Printing a character, in any column and after the last one.
LEMMA PutAtKeeps ==
  ASSUME NEW u, Win(u), NEW c \in Characters, NEW x \in 0 .. u.width
  PROVE  Win(PutAt(u, c, x))
<1> DEFINE last == u.width - 1
           down == u.y # u.bot /\ u.y # u.height - 1
           half == IF c \in Wide THEN 1 ELSE 0
           a == IF u.insert THEN MInsChar(u, c, x, u.y) ELSE MPutChar(u, c, x, u.y)
           b == MPutChar(u, c, x, u.y)
           d == MWrapChar(u, c, u.y)
<1>1. PutAt(u, c, x) = IF x < last THEN [a EXCEPT !.x = x + 1 + half]
                       ELSE IF x = last THEN [b EXCEPT !.x = IF u.wrap THEN x + 1 ELSE x]
                       ELSE [d EXCEPT !.x = 1 + half, !.y = IF down THEN u.y + 1 ELSE u.y]
  BY DEF PutAt
<1>2. u.y \in 0 .. u.height - 1 /\ half \in 0 .. 1
  BY WinNumbers
<1>3. CASE x < last
  <2>1. x \in 0 .. u.width - 1
    BY <1>3, WinNumbers
  <2>2. Keeps(u, a)
    BY <1>2, <2>1, InsCharKeeps, PutCharKeeps
  <2> HIDE DEF a, half
  <2>3. Win(a) /\ x + 1 + half \in 0 .. a.width
    BY <1>2, <1>3, <2>1, <2>2, WinNumbers, RepagedSame DEF Keeps
  <2>4. QED
    BY <1>1, <1>3, <2>3, XKeeps
<1>4. CASE x = last
  <2>1. Keeps(u, b)
    BY <1>2, PutCharKeeps
  <2> HIDE DEF b
  <2>2. Win(b) /\ (IF u.wrap THEN x + 1 ELSE x) \in 0 .. b.width
    BY <1>4, <2>1, WinNumbers, RepagedSame DEF Keeps
  <2>3. QED
    BY <1>1, <1>4, <2>2, XKeeps
<1>5. CASE ~(x < last \/ x = last)
  <2> DEFINE v == [d EXCEPT !.x = 1 + half, !.y = IF down THEN u.y + 1 ELSE u.y]
  <2>1. Keeps(u, d)
    BY <1>2, WrapCharKeeps
  <2> HIDE DEF d
  <2>2. Win(d) /\ d.width = u.width /\ d.height = u.height
    BY <2>1, WinNumbers, RepagedSame DEF Keeps
  <2>3. 1 + half \in 0 .. d.width /\ (IF down THEN u.y + 1 ELSE u.y) \in 0 .. d.height - 1
    BY <1>2, <2>2, WinNumbers
  <2> HIDE DEF half, down
  <2>4. v = At(d, 1 + half, IF down THEN u.y + 1 ELSE u.y)
    BY DEF At
  <2>5. Win(v)
    BY <2>2, <2>3, <2>4, AtKeeps
  <2>6. QED
    BY <1>1, <1>5, <2>5
<1>6. QED
  BY <1>3, <1>4, <1>5

\* Printing whatever is written.
LEMMA PutTextKeeps ==
  ASSUME NEW u, Win(u), NEW c \in Written
  PROVE  Win(PutText(u, c))
<1>1. PrintColumn(u, c) \in 0 .. u.width
  BY WinNumbers DEF PrintColumn
<1>2. c \in Characters
  BY DEF Characters
<1>3. QED
  BY <1>1, <1>2, PutAtKeeps, CombineKeeps DEF PutText

\* The control characters.
LEMMA SpecialKeeps ==
  ASSUME NEW u, Win(u), NEW c
  PROVE  Win(Special(u, c))
<1>1. 0 \in 0 .. u.width
  BY WinNumbers
<1>2. QED
  BY <1>1, BackSpaceKeeps, XKeeps, LineFeedKeeps, ForwardTabKeeps DEF Special

-----------------------------------------------------------------------------
(* A new size.                                                              *)

\* The row in which a line of text starts, and the one in which it ends.
LEMMA StartRowIs ==
  ASSUME NEW rows, NEW i \in Nat \ {0}
  PROVE  LET a == StartRow(rows, i)
         IN a \in 1 .. i /\ (a = 1 \/ ~rows[a - 1].soft) /\ \A j \in a .. i - 1 : rows[j].soft
<1> DEFINE Is(a) == (a = 1 \/ ~rows[a - 1].soft) /\ \A j \in a .. i - 1 : rows[j].soft
           Back == {d \in Nat : d < i /\ (d = i - 1 \/ ~rows[i - d - 1].soft)}
<1>1. PICK d \in Back : \A e \in Back : d <= e
  <2>1. i - 1 \in Back
    OBVIOUS
  <2>2. Back \in SUBSET Nat
    OBVIOUS
  <2> HIDE DEF Back
  <2>3. QED
    BY <2>1, <2>2, LeastNumber
<1>2. i - d \in 1 .. i /\ (i - d = 1 \/ ~rows[(i - d) - 1].soft)
  OBVIOUS
<1>3. ASSUME NEW j \in i - d .. i - 1 PROVE rows[j].soft
  <2>1. i - j - 1 \in Nat /\ i - j - 1 < d /\ i - (i - j - 1) - 1 = j
    OBVIOUS
  <2>2. i - j - 1 \notin Back
    BY <1>1, <2>1
  <2>3. QED
    BY <2>1, <2>2
<1>4. \E a \in 1 .. i : Is(a)
  BY <1>2, <1>3
<1>5. StartRow(rows, i) = CHOOSE a \in 1 .. i : Is(a)
  BY DEF StartRow
<1> HIDE DEF Is
<1>6. StartRow(rows, i) \in 1 .. i /\ Is(StartRow(rows, i))
  BY <1>4, <1>5
<1>7. QED
  BY <1>6 DEF Is

\* And the one in which it ends.
LEMMA EndRowIs ==
  ASSUME NEW rows, Len(rows) \in Nat, NEW i \in 1 .. Len(rows)
  PROVE  LET b == EndRow(rows, i)
         IN b \in i .. Len(rows) /\ (b = Len(rows) \/ ~rows[b].soft) /\ \A j \in i .. b - 1 : rows[j].soft
<1> DEFINE n == Len(rows)
           Is(b) == (b = n \/ ~rows[b].soft) /\ \A j \in i .. b - 1 : rows[j].soft
           Ends == {b \in Nat : b \in i .. n /\ (b = n \/ ~rows[b].soft)}
<1>0. n \in Nat /\ i \in 1 .. n /\ i \in Nat
  OBVIOUS
<1>1. PICK b \in Ends : \A e \in Ends : b <= e
  <2>1. n \in Ends
    BY <1>0
  <2>2. Ends \in SUBSET Nat
    OBVIOUS
  <2> HIDE DEF Ends
  <2>3. QED
    BY <2>1, <2>2, LeastNumber
<1> HIDE DEF n
<1>2. ASSUME NEW j \in i .. b - 1 PROVE rows[j].soft
  <2>1. j \in Nat /\ j \in i .. n /\ j < b /\ j # n
    BY <1>0
  <2>2. j \notin Ends
    BY <1>1, <2>1
  <2>3. QED
    BY <2>1, <2>2
<1>3. \E e \in i .. n : Is(e)
  BY <1>2
<1>4. EndRow(rows, i) = CHOOSE e \in i .. n : Is(e)
  BY DEF EndRow, n
<1> HIDE DEF Is
<1>5. EndRow(rows, i) \in i .. n /\ Is(EndRow(rows, i))
  BY <1>3, <1>4
<1>6. QED
  BY <1>5 DEF Is, n

\* How much of a row is text.
LEMMA InkLenIs ==
  ASSUME NEW S, NEW w \in Nat \ {0}, NEW c \in [1 .. w -> S]
  PROVE  InkLen(c) \in 1 .. w
<1> DEFINE Is(n) == (n = 1 \/ c[n] # Blank) /\ \A j \in n + 1 .. Len(c) : c[j] = Blank
           Back == {d \in Nat : d < w /\ (d = w - 1 \/ c[w - d] # Blank)}
<1>1. Len(c) = w /\ DOMAIN c = 1 .. w
  BY TupleIs
<1>2. PICK d \in Back : \A e \in Back : d <= e
  <2>1. w - 1 \in Back
    OBVIOUS
  <2>2. Back \in SUBSET Nat
    OBVIOUS
  <2> HIDE DEF Back
  <2>3. QED
    BY <2>1, <2>2, LeastNumber
<1>3. ASSUME NEW j \in w - d + 1 .. w PROVE c[j] = Blank
  <2>1. w - j \in Nat /\ w - j < d /\ w - (w - j) = j
    OBVIOUS
  <2>2. w - j \notin Back
    BY <1>2, <2>1
  <2>3. QED
    BY <2>1, <2>2
<1>4. \E n \in DOMAIN c : Is(n)
  <2>1. w - d \in 1 .. w /\ (w - d = 1 \/ c[w - d] # Blank)
    OBVIOUS
  <2>2. QED
    BY <1>1, <1>3, <2>1
<1>5. InkLen(c) = CHOOSE n \in DOMAIN c : Is(n)
  BY DEF InkLen
<1> HIDE DEF Is
<1>6. QED
  BY <1>1, <1>4, <1>5

-----------------------------------------------------------------------------
(* Sequences of sequences.  FlattenSeq is defined by a recursive function,  *)
(* which exists.                                                            *)

IsFlat(seqs, k, f) ==
  f = [i \in 1 .. k |-> IF i = 1 THEN seqs[i] ELSE f[i - 1] \o seqs[i]]

\* FlattenSeq is a recursive function: there is one.
LEMMA FlatExists ==
  ASSUME NEW seqs, NEW n \in Nat
  PROVE  \E f : IsFlat(seqs, n, f)
<1> DEFINE T == {k \in 0 .. n : \E f : IsFlat(seqs, k, f)}
<1>1. 0 \in T
  <2> DEFINE f == [i \in 1 .. 0 |-> seqs[i]]
  <2>1. \A i \in 1 .. 0 : f[i] = IF i = 1 THEN seqs[i] ELSE f[i - 1] \o seqs[i]
    OBVIOUS
  <2>2. f = [i \in 1 .. 0 |-> f[i]]
    OBVIOUS
  <2> HIDE DEF f
  <2>3. IsFlat(seqs, 0, f)
    BY <2>1, <2>2 DEF IsFlat
  <2>4. QED
    BY <2>3
<1>2. ASSUME NEW k \in 0 .. n - 1, k \in T PROVE k + 1 \in T
  <2>1. PICK g : IsFlat(seqs, k, g)
    BY <1>2
  <2> DEFINE f == [i \in 1 .. k + 1 |-> IF i = 1 THEN seqs[i] ELSE g[i - 1] \o seqs[i]]
  <2>2. \A i \in 1 .. k + 1 : f[i] = IF i = 1 THEN seqs[i] ELSE g[i - 1] \o seqs[i]
    OBVIOUS
  <2>3. \A i \in 1 .. k : g[i] = IF i = 1 THEN seqs[i] ELSE g[i - 1] \o seqs[i]
    BY <2>1 DEF IsFlat
  <2>4. f = [i \in 1 .. k + 1 |-> f[i]]
    OBVIOUS
  <2> HIDE DEF f
  <2>5. \A i \in 1 .. k : f[i] = g[i]
    BY <2>2, <2>3
  <2>6. \A i \in 1 .. k + 1 : f[i] = IF i = 1 THEN seqs[i] ELSE f[i - 1] \o seqs[i]
    <3> TAKE i \in 1 .. k + 1
    <3>1. CASE i = 1
      BY <2>2, <3>1
    <3>2. CASE i # 1
      <4>1. i - 1 \in 1 .. k
        BY <3>2
      <4>2. f[i - 1] = g[i - 1]
        BY <2>5, <4>1
      <4>3. QED
        BY <2>2, <3>2, <4>2
    <3>3. QED
      BY <3>1, <3>2
  <2>7. IsFlat(seqs, k + 1, f)
    BY <2>4, <2>6 DEF IsFlat
  <2>8. QED
    BY <2>7
<1> HIDE DEF T
<1>3. n \in T
  BY <1>1, <1>2, UpTo
<1>4. QED
  BY <1>3 DEF T

\* FlattenSeq concatenates one sequence after the other.
LEMMA FlattenIs ==
  ASSUME NEW seqs, NEW n \in Nat \ {0}, Len(seqs) = n
  PROVE  \E f : /\ f[1] = seqs[1] /\ \A i \in 2 .. n : f[i] = f[i - 1] \o seqs[i]
                /\ FlattenSeq(seqs) = f[n]
<1> DEFINE Body(h) == [i \in 1 .. Len(seqs) |-> IF i = 1 THEN seqs[i] ELSE h[i - 1] \o seqs[i]]
           f == CHOOSE h : h = Body(h)
<1>1. FlattenSeq(seqs) = f[n]
  BY DEF FlattenSeq
<1>2. \E h : h = Body(h)
  <2>1. PICK h : IsFlat(seqs, n, h)
    BY FlatExists
  <2>2. h = Body(h)
    BY <2>1 DEF IsFlat
  <2> HIDE DEF Body
  <2>3. QED
    BY <2>2
<1>3. f = Body(f)
  <2> HIDE DEF Body
  <2>1. QED
    BY <1>2
<1> HIDE DEF f
<1>4. \A i \in 1 .. n : f[i] = IF i = 1 THEN seqs[i] ELSE f[i - 1] \o seqs[i]
  BY <1>3
<1> HIDE DEF Body
<1>5. 1 \in 1 .. n /\ \A i \in 2 .. n : i \in 1 .. n /\ i # 1
  OBVIOUS
<1>6. f[1] = seqs[1]
  BY <1>4, <1>5
<1>7. \A i \in 2 .. n : f[i] = f[i - 1] \o seqs[i]
  BY <1>4, <1>5
<1>8. QED
  BY <1>1, <1>6, <1>7

\* What is summed up.
LEMMA SumIsAtLeast ==
  ASSUME NEW n \in Nat \ {0}, NEW a \in [1 .. n -> Nat], NEW b \in [1 .. n -> Nat],
         a[1] = b[1], \A k \in 2 .. n : a[k] = a[k - 1] + b[k],
         NEW m \in 0 .. n - 1, NEW w \in Nat, \A i \in 1 .. m : b[i] = w
  PROVE  m * w + b[m + 1] <= a[n]
<1>1. m = 0 \/ a[m] = m * w
  <2> DEFINE T == {k \in 0 .. m : k = 0 \/ a[k] = k * w}
  <2>1. 0 \in T
    OBVIOUS
  <2>2. ASSUME NEW k \in 0 .. m - 1, k \in T PROVE k + 1 \in T
    <3>1. CASE k = 0
      <4>1. 1 \in 1 .. m /\ 1 \in 1 .. n
        OBVIOUS
      <4>2. a[1] = 1 * w
        BY <4>1
      <4>3. QED
        BY <3>1, <4>1, <4>2
    <3>2. CASE k # 0
      <4>1. k + 1 \in 2 .. n /\ k + 1 \in 1 .. m /\ (k + 1) - 1 = k
        BY <3>2
      <4>2. a[k + 1] = a[k] + b[k + 1] /\ b[k + 1] = w /\ a[k] = k * w
        BY <2>2, <3>2, <4>1
      <4>3. (k + 1) * w = k * w + w
        OBVIOUS
      <4>4. QED
        BY <4>1, <4>2, <4>3
    <3>3. QED
      BY <3>1, <3>2
  <2> HIDE DEF T
  <2>3. m \in T
    BY <2>1, <2>2, UpTo
  <2>4. QED
    BY <2>3 DEF T
<1>2. a[m + 1] = m * w + b[m + 1]
  <2>1. CASE m = 0
    <3>1. m + 1 = 1 /\ m * w = 0 /\ 1 \in 1 .. n
      BY <2>1
    <3>2. QED
      BY <3>1
  <2>2. CASE m # 0
    <3>1. m + 1 \in 2 .. n /\ (m + 1) - 1 = m
      BY <2>2
    <3>2. QED
      BY <1>1, <2>2, <3>1
  <2>3. QED
    BY <2>1, <2>2
<1>3. a[m + 1] <= a[n]
  <2> DEFINE T == {k \in 0 .. n - m - 1 : a[m + 1] <= a[m + 1 + k]}
  <2>1. 0 \in T
    <3>1. m + 1 + 0 = m + 1 /\ m + 1 \in 1 .. n /\ 0 \in 0 .. n - m - 1
      OBVIOUS
    <3>2. a[m + 1] <= a[m + 1]
      BY <3>1
    <3>3. QED
      BY <3>1, <3>2
  <2>2. ASSUME NEW k \in 0 .. n - m - 2, k \in T PROVE k + 1 \in T
    <3>1. /\ m + 1 + (k + 1) \in 2 .. n /\ (m + 1 + (k + 1)) - 1 = m + 1 + k
          /\ m + 1 \in 1 .. n /\ m + 1 + k \in 1 .. n /\ m + 1 + (k + 1) \in 1 .. n
      OBVIOUS
    <3>2. a[m + 1 + (k + 1)] = a[m + 1 + k] + b[m + 1 + (k + 1)]
      BY <3>1
    <3>3. a[m + 1] <= a[m + 1 + k]
      BY <2>2
    <3>4. a[m + 1] \in Nat /\ a[m + 1 + k] \in Nat /\ b[m + 1 + (k + 1)] \in Nat
      BY <3>1
    <3>5. a[m + 1] <= a[m + 1 + (k + 1)]
      BY <3>2, <3>3, <3>4, SMTT(30)
    <3>6. QED
      BY <3>5
  <2> HIDE DEF T
  <2>3. n - m - 1 \in T
    <3>1. n - m - 1 \in Nat /\ (n - m - 1) - 1 = n - m - 2
      OBVIOUS
    <3>2. QED
      BY <2>1, <2>2, <3>1, UpTo
  <2>4. m + 1 + (n - m - 1) = n
    OBVIOUS
  <2>5. QED
    BY <2>3, <2>4 DEF T
<1>4. QED
  BY <1>2, <1>3

\* All of the sequences are in it, one after the other: it is as long as the first
\* m of them, which have the same length, and the next one at least.
LEMMA FlattenKeeps ==
  ASSUME NEW S, NEW seqs \in Seq(Seq(S))
  PROVE  /\ FlattenSeq(seqs) \in Seq(S)
         /\ \A m \in Nat, w \in Nat :
              m < Len(seqs) /\ (\A i \in 1 .. m : Len(seqs[i]) = w)
                => m * w + Len(seqs[m + 1]) <= Len(FlattenSeq(seqs))
<1> DEFINE n == Len(seqs)
<1>1. n \in Nat /\ \A i \in 1 .. n : seqs[i] \in Seq(S)
  BY LenProperties, ElementOfSeq
<1>2. CASE n = 0
  <2>1. seqs = <<>>
    BY <1>2, EmptySeq
  <2>2. FlattenSeq(seqs) = <<>>
    BY <1>2, <2>1 DEF FlattenSeq
  <2>3. QED
    BY <1>1, <1>2, <2>2, EmptySeq
<1>3. CASE n # 0
  <2>0. n \in Nat \ {0}
    BY <1>1, <1>3
  <2> HIDE DEF n
  <2>1. PICK f : /\ f[1] = seqs[1] /\ \A i \in 2 .. n : f[i] = f[i - 1] \o seqs[i]
                 /\ FlattenSeq(seqs) = f[n]
    BY <2>0, FlattenIs DEF n
  <2> DEFINE T == {k \in 0 .. n : k = 0 \/ f[k] \in Seq(S)}
  <2>2. ASSUME NEW k \in 0 .. n - 1, k \in T PROVE k + 1 \in T
    <3>1. CASE k = 0
      BY <1>1, <2>0, <2>1, <3>1
    <3>2. CASE k # 0
      <4>1. k + 1 \in 2 .. n /\ (k + 1) - 1 = k /\ k + 1 \in 1 .. n /\ k + 1 \in 0 .. n
        BY <2>0, <3>2
      <4>2. f[k + 1] = f[k] \o seqs[k + 1] /\ f[k] \in Seq(S) /\ seqs[k + 1] \in Seq(S)
        BY <1>1, <2>1, <2>2, <3>2, <4>1
      <4>3. f[k + 1] \in Seq(S)
        BY <4>2, TwoIs
      <4>4. QED
        BY <4>1, <4>3
    <3>3. QED
      BY <3>1, <3>2
  <2>3. \A k \in 1 .. n : f[k] \in Seq(S)
    <3> TAKE k \in 1 .. n
    <3>1. 0 \in T
      BY <2>0
    <3> HIDE DEF T
    <3>2. \A j \in 0 .. k - 1 : j \in T => j + 1 \in T
      BY <2>0, <2>2
    <3>3. k \in Nat
      OBVIOUS
    <3>4. k \in T
      BY <3>1, <3>2, <3>3, UpTo
    <3>5. QED
      BY <3>4 DEF T
  <2>4. \A k \in 2 .. n : /\ Len(f[k]) = Len(f[k - 1]) + Len(seqs[k])
                          /\ Len(f[k]) \in Nat /\ Len(f[k - 1]) \in Nat /\ Len(seqs[k]) \in Nat
    <3> TAKE k \in 2 .. n
    <3>1. k \in 1 .. n /\ k - 1 \in 1 .. n
      BY <2>0
    <3>2. f[k - 1] \in Seq(S) /\ seqs[k] \in Seq(S) /\ f[k] = f[k - 1] \o seqs[k]
      BY <1>1, <2>1, <2>3, <3>1
    <3>3. QED
      BY <3>2, TwoIs
  <2>5. ASSUME NEW m \in Nat, NEW w \in Nat, m < n, \A i \in 1 .. m : Len(seqs[i]) = w
        PROVE  m * w + Len(seqs[m + 1]) <= Len(f[n])
    <3> DEFINE a == [k \in 1 .. n |-> Len(f[k])]
               b == [k \in 1 .. n |-> Len(seqs[k])]
    <3>1. a \in [1 .. n -> Nat] /\ b \in [1 .. n -> Nat]
      BY <1>1, <2>3, LenProperties
    <3>2. 1 \in 1 .. n /\ n \in 1 .. n /\ m + 1 \in 1 .. n /\ m \in 0 .. n - 1
      BY <2>0, <2>5
    <3>3. a[1] = b[1] /\ a[n] = Len(f[n]) /\ b[m + 1] = Len(seqs[m + 1])
      BY <2>1, <3>2
    <3>4. \A k \in 2 .. n : a[k] = a[k - 1] + b[k]
      <4> TAKE k \in 2 .. n
      <4>1. k \in 1 .. n /\ k - 1 \in 1 .. n
        BY <2>0
      <4>2. QED
        BY <2>4, <4>1
    <3>5. \A i \in 1 .. m : b[i] = w
      BY <2>0, <2>5
    <3> HIDE DEF a, b
    <3>6. m * w + b[m + 1] <= a[n]
      BY <2>0, <3>1, <3>2, <3>3, <3>4, <3>5, SumIsAtLeast
    <3>7. QED
      BY <3>3, <3>6
  <2>6. \A m \in Nat, w \in Nat : m < n /\ (\A i \in 1 .. m : Len(seqs[i]) = w)
                                   => m * w + Len(seqs[m + 1]) <= Len(f[n])
    BY <2>5
  <2>7. f[n] \in Seq(S)
    BY <2>0, <2>3
  <2>8. QED
    BY <2>1, <2>6, <2>7 DEF n
<1>4. QED
  BY <1>2, <1>3

\* Starts folds this over the numbers of the rows.
Finds(rows, found, i) == IF i = 1 \/ ~rows[i - 1].soft THEN Append(found, i) ELSE found
St == INSTANCE ListProofs WITH op <- Finds

\* The first rows are found.
LEMMA StartsAre ==
  ASSUME NEW rows, NEW n \in Nat, DOMAIN rows = 1 .. n
  PROVE  /\ Starts(rows) \in Seq(1 .. n)
         /\ \A i \in 1 .. n : (i = 1 \/ ~rows[i - 1].soft) => i \in ToSet(Starts(rows))
         /\ n = 0 => Starts(rows) = <<>>
<1> DEFINE seq == [i \in 1 .. n |-> i]
           First(i) == i = 1 \/ ~rows[i - 1].soft
<1>1. Len(seq) = n /\ DOMAIN seq = 1 .. n
  <2>1. seq \in [1 .. n -> 1 .. n]
    OBVIOUS
  <2> HIDE DEF seq
  <2>2. QED
    BY <2>1, TupleIs
<1>2. St!Folded(rows, <<>>, seq) = Starts(rows)
  BY DEF St!Folded, Finds, St!FoldLeft, FoldLeft, Starts, St!MapThenFoldSet, MapThenFoldSet, St!Max, Max
<1>3. \A k \in 1 .. n : seq[k] = k
  OBVIOUS
<1> HIDE DEF seq
<1>0. Len(seq) \in Nat /\ DOMAIN seq = 1 .. Len(seq)
  BY <1>1
<1>4. PICK trail : /\ trail[0] = <<>>
                   /\ \A k \in 1 .. Len(seq) : trail[k] = Finds(rows, trail[k - 1], seq[k])
                   /\ trail[Len(seq)] = St!Folded(rows, <<>>, seq)
  BY <1>0, St!FoldLeftSteps
<1> DEFINE T == {k \in 0 .. n : trail[k] \in Seq(1 .. n) /\ \A i \in 1 .. k : First(i) => i \in ToSet(trail[k])}
<1>5. 0 \in T
  <2>1. trail[0] \in Seq(1 .. n)
    BY <1>4, EmptySeq
  <2>2. 0 \in 0 .. n /\ \A i \in 1 .. 0 : FALSE
    OBVIOUS
  <2> HIDE DEF First
  <2>3. QED
    BY <2>1, <2>2
<1>6. ASSUME NEW k \in 0 .. n - 1, k \in T PROVE k + 1 \in T
  <2>1. k + 1 \in 1 .. n /\ (k + 1) - 1 = k /\ k + 1 \in 0 .. n /\ \A i \in 1 .. k + 1 : i \in 1 .. k \/ i = k + 1
    OBVIOUS
  <2>2. trail[k + 1] = IF First(k + 1) THEN Append(trail[k], k + 1) ELSE trail[k]
    BY <1>1, <1>3, <1>4, <2>1 DEF Finds
  <2>3. trail[k] \in Seq(1 .. n) /\ \A i \in 1 .. k : First(i) => i \in ToSet(trail[k])
    BY <1>6
  <2> DEFINE z == Append(trail[k], k + 1)
  <2>4. z \in Seq(1 .. n) /\ ToSet(trail[k]) \subseteq ToSet(z) /\ k + 1 \in ToSet(z)
    <3> DEFINE s == trail[k]
    <3>0. s \in Seq(1 .. n) /\ k + 1 \in 1 .. n /\ Len(s) \in Nat /\ DOMAIN s = 1 .. Len(s)
      BY <2>1, <2>3, LenProperties
    <3>1. z = Append(s, k + 1)
      OBVIOUS
    <3> HIDE DEF s, z
    <3>2. /\ z \in Seq(1 .. n) /\ Len(z) = Len(s) + 1
          /\ \A i \in 1 .. Len(s) : z[i] = s[i]
          /\ z[Len(s) + 1] = k + 1
      BY <3>0, <3>1, AppendProperties
    <3>3. DOMAIN z = 1 .. Len(s) + 1
      BY <3>2, LenProperties
    <3>4. ToSet(s) \subseteq ToSet(z) /\ k + 1 \in ToSet(z)
      <4>1. Len(s) + 1 \in DOMAIN z /\ 1 .. Len(s) \subseteq DOMAIN z
        BY <3>0, <3>3
      <4>2. QED
        BY <3>0, <3>2, <4>1 DEF ToSet
    <3>5. QED
      BY <3>2, <3>4 DEF s
  <2> HIDE DEF z, First
  <2>5. CASE First(k + 1)
    <3>1. trail[k + 1] = z
      BY <2>2, <2>5 DEF z
    <3>2. QED
      BY <2>1, <2>3, <2>4, <3>1
  <2>6. CASE ~First(k + 1)
    <3>1. trail[k + 1] = trail[k]
      BY <2>2, <2>6
    <3>2. QED
      BY <2>1, <2>3, <2>6, <3>1
  <2>7. QED
    BY <2>5, <2>6
<1> HIDE DEF First
<1>7. n \in T
  <2> HIDE DEF T
  <2>1. QED
    BY <1>5, <1>6, UpTo
<1>8. trail[n] = Starts(rows)
  BY <1>1, <1>2, <1>4
<1>9. n = 0 => Starts(rows) = <<>>
  BY <1>4, <1>8
<1>10. QED
  BY <1>7, <1>8, <1>9 DEF First

\* The last rows of a screen and its scrollback, as many as they are said to be.
LEMMA LastRowsAre ==
  ASSUME NEW S, Blank \in S, NEW w \in Nat, NEW n \in Nat, NEW rows \in Seq(Row(w, S))
  PROVE  LastRows(rows, n, w) \in Seq(Row(w, S)) /\ Len(LastRows(rows, n, w)) = n
<1> DEFINE R == Row(w, S)
           a == BlankLines(Most(0, n - Len(rows)), w)
           skip == Most(0, Len(rows) - n)
           b == SubSeq(rows, skip + 1, Len(rows))
<1>1. Len(rows) \in Nat
  BY LenProperties
<1>2. Most(0, n - Len(rows)) \in Nat
  BY <1>1 DEF Most
<1>3. a \in Seq(R) /\ Len(a) = Most(0, n - Len(rows))
  BY <1>2, BlankLinesAre
<1>4. LastRows(rows, n, w) = a \o b
  BY DEF LastRows
<1>5. skip + 1 \in Nat \ {0} /\ skip <= Len(rows) /\ skip \in Nat
  BY <1>1 DEF Most
<1> HIDE DEF a, R, skip
<1>6. b \in Seq(R) /\ Len(b) = Len(rows) - skip
  BY <1>1, <1>5, PartIs DEF R
<1> HIDE DEF b
<1>7. a \o b \in Seq(R) /\ Len(a \o b) = Len(a) + Len(b)
  BY <1>3, <1>6, TwoIs DEF R
<1>8. Len(a) + Len(b) = n
  BY <1>1, <1>3, <1>6 DEF Most, skip
<1>9. QED
  BY <1>4, <1>7, <1>8 DEF R

\* All rows but the last ones.
LEMMA ButLastIs ==
  ASSUME NEW S, NEW rows \in Seq(S), NEW n \in Nat
  PROVE  ButLast(rows, n) \in Seq(S)
BY LenProperties, PartIs DEF ButLast

\* The rows of a line of text.
LEMMA WrapIs ==
  ASSUME NEW S, Blank \in S, NEW text \in Seq(S), NEW wi \in Nat \ {0}
  PROVE  /\ Wrap(text, wi) \in Seq(Row(wi, S))
         /\ Len(Wrap(text, wi)) = RowsNeeded(Len(text), wi)
         /\ \A q \in Nat : q < Len(text) => (q \div wi) + 1 <= RowsNeeded(Len(text), wi)
<1> DEFINE L == Len(text)
           n == RowsNeeded(L, wi)
           pad == Blanks(n * wi - L)
           full == text \o pad
           r(k) == [c |-> SubSeq(full, (k - 1) * wi + 1, k * wi), soft |-> k < n]
           rows == [k \in 1 .. n |-> r(k)]
<1>1. L \in Nat
  BY LenProperties
<1>2. Wrap(text, wi) = rows
  BY DEF Wrap
<1> HIDE DEF L
<1>3. n \in Nat /\ n * wi \in Nat /\ L <= n * wi
  BY <1>1 DEF RowsNeeded
<1>4. \A q \in Nat : q < L => (q \div wi) + 1 <= n
  BY <1>1 DEF RowsNeeded
<1> HIDE DEF n
<1>5. pad \in Seq(S) /\ Len(pad) = n * wi - L
  BY <1>1, <1>3, BlanksAre
<1> HIDE DEF pad
<1>6. full \in Seq(S) /\ Len(full) = n * wi
  BY <1>1, <1>3, <1>5, TwoIs DEF L
<1> HIDE DEF full
<1>7. ASSUME NEW k \in 1 .. n PROVE r(k) \in Row(wi, S)
  <2> DEFINE c == SubSeq(full, (k - 1) * wi + 1, k * wi)
  <2>0. (k - 1) * wi \in Nat /\ k * wi = (k - 1) * wi + wi /\ k * wi <= n * wi
    BY <1>3
  <2>1. /\ (k - 1) * wi + 1 \in Nat \ {0} /\ k * wi \in Nat
        /\ k * wi - ((k - 1) * wi + 1) + 1 = wi /\ (k - 1) * wi + 1 <= k * wi
    BY <2>0
  <2>2. c \in Seq(S) /\ Len(c) = wi
    BY <1>6, <2>0, <2>1, PartIs
  <2> HIDE DEF c
  <2>3. c \in [1 .. wi -> S]
    BY <2>2, SeqIs
  <2>4. QED
    BY <2>3 DEF Row, c
<1> HIDE DEF r
<1>8. rows \in [1 .. n -> Row(wi, S)]
  BY <1>7
<1> HIDE DEF rows
<1>9. rows \in Seq(Row(wi, S)) /\ Len(rows) = n
  BY <1>3, <1>8, TupleIs
<1>10. QED
  BY <1>2, <1>4, <1>9 DEF n, L

\* The rows of a window, and the cursor among them.
LEMMA RowsAre ==
  ASSUME NEW S, NEW u, Screen(u, S)
  PROVE  /\ Rows(u) \in Seq(Row(u.width, S)) /\ Len(u.hist) \in Nat
         /\ Len(Rows(u)) = Len(u.hist) + u.height /\ DOMAIN Rows(u) = 1 .. Len(Rows(u))
         /\ Len(Rows(u)) \in Nat /\ CursorRow(u) \in 1 .. Len(Rows(u)) /\ CursorColumn(u) \in 0 .. u.width - 1
         /\ \A i \in 1 .. Len(Rows(u)) : Rows(u)[i] \in Row(u.width, S)
<1> DEFINE R == Row(u.width, S)
<1>1. u.height \in Nat /\ u.ml \in [1 .. u.height -> R] /\ u.hist \in Seq(R)
  BY DEF Screen, Page
<1>2. u.ml \in Seq(R) /\ Len(u.ml) = u.height
  BY <1>1, TupleIs
<1> HIDE DEF R
<1>3. Rows(u) \in Seq(R) /\ Len(Rows(u)) = Len(u.hist) + Len(u.ml) /\ Len(u.hist) \in Nat
  BY <1>1, <1>2, TwoIs DEF Rows
<1>4. DOMAIN Rows(u) = 1 .. Len(Rows(u)) /\ Len(Rows(u)) \in Nat /\ \A i \in 1 .. Len(Rows(u)) : Rows(u)[i] \in R
  BY <1>3, LenProperties, ElementOfSeq
<1>5. CursorRow(u) \in 1 .. Len(u.hist) + u.height
  BY <1>3 DEF Screen, CursorRow
<1>6. CursorColumn(u) \in 0 .. u.width - 1
  BY DEF Screen, CursorColumn
<1>7. QED
  BY <1>2, <1>3, <1>4, <1>5, <1>6 DEF R

\* How much of a row is text.
LEMMA TextLenIs ==
  ASSUME NEW S, NEW u, Screen(u, S), NEW i \in 1 .. Len(Rows(u))
  PROVE  /\ TextLen(u, i) \in 0 .. u.width
         /\ Rows(u)[i].soft /\ i < Len(Rows(u)) => TextLen(u, i) = u.width
         /\ i = CursorRow(u) => CursorColumn(u) + 1 <= TextLen(u, i)
<1> DEFINE rows == Rows(u)
           ink == InkLen(rows[i].c)
           here == IF i = CursorRow(u) THEN CursorColumn(u) + 1 ELSE 0
<1>1. u.width \in Nat \ {0}
  BY DEF Screen
<1>2. rows[i] \in Row(u.width, S) /\ Len(rows) \in Nat /\ CursorColumn(u) \in 0 .. u.width - 1
  BY RowsAre
<1>3. ink \in 1 .. u.width
  <2>1. rows[i].c \in [1 .. u.width -> S]
    BY <1>2 DEF Row
  <2>2. QED
    BY <1>1, <2>1, InkLenIs
<1>4. TextLen(u, i) = IF i # EndRow(rows, i) THEN u.width ELSE Most(ink, here)
  BY DEF TextLen
<1>5. rows[i].soft /\ i < Len(rows) => EndRow(rows, i) # i
  BY <1>2, EndRowIs
<1>6. here \in 0 .. u.width /\ (i = CursorRow(u) => here = CursorColumn(u) + 1)
  BY <1>1, <1>2
<1> HIDE DEF rows, ink, here
<1>7. Most(ink, here) \in 0 .. u.width /\ here <= Most(ink, here) /\ here <= u.width
  BY <1>1, <1>3, <1>6 DEF Most
<1>8. TextLen(u, i) \in 0 .. u.width
  BY <1>1, <1>4, <1>7
<1>9. rows[i].soft /\ i < Len(rows) => TextLen(u, i) = u.width
  BY <1>4, <1>5
<1>10. i = CursorRow(u) => CursorColumn(u) + 1 <= TextLen(u, i)
  BY <1>2, <1>4, <1>6, <1>7
<1>11. QED
  BY <1>8, <1>9, <1>10 DEF rows

\* A line of text, and the pieces that the rows have of it.
Pieces(u, a) ==
  [i \in 1 .. EndRow(Rows(u), a) - a + 1 |-> SubSeq(Rows(u)[a + i - 1].c, 1, TextLen(u, a + i - 1))]

\* What a line of text is made of: one piece of each of its rows.
LEMMA PiecesAre ==
  ASSUME NEW S, NEW u, Screen(u, S), NEW a \in 1 .. Len(Rows(u))
  PROVE  /\ Pieces(u, a) \in Seq(Seq(S)) /\ Len(Pieces(u, a)) = EndRow(Rows(u), a) - a + 1
         /\ EndRow(Rows(u), a) \in a .. Len(Rows(u))
         /\ \A i \in 1 .. EndRow(Rows(u), a) - a + 1 : Len(Pieces(u, a)[i]) = TextLen(u, a + i - 1)
<1> DEFINE rows == Rows(u)
           b == EndRow(rows, a)
           n == b - a + 1
           piece(i) == SubSeq(rows[a + i - 1].c, 1, TextLen(u, a + i - 1))
           pieces == [i \in 1 .. n |-> piece(i)]
<1>1. Len(rows) \in Nat /\ u.width \in Nat
  BY RowsAre DEF Screen
<1>2. b \in a .. Len(rows)
  BY <1>1, EndRowIs
<1>3. n \in Nat /\ Pieces(u, a) = pieces
  BY <1>1, <1>2 DEF Pieces
<1> HIDE DEF b
<1>4. ASSUME NEW i \in 1 .. n PROVE piece(i) \in Seq(S) /\ Len(piece(i)) = TextLen(u, a + i - 1)
  <2>1. a + i - 1 \in 1 .. Len(rows)
    BY <1>1, <1>2
  <2>2. rows[a + i - 1] \in Row(u.width, S) /\ TextLen(u, a + i - 1) \in 0 .. u.width
    BY <2>1, RowsAre, TextLenIs
  <2> DEFINE c == rows[a + i - 1].c
             k == TextLen(u, a + i - 1)
  <2>3. c \in Seq(S) /\ Len(c) = u.width
    BY <1>1, <2>2, CellsAre
  <2>4. piece(i) = SubSeq(c, 1, k)
    OBVIOUS
  <2>5. k \in 0 .. u.width
    BY <2>2
  <2> HIDE DEF c, k, piece
  <2>6. SubSeq(c, 1, k) \in Seq(S) /\ Len(SubSeq(c, 1, k)) = k
    BY <1>1, <2>3, <2>5, PartIs
  <2>7. QED
    BY <2>4, <2>6 DEF k
<1> HIDE DEF piece
<1>5. pieces \in [1 .. n -> Seq(S)] /\ \A i \in 1 .. n : pieces[i] = piece(i)
  BY <1>4
<1> HIDE DEF pieces, n
<1>6. pieces \in Seq(Seq(S)) /\ Len(pieces) = n
  BY <1>3, <1>5, TupleIs
<1>7. QED
  BY <1>2, <1>3, <1>4, <1>5, <1>6 DEF n, b

\* A line of text is made of cells.
LEMMA TextIs ==
  ASSUME NEW S, NEW u, Screen(u, S), NEW a \in 1 .. Len(Rows(u))
  PROVE  Text(u, a) \in Seq(S)
<1>1. Text(u, a) = FlattenSeq(Pieces(u, a))
  BY DEF Text, Pieces
<1>2. QED
  BY <1>1, PiecesAre, FlattenKeeps

\* The cursor is in its line of text.
LEMMA OffsetIs ==
  ASSUME NEW S, NEW u, Screen(u, S)
  PROVE  LET a == StartRow(Rows(u), CursorRow(u))
         IN /\ a \in 1 .. Len(Rows(u)) /\ (a = 1 \/ ~Rows(u)[a - 1].soft)
            /\ Offset(u) \in Nat /\ Offset(u) < Len(Text(u, a))
<1> DEFINE rows == Rows(u)
           cy == CursorRow(u)
           a == StartRow(rows, cy)
           b == EndRow(rows, a)
           m == cy - a
           pieces == Pieces(u, a)
           w == u.width
<1>1. Len(rows) \in Nat /\ w \in Nat /\ cy \in 1 .. Len(rows) /\ CursorColumn(u) \in 0 .. w - 1
  BY RowsAre DEF Screen
<1>2. a \in 1 .. cy /\ (a = 1 \/ ~rows[a - 1].soft) /\ \A j \in a .. cy - 1 : rows[j].soft
  BY <1>1, StartRowIs
<1>3. Offset(u) = m * w + CursorColumn(u)
  BY DEF Offset
<1>4. Text(u, a) = FlattenSeq(pieces)
  BY DEF Text, Pieces
<1> HIDE DEF rows, cy, a
<1>5. a \in 1 .. Len(rows) /\ m \in Nat
  BY <1>1, <1>2
<1>6. /\ b \in a .. Len(rows) /\ (b = Len(rows) \/ ~rows[b].soft)
      /\ pieces \in Seq(Seq(S)) /\ Len(pieces) = b - a + 1
      /\ \A i \in 1 .. b - a + 1 : Len(pieces[i]) = TextLen(u, a + i - 1)
  BY <1>1, <1>5, EndRowIs, PiecesAre DEF rows
<1> HIDE DEF b, pieces
<1>7. cy <= b
  <2> SUFFICES ASSUME b < cy PROVE FALSE
    BY <1>1, <1>5, <1>6
  <2>1. b \in a .. cy - 1 /\ b # Len(rows)
    BY <1>1, <1>5, <1>6
  <2>2. QED
    BY <1>2, <1>6, <2>1
<1>8. \A i \in 1 .. m : Len(pieces[i]) = w
  <2> TAKE i \in 1 .. m
  <2>1. i \in 1 .. b - a + 1 /\ a + i - 1 \in a .. cy - 1 /\ a + i - 1 \in 1 .. Len(rows) /\ a + i - 1 < Len(rows)
    BY <1>1, <1>5, <1>6, <1>7
  <2>2. rows[a + i - 1].soft
    BY <1>2, <2>1
  <2>3. TextLen(u, a + i - 1) = w
    BY <2>1, <2>2, TextLenIs DEF rows
  <2>4. QED
    BY <1>6, <2>1, <2>3
<1>9. Len(pieces[m + 1]) >= CursorColumn(u) + 1 /\ Len(pieces[m + 1]) \in Nat
  <2>1. m + 1 \in 1 .. b - a + 1 /\ a + (m + 1) - 1 = cy
    BY <1>1, <1>5, <1>6, <1>7
  <2>2. Len(pieces[m + 1]) = TextLen(u, cy)
    BY <1>6, <2>1
  <2>3. TextLen(u, cy) \in 0 .. w /\ CursorColumn(u) + 1 <= TextLen(u, cy)
    BY <1>1, TextLenIs DEF rows, cy
  <2>4. QED
    BY <1>1, <2>2, <2>3
<1>10. m * w + Len(pieces[m + 1]) <= Len(Text(u, a)) /\ Len(Text(u, a)) \in Nat
  <2>1. m < Len(pieces)
    BY <1>1, <1>5, <1>6, <1>7
  <2> HIDE DEF m, w
  <2>2. m * w + Len(pieces[m + 1]) <= Len(FlattenSeq(pieces))
    BY <1>1, <1>5, <1>6, <1>8, <2>1, FlattenKeeps
  <2>3. Text(u, a) \in Seq(S)
    BY <1>5, TextIs DEF rows
  <2>4. QED
    BY <1>4, <2>2, <2>3, LenProperties
<1>11. m * w \in Nat
  BY <1>1, <1>5
<1> HIDE DEF m
<1>12. Offset(u) \in Nat /\ Offset(u) < Len(Text(u, a))
  BY <1>1, <1>3, <1>9, <1>10, <1>11, SMTT(30)
<1>13. QED
  BY <1>2, <1>5, <1>12 DEF rows, cy, a

\* What a screen of wi times he, with hi lines of scrollback, is made of.
NewScreen(v, wi, he, hi, S) ==
  /\ Page(v.ml, v.hist, wi, he, S) /\ Len(v.hist) = hi /\ v.x \in Nat /\ v.y \in Nat

\* The rows for it, cut in two.
LEMMA CutIs ==
  ASSUME NEW R, NEW hi \in Nat, NEW he \in Nat, NEW rows \in Seq(R), Len(rows) = hi + he
  PROVE  /\ SubSeq(rows, 1, hi) \in Seq(R) /\ Len(SubSeq(rows, 1, hi)) = hi
         /\ SubSeq(rows, hi + 1, hi + he) \in [1 .. he -> R]
<1>1. SubSeq(rows, 1, hi) \in Seq(R) /\ Len(SubSeq(rows, 1, hi)) = hi
  BY PartIs
<1> DEFINE lower == SubSeq(rows, hi + 1, hi + he)
<1>2. lower \in Seq(R) /\ Len(lower) = he
  BY PartIs
<1> HIDE DEF lower
<1>3. lower \in [1 .. he -> R]
  BY <1>2, SeqIs
<1>4. QED
  BY <1>1, <1>3 DEF lower

\* The rows for a window of the same width, and the cursor.
LEMMA KeepRowsIs ==
  ASSUME NEW S, Blank \in S, NEW u, Screen(u, S), NEW he \in Nat, he > 0, NEW hi \in Nat
  PROVE  NewScreen(KeepRows(u, u.width, he, hi), u.width, he, hi, S)
<1> DEFINE wi == u.width
           R == Row(wi, S)
           start == StartRow(Rows(u), CursorRow(u))
           above == Least(CursorRow(u) - start, he)
           ncy == u.y + he - u.height
           shift == Most(0, above - ncy)
           same == he = u.height
           old == IF same THEN u.hist ELSE Rows(u)
           n == IF same THEN hi ELSE hi + he
           rows == LastRows(ButLast(old, shift), n, wi)
           v == KeepRows(u, wi, he, hi)
<1>1. v = [hist |-> SubSeq(rows, 1, hi), ml |-> IF same THEN u.ml ELSE SubSeq(rows, hi + 1, hi + he),
           x |-> u.x, y |-> ncy + shift]
  BY DEF KeepRows, With
<1>2. /\ Rows(u) \in Seq(R) /\ CursorRow(u) \in Nat \ {0} /\ u.hist \in Seq(R) /\ u.ml \in [1 .. u.height -> R]
      /\ wi \in Nat /\ u.height \in Nat /\ u.x \in Nat /\ u.y \in Nat
  <2>1. /\ Rows(u) \in Seq(R) /\ CursorRow(u) \in 1 .. Len(Rows(u)) /\ Len(Rows(u)) \in Nat
    BY RowsAre
  <2>2. CursorRow(u) \in Nat \ {0}
    BY <2>1
  <2>3. QED
    BY <2>1, <2>2 DEF Screen, Page
<1>3. start \in 1 .. CursorRow(u)
  <2> DEFINE rows0 == Rows(u)
             row == CursorRow(u)
  <2> HIDE DEF rows0, row, R
  <2>1. StartRow(rows0, row) \in 1 .. row
    BY <1>2, StartRowIs DEF row
  <2>2. QED
    BY <2>1 DEF rows0, row
<1> HIDE DEF start
<1>4. above \in Nat /\ ncy \in Int
  BY <1>2, <1>3, SMTT(30) DEF Least
<1> HIDE DEF above
<1>5. shift \in Nat /\ ncy + shift \in Nat
  BY <1>4 DEF Most
<1> HIDE DEF shift, ncy
<1>6. old \in Seq(R) /\ n \in Nat
  BY <1>2
<1>7. ButLast(old, shift) \in Seq(R)
  BY <1>5, <1>6, ButLastIs
<1>8. rows \in Seq(R) /\ Len(rows) = n
  BY <1>2, <1>6, <1>7, LastRowsAre
<1> HIDE DEF rows, v, old
<1>9. CASE same
  <2>1. SubSeq(rows, 1, hi) \in Seq(R) /\ Len(SubSeq(rows, 1, hi)) = hi
    <3>1. rows \in Seq(R) /\ Len(rows) = hi + 0 /\ 0 \in Nat
      BY <1>8, <1>9
    <3> HIDE DEF R
    <3>2. QED
      BY <3>1, CutIs
  <2>2. v.ml = u.ml /\ v.hist = SubSeq(rows, 1, hi) /\ v.x = u.x /\ v.y = ncy + shift
    BY <1>1, <1>9
  <2>3. u.ml \in [1 .. he -> R]
    BY <1>2, <1>9
  <2> HIDE DEF R
  <2>4. QED
    BY <1>2, <1>5, <2>1, <2>2, <2>3 DEF NewScreen, Page, R, v
<1>10. CASE ~same
  <2>1. /\ SubSeq(rows, 1, hi) \in Seq(R) /\ Len(SubSeq(rows, 1, hi)) = hi
        /\ SubSeq(rows, hi + 1, hi + he) \in [1 .. he -> R]
    <3>1. rows \in Seq(R) /\ Len(rows) = hi + he
      BY <1>8, <1>10
    <3> HIDE DEF R
    <3>2. QED
      BY <3>1, CutIs
  <2>2. /\ v.ml = SubSeq(rows, hi + 1, hi + he) /\ v.hist = SubSeq(rows, 1, hi)
        /\ v.x = u.x /\ v.y = ncy + shift
    BY <1>1, <1>10
  <2> HIDE DEF R
  <2>3. QED
    BY <1>2, <1>5, <2>1, <2>2 DEF NewScreen, Page, R, v
<1>11. QED
  BY <1>9, <1>10

\* No screen: a window whose alternate screen has not been made.
Gone(u) == u.width = 0 /\ u.height = 0 /\ u.ml = <<>> /\ u.hist = <<>> /\ u.x = 0 /\ u.y = 0

\* What is wrapped has the new width.
LEMMA WrappedIs ==
  ASSUME NEW S, Blank \in S, NEW u, Screen(u, S) \/ Gone(u), NEW wi \in Nat \ {0}
  PROVE  LET w == Wrapped(u, wi)
             starts == Starts(Rows(u))
         IN /\ w \in Seq(Seq(Row(wi, S))) /\ starts \in Seq(Nat) /\ Len(w) = Len(starts)
            /\ Screen(u, S) => \A k \in 1 .. Len(w) :
                 /\ starts[k] \in 1 .. Len(Rows(u))
                 /\ Len(w[k]) = RowsNeeded(Len(Text(u, starts[k])), wi)
<1> DEFINE R == Row(wi, S)
           w == Wrapped(u, wi)
           starts == Starts(Rows(u))
           wrapped == [k \in DOMAIN starts |-> Wrap(Text(u, starts[k]), wi)]
<1>1. w = wrapped
  BY DEF Wrapped, With
<1>2. CASE Screen(u, S)
  <2>1. DOMAIN Rows(u) = 1 .. Len(Rows(u)) /\ Len(Rows(u)) \in Nat
    BY <1>2, RowsAre
  <2>2. starts \in Seq(1 .. Len(Rows(u)))
    BY <2>1, StartsAre
  <2> HIDE DEF starts
  <2>3. /\ Len(starts) \in Nat /\ DOMAIN starts = 1 .. Len(starts)
        /\ \A k \in 1 .. Len(starts) : starts[k] \in 1 .. Len(Rows(u))
    BY <2>2, LenProperties, ElementOfSeq
  <2>4. starts \in Seq(Nat)
    <3>1. 1 .. Len(Rows(u)) \subseteq Nat
      BY <2>1
    <3>2. QED
      BY <2>2, <3>1, SeqMonotonic
  <2>5. ASSUME NEW k \in 1 .. Len(starts)
        PROVE  /\ Wrap(Text(u, starts[k]), wi) \in Seq(R)
               /\ Len(Wrap(Text(u, starts[k]), wi)) = RowsNeeded(Len(Text(u, starts[k])), wi)
    <3>1. Text(u, starts[k]) \in Seq(S)
      BY <1>2, <2>3, TextIs
    <3>2. QED
      BY <3>1, WrapIs
  <2> HIDE DEF R
  <2>6. /\ wrapped \in [1 .. Len(starts) -> Seq(R)]
        /\ \A k \in 1 .. Len(starts) : wrapped[k] = Wrap(Text(u, starts[k]), wi)
    BY <2>3, <2>5
  <2> HIDE DEF wrapped
  <2>7. wrapped \in Seq(Seq(R)) /\ Len(wrapped) = Len(starts)
    BY <2>3, <2>6, TupleIs
  <2>8. QED
    BY <1>1, <2>3, <2>4, <2>5, <2>6, <2>7 DEF R, starts
<1>3. CASE Gone(u) /\ ~Screen(u, S)
  <2>1. Rows(u) = <<>>
    BY <1>3, ConcatEmptySeq, EmptySeq DEF Gone, Rows
  <2>2. DOMAIN (<<>>) = 1 .. 0
    OBVIOUS
  <2>3. starts = <<>>
    BY <2>1, <2>2, StartsAre
  <2> HIDE DEF starts, R
  <2>4. wrapped \in [1 .. 0 -> Seq(R)]
    BY <2>2, <2>3
  <2> HIDE DEF wrapped
  <2>5. wrapped \in Seq(Seq(R)) /\ Len(wrapped) = 0
    BY <2>4, TupleIs
  <2>6. starts \in Seq(Nat) /\ Len(starts) = 0
    BY <2>3, EmptySeq
  <2>7. QED
    BY <1>1, <1>3, <2>5, <2>6 DEF R, starts
<1>4. QED
  BY <1>2, <1>3

\* The rows from the cursor's line on reach the cursor.
LEMMA BelowIs ==
  ASSUME NEW S, Blank \in S, NEW u, Screen(u, S), NEW wi \in Nat \ {0}
  PROVE  LET starts == Starts(Rows(u))
             w == Wrapped(u, wi)
             at == CHOOSE k \in DOMAIN starts : starts[k] = StartRow(Rows(u), CursorRow(u))
         IN Len(FlattenSeq(SubSeq(w, at, Len(w)))) - (Offset(u) \div wi + 1) \in Nat
<1> DEFINE R == Row(wi, S)
           rows == Rows(u)
           starts == Starts(rows)
           w == Wrapped(u, wi)
           a == StartRow(rows, CursorRow(u))
           at == CHOOSE k \in DOMAIN starts : starts[k] = a
           rest == SubSeq(w, at, Len(w))
<1>1. /\ w \in Seq(Seq(R)) /\ starts \in Seq(Nat) /\ Len(w) = Len(starts)
      /\ \A k \in 1 .. Len(w) : Len(w[k]) = RowsNeeded(Len(Text(u, starts[k])), wi)
  BY WrappedIs
<1>2. /\ a \in 1 .. Len(rows) /\ (a = 1 \/ ~rows[a - 1].soft)
      /\ Offset(u) \in Nat /\ Offset(u) < Len(Text(u, a))
  BY OffsetIs
<1>3. Len(rows) \in Nat /\ DOMAIN rows = 1 .. Len(rows)
  BY RowsAre
<1>4. a \in ToSet(starts)
  BY <1>2, <1>3, StartsAre
<1> HIDE DEF rows, starts, w, a, R
<1>5. DOMAIN starts = 1 .. Len(starts) /\ Len(starts) \in Nat
  BY <1>1, LenProperties
<1>6. at \in 1 .. Len(w) /\ starts[at] = a
  <2>1. \E k \in DOMAIN starts : starts[k] = a
    BY <1>4 DEF ToSet
  <2>2. QED
    BY <1>1, <1>5, <2>1
<1> HIDE DEF at
<1>7. rest \in Seq(Seq(R)) /\ Len(rest) = Len(w) - at + 1 /\ rest[1] = w[at]
  <2>1. /\ rest \in Seq(Seq(R)) /\ Len(rest) = Len(w) - at + 1
        /\ \A i \in 1 .. Len(w) - at + 1 : rest[i] = w[at + i - 1]
    <3> DEFINE n == Len(w)
    <3>1. n \in Int /\ at \in Nat \ {0} /\ at <= n
      BY <1>1, <1>5, <1>6
    <3> DEFINE T == Seq(R)
    <3>2. w \in Seq(T) /\ n <= Len(w)
      BY <1>1, <3>1
    <3> HIDE DEF n, T
    <3>3. /\ SubSeq(w, at, n) \in Seq(T) /\ Len(SubSeq(w, at, n)) = n - at + 1
          /\ \A i \in 1 .. n - at + 1 : SubSeq(w, at, n)[i] = w[at + i - 1]
      BY <3>1, <3>2, PartIs
    <3>4. QED
      BY <3>3 DEF n, T
  <2>2. 1 \in 1 .. Len(w) - at + 1 /\ at + 1 - 1 = at
    BY <1>1, <1>5, <1>6
  <2>3. QED
    BY <2>1, <2>2
<1> HIDE DEF rest
<1>8. Len(rest[1]) <= Len(FlattenSeq(rest)) /\ Len(FlattenSeq(rest)) \in Nat /\ Len(rest[1]) \in Nat
  <2>1. 0 < Len(rest) /\ 1 \in 1 .. Len(rest)
    BY <1>1, <1>5, <1>6, <1>7
  <2>2. FlattenSeq(rest) \in Seq(R) /\ rest[1] \in Seq(R)
    BY <1>7, <2>1, FlattenKeeps, ElementOfSeq
  <2>3. Len(FlattenSeq(rest)) \in Nat /\ Len(rest[1]) \in Nat
    BY <2>2, LenProperties
  <2>4. 0 * 0 + Len(rest[0 + 1]) <= Len(FlattenSeq(rest))
    <3>1. \A i \in 1 .. 0 : Len(rest[i]) = 0
      OBVIOUS
    <3>2. QED
      BY <1>7, <2>1, <3>1, FlattenKeeps
  <2>5. 0 + 1 = 1
    OBVIOUS
  <2>6. QED
    BY <2>3, <2>4, <2>5
<1>9. Offset(u) \div wi + 1 <= Len(rest[1])
  <2>1. Len(rest[1]) = RowsNeeded(Len(Text(u, a)), wi)
    BY <1>1, <1>6, <1>7
  <2>2. Text(u, a) \in Seq(S)
    BY <1>2, TextIs DEF rows
  <2> DEFINE text == Text(u, a)
             q == Offset(u)
  <2> HIDE DEF text, q
  <2>3. q \in Nat /\ q < Len(text) /\ text \in Seq(S)
    BY <1>2, <2>2 DEF text, q
  <2>4. (q \div wi) + 1 <= RowsNeeded(Len(text), wi)
    BY <2>3, WrapIs
  <2>5. QED
    BY <2>1, <2>4 DEF text, q
<1>10. Offset(u) \div wi \in Nat
  BY <1>2
<1>11. Len(FlattenSeq(rest)) - (Offset(u) \div wi + 1) \in Nat
  BY <1>8, <1>9, <1>10
<1>12. QED
  BY <1>11 DEF rest, w, at, starts, rows, a

\* The rows of a window of the new width, and the cursor among them.
LEMMA PlacedIs ==
  ASSUME NEW S, Blank \in S, NEW wi \in Nat \ {0}, NEW he \in Nat, he > 0, NEW hi \in Nat,
         NEW u, NEW all \in Seq(Row(wi, S)), NEW below,
         u.width = 0 \/ (Screen(u, S) /\ below \in Nat)
  PROVE  NewScreen(Placed(u, wi, he, hi, all, below), wi, he, hi, S)
<1> DEFINE R == Row(wi, S)
           q == Offset(u)
           ncy == he - 1 - below
           shift == Least(Most(0, q \div wi - ncy), below)
           copied == u.width # 0 /\ below < hi + he
           kept == IF copied THEN ButLast(all, shift) ELSE all
           n == hi + he
           rows == LastRows(kept, n, wi)
           v == Placed(u, wi, he, hi, all, below)
           x == IF copied THEN (q % wi) + u.x - CursorColumn(u) ELSE 0
           y == IF copied THEN ncy + shift ELSE 0
<1>1. v.hist = SubSeq(rows, 1, hi) /\ v.ml = SubSeq(rows, hi + 1, hi + he) /\ v.x = x /\ v.y = y
  BY DEF Placed, Shift, With
<1>2. ASSUME copied
      PROVE  /\ q \in Nat /\ below \in Nat /\ u.x \in 0 .. u.width /\ u.width \in Nat
             /\ CursorColumn(u) = IF u.x = u.width THEN u.x - 1 ELSE u.x
  <2>1. Screen(u, S) /\ below \in Nat
    BY <1>2
  <2>2. q \in Nat
    BY <2>1, OffsetIs
  <2>3. QED
    BY <2>1, <2>2 DEF Screen, CursorColumn
<1> HIDE DEF q
<1>3. ASSUME copied PROVE shift \in Nat /\ ncy + shift \in Nat
  <2> DEFINE d == q \div wi
  <2>1. d \in Nat /\ below \in Nat
    BY <1>2, <1>3
  <2> HIDE DEF d
  <2>2. Least(Most(0, d - ncy), below) \in Nat /\ ncy + Least(Most(0, d - ncy), below) \in Nat
    BY <2>1 DEF Least, Most
  <2>3. QED
    BY <2>2 DEF d
<1> HIDE DEF shift
<1>4. kept \in Seq(R)
  <2>1. CASE copied
    <3>1. shift \in Nat
      BY <1>3, <2>1
    <3> HIDE DEF copied, R
    <3>2. ButLast(all, shift) \in Seq(R)
      BY <3>1, ButLastIs DEF R
    <3>3. QED
      BY <2>1, <3>2
  <2>2. CASE ~copied
    BY <2>2
  <2>3. QED
    BY <2>1, <2>2
<1> HIDE DEF kept
<1>5. n \in Nat /\ wi \in Nat
  OBVIOUS
<1>6. rows \in Seq(R) /\ Len(rows) = n
  <2> HIDE DEF n
  <2>1. QED
    BY <1>4, <1>5, LastRowsAre
<1> HIDE DEF rows, R
<1>7. /\ SubSeq(rows, 1, hi) \in Seq(R) /\ Len(SubSeq(rows, 1, hi)) = hi
      /\ SubSeq(rows, hi + 1, hi + he) \in [1 .. he -> R]
  BY <1>6, CutIs
<1>8. x \in Nat
  <2>1. CASE copied
    <3>1. q % wi \in Nat
      BY <1>2, <2>1
    <3> HIDE DEF copied
    <3>2. QED
      BY <1>2, <2>1, <3>1
  <2>2. CASE ~copied
    BY <2>2
  <2>3. QED
    BY <2>1, <2>2
<1>9. y \in Nat
  <2> HIDE DEF copied
  <2>1. QED
    BY <1>3
<1> HIDE DEF x, y, v
<1>10. QED
  BY <1>1, <1>7, <1>8, <1>9 DEF NewScreen, Page, R, v

\* A line broken in two is still made of rows.
LEMMA BrokenIs ==
  ASSUME NEW S, NEW wi \in Nat, NEW rows \in Seq(Row(wi, S)), NEW cursor, NEW shift
  PROVE  BrokenAt(rows, cursor, shift) \in Seq(Row(wi, S))
<1> DEFINE R == Row(wi, S)
           broken == BrokenAt(rows, cursor, shift)
<1>1. Len(rows) \in Nat /\ DOMAIN rows = 1 .. Len(rows) /\ \A k \in 1 .. Len(rows) : rows[k] \in R
  BY LenProperties, ElementOfSeq
<1>2. ASSUME NEW r \in R, NEW b PROVE [r EXCEPT !.soft = @ /\ b] \in R
  BY <1>2 DEF Row
<1> HIDE DEF R
<1>3. broken \in [1 .. Len(rows) -> R]
  BY <1>1, <1>2 DEF BrokenAt
<1> HIDE DEF broken
<1>4. broken \in Seq(R)
  BY <1>1, <1>3, TupleIs
<1>5. QED
  BY <1>4 DEF broken, R

\* The text of a window, wrapped to a new width, is a screen of that size.
LEMMA RewrapIs ==
  ASSUME NEW S, Blank \in S, NEW wi \in Nat \ {0}, NEW he \in Nat, he > 0, NEW hi \in Nat,
         NEW u, Screen(u, S) \/ Gone(u)
  PROVE  NewScreen(Rewrap(u, wi, he, hi), wi, he, hi, S)
<1> DEFINE w == Wrapped(u, wi)
           starts == Starts(Rows(u))
           at == CHOOSE k \in DOMAIN starts : starts[k] = StartRow(Rows(u), CursorRow(u))
           row == Offset(u) \div wi + 1
           below == Len(FlattenSeq(SubSeq(w, at, Len(w)))) - row
           shift == Shift(u, wi, he, below)
           broken == [k \in DOMAIN w |-> IF k = at THEN BrokenAt(w[k], row, shift) ELSE w[k]]
           all == FlattenSeq(broken)
<1>1. Rewrap(u, wi, he, hi) = Placed(u, wi, he, hi, all, below)
  BY DEF Rewrap, With
<1>2. all \in Seq(Row(wi, S))
  <2> DEFINE R == Row(wi, S)
  <2>1. w \in Seq(Seq(R))
    BY WrappedIs
  <2> HIDE DEF w, at, row, shift, R
  <2>2. /\ Len(w) \in Nat /\ DOMAIN w = 1 .. Len(w)
        /\ \A k \in 1 .. Len(w) : w[k] \in Seq(R)
    BY <2>1, LenProperties, ElementOfSeq
  <2>3. \A k \in 1 .. Len(w) : BrokenAt(w[k], row, shift) \in Seq(R)
    BY <2>2, BrokenIs DEF R
  <2>4. broken \in [1 .. Len(w) -> Seq(R)]
    BY <2>2, <2>3
  <2> HIDE DEF broken
  <2>5. broken \in Seq(Seq(R))
    BY <2>2, <2>4, TupleIs
  <2>6. QED
    BY <2>5, FlattenKeeps DEF R
<1>3. Screen(u, S) => below \in Nat
  BY BelowIs
<1>4. Gone(u) => u.width = 0
  BY DEF Gone
<1> HIDE DEF all, below
<1>5. QED
  BY <1>1, <1>2, <1>3, <1>4, PlacedIs

Sized == {"ml", "hist", "width", "height", "x", "y", "top", "bot", "sx", "sy", "tabs"}

\* A window gets another size; the one it had may be no screen yet.
LEMMA ChangeIs ==
  ASSUME NEW S, Blank \in S, NEW wi \in Nat, 2 <= wi, NEW he \in Nat, 1 <= he, NEW hi \in Nat,
         NEW u, DOMAIN u = Fields, Screen(u, S) \/ Gone(u), u.sx \in Nat, u.sy \in Nat,
         u.tabs \in SUBSET Nat, wi = u.width => u.tabs \in SUBSET (0 .. wi),
         wi = u.width /\ he = u.height => Margins(u)
  PROVE  LET v == ChangeWindowSize(u, wi, he, hi)
         IN /\ Screen(v, S) /\ Margins(v) /\ v.width = wi /\ v.height = he
            /\ DOMAIN v = Fields /\ \A f \in Fields \ Sized : v[f] = u[f]
<1> DEFINE new == IF wi = u.width THEN KeepRows(u, wi, he, hi) ELSE Rewrap(u, wi, he, hi)
           tabs == TabsAfter(u, wi)
           v == ChangeWindowSize(u, wi, he, hi)
           same == wi = u.width /\ he = u.height /\ hi = Len(u.hist)
<1>1. CASE same
  <2>1. v = u
    BY <1>1 DEF ChangeWindowSize
  <2>2. Screen(u, S)
    BY <1>1 DEF Gone
  <2>3. QED
    BY <1>1, <2>1, <2>2
<1>2. CASE ~same
  <2>1. v = [u EXCEPT !.hist = new.hist, !.ml = new.ml, !.width = wi, !.height = he,
                      !.x = Least(new.x, wi), !.y = Least(new.y, he - 1),
                      !.sx = Least(u.sx, wi), !.sy = Least(Most(0, u.sy + new.y - u.y), he - 1),
                      !.top = 0, !.bot = he - 1, !.tabs = tabs]
    BY <1>2 DEF ChangeWindowSize, With
  <2>2. wi \in Nat \ {0} /\ he > 0
    OBVIOUS
  <2>3. NewScreen(new, wi, he, hi, S)
    <3>1. CASE wi = u.width
      <4>1. Screen(u, S)
        BY <2>2, <3>1 DEF Gone
      <4>2. NewScreen(KeepRows(u, u.width, he, hi), u.width, he, hi, S)
        BY <2>2, <4>1, KeepRowsIs
      <4>3. QED
        BY <3>1, <4>2
    <3>2. CASE wi # u.width
      BY <2>2, <3>2, RewrapIs
    <3>3. QED
      BY <3>1, <3>2
  <2> HIDE DEF new
  <2>4. u.width \in Nat /\ u.y \in Nat
    BY DEF Screen, Gone
  <2>5. tabs \in SUBSET (0 .. wi)
    BY <2>4 DEF TabsAfter, Least
  <2> HIDE DEF tabs, v
  <2>6. /\ DOMAIN v = Fields /\ v.hist = new.hist /\ v.ml = new.ml /\ v.width = wi /\ v.height = he
        /\ v.x = Least(new.x, wi) /\ v.y = Least(new.y, he - 1)
        /\ v.sx = Least(u.sx, wi) /\ v.sy = Least(Most(0, u.sy + new.y - u.y), he - 1)
        /\ v.top = 0 /\ v.bot = he - 1 /\ v.tabs = tabs
    BY <2>1 DEF Fields
  <2>7. \A f \in Fields \ Sized : v[f] = u[f]
    BY <2>1 DEF Fields, Sized
  <2>8. new.x \in Nat /\ new.y \in Nat /\ Page(new.ml, new.hist, wi, he, S)
    BY <2>3 DEF NewScreen
  <2> DEFINE ny == new.y
             nx == new.x
  <2> HIDE DEF ny, nx
  <2>9. Least(nx, wi) \in 0 .. wi /\ Least(ny, he - 1) \in 0 .. he - 1
    BY <2>8 DEF Least, nx, ny
  <2>10. Least(u.sx, wi) \in 0 .. wi /\ Least(Most(0, u.sy + ny - u.y), he - 1) \in 0 .. he - 1
    BY <2>4, <2>8 DEF Least, Most, ny
  <2>11. Screen(v, S)
    BY <2>6, <2>8, <2>9 DEF Screen, nx, ny
  <2>12. Margins(v)
    BY <2>5, <2>6, <2>10 DEF Margins, ny
  <2>13. QED
    BY <2>6, <2>7, <2>11, <2>12 DEF v
<1>3. QED
  BY <1>1, <1>2

\* What is outside of the text, in two windows.
Rest(u, v) == v.comb = u.comb /\ v.state = u.state /\ v.slen = u.slen /\ v.args = u.args /\ v.decode = u.decode

\* The parser and the table of one that has only another text.
LEMMA RestKeeps ==
  ASSUME NEW u, Win(u), NEW v, Rest(u, v)
  PROVE  Parser(v) /\ Table(v.comb)
BY DEF Win, Rest, Parser

\* A window that gets another size or scrollback stays a window.
LEMMA ResizeKeeps ==
  ASSUME NEW u, Win(u), NEW wi \in Nat, 2 <= wi, NEW he \in Nat, 1 <= he, NEW hi \in Nat
  PROVE  Win(ChangeWindowSize(u, wi, he, hi))
<1> DEFINE S == Good(u.comb)
           v == ChangeWindowSize(u, wi, he, hi)
<1>1. Blank \in S /\ Screen(u, S) /\ Margins(u) /\ Spare(u.alt, S) /\ DOMAIN u = Fields
  BY GoodIs DEF Win
<1>2. u.sx \in Nat /\ u.sy \in Nat /\ u.tabs \in SUBSET Nat
  BY WinNumbers
<1>3. wi = u.width => u.tabs \in SUBSET (0 .. wi)
  BY WinNumbers
<1> HIDE DEF S
<1>4. Screen(v, S) /\ Margins(v) /\ DOMAIN v = Fields /\ \A f \in Fields \ Sized : v[f] = u[f]
  BY <1>1, <1>2, <1>3, ChangeIs
<1> HIDE DEF v
<1>5. Rest(u, v) /\ v.alt = u.alt
  BY <1>4 DEF Rest, Fields, Sized
<1>6. Parser(v) /\ Table(v.comb)
  BY <1>5, RestKeeps
<1>7. QED
  BY <1>1, <1>4, <1>5, <1>6 DEF Win, v, S, Rest

\* The two screens change places.
LEMMA SwapIs ==
  ASSUME NEW S, NEW u, DOMAIN u = Fields, Screen(u, S)
  PROVE  LET v == SwapAltScreen(u)
         IN /\ DOMAIN v = Fields /\ v.ml = u.alt.ml /\ v.hist = u.alt.hist /\ v.width = u.alt.width
            /\ v.height = u.alt.height /\ v.x = u.alt.x /\ v.y = u.alt.y
            /\ Screen(v.alt, S) /\ v.alt.width = u.width /\ v.alt.height = u.height
            /\ v.top = u.top /\ v.bot = u.bot /\ v.sx = u.sx /\ v.sy = u.sy /\ v.tabs = u.tabs
            /\ Rest(u, v)
<1> DEFINE old == [ml |-> u.ml, hist |-> u.hist, width |-> u.width, height |-> u.height,
                   x |-> u.x, y |-> u.y]
           v == SwapAltScreen(u)
<1>1. /\ DOMAIN v = Fields /\ v.ml = u.alt.ml /\ v.hist = u.alt.hist /\ v.width = u.alt.width
      /\ v.height = u.alt.height /\ v.x = u.alt.x /\ v.y = u.alt.y /\ v.alt = old
      /\ v.top = u.top /\ v.bot = u.bot /\ v.sx = u.sx /\ v.sy = u.sy /\ v.tabs = u.tabs
      /\ Rest(u, v)
  BY DEF SwapAltScreen, Fields, Rest
<1>2. Screen(old, S)
  BY DEF Screen
<1>3. old.width = u.width /\ old.height = u.height
  OBVIOUS
<1> HIDE DEF old, v
<1>4. QED
  BY <1>1, <1>2, <1>3 DEF v

\* The screen that took the other one's place gets its size.
LEMMA RefittedIs ==
  ASSUME NEW S, Blank \in S, NEW u, DOMAIN u = Fields, Screen(u, S), Margins(u),
         u.alt = NoScreen \/ Screen(u.alt, S)
  PROVE  LET v == Refitted(SwapAltScreen(u))
         IN /\ Screen(v, S) /\ Margins(v) /\ v.width = u.width /\ v.height = u.height
            /\ DOMAIN v = Fields /\ Screen(v.alt, S) /\ Rest(u, v)
<1> DEFINE z == SwapAltScreen(u)
           hi == Len(z.alt.hist)
           v == Refitted(z)
<1>1. /\ DOMAIN z = Fields /\ z.ml = u.alt.ml /\ z.hist = u.alt.hist /\ z.width = u.alt.width
      /\ z.height = u.alt.height /\ z.x = u.alt.x /\ z.y = u.alt.y
      /\ Screen(z.alt, S) /\ z.alt.width = u.width /\ z.alt.height = u.height
      /\ z.top = u.top /\ z.bot = u.bot /\ z.sx = u.sx /\ z.sy = u.sy /\ z.tabs = u.tabs
      /\ Rest(u, z)
  BY SwapIs
<1>2. v = ChangeWindowSize(z, u.width, u.height, hi)
  BY <1>1 DEF Refitted
<1>3. u.width \in Nat /\ 2 <= u.width /\ u.height \in Nat /\ 1 <= u.height /\ hi \in Nat
  BY <1>1, LenProperties DEF Screen, Page
<1> HIDE DEF z, hi, v
<1>4. Screen(z, S) \/ Gone(z)
  <2>1. CASE u.alt = NoScreen
    BY <1>1, <2>1 DEF Gone, NoScreen
  <2>2. CASE Screen(u.alt, S)
    BY <1>1, <2>2 DEF Screen
  <2>3. QED
    BY <2>1, <2>2
<1>5. /\ z.sx \in Nat /\ z.sy \in Nat /\ z.tabs \in SUBSET (0 .. u.width)
      /\ u.width = z.width /\ u.height = z.height => Margins(z)
  BY <1>1 DEF Margins
<1>6. z.tabs \in SUBSET Nat
  BY <1>3, <1>5
<1>7. /\ Screen(v, S) /\ Margins(v) /\ v.width = u.width /\ v.height = u.height
      /\ DOMAIN v = Fields /\ \A f \in Fields \ Sized : v[f] = z[f]
  BY <1>1, <1>2, <1>3, <1>4, <1>5, <1>6, ChangeIs
<1>8. Rest(z, v) /\ v.alt = z.alt
  BY <1>7 DEF Rest, Fields, Sized
<1>9. QED
  BY <1>1, <1>7, <1>8 DEF Rest, v, z

\* The alternate screen is shown, and is left.
LEMMA AltScreenKeeps ==
  ASSUME NEW u, Win(u)
  PROVE  Win(EnterAltScreen(u)) /\ Win(LeaveAltScreen(u))
<1> DEFINE S == Good(u.comb)
<1>1. /\ Blank \in S /\ Screen(u, S) /\ Margins(u) /\ DOMAIN u = Fields
      /\ (u.alt = NoScreen \/ Screen(u.alt, S)) /\ Parser(u) /\ Table(u.comb)
  BY GoodIs DEF Win, Spare
<1> HIDE DEF S
<1>2. Win(EnterAltScreen(u))
  <2> DEFINE f == FreeAltScreen(u)
             v == Refitted(SwapAltScreen(f))
  <2>1. /\ DOMAIN f = Fields /\ f.alt = NoScreen /\ f.ml = u.ml /\ f.hist = u.hist
        /\ f.width = u.width /\ f.height = u.height /\ f.x = u.x /\ f.y = u.y
        /\ f.top = u.top /\ f.bot = u.bot /\ f.sx = u.sx /\ f.sy = u.sy /\ f.tabs = u.tabs /\ Rest(u, f)
    BY <1>1 DEF FreeAltScreen, Fields, Rest
  <2> HIDE DEF f
  <2>2. Screen(f, S) /\ Margins(f)
    BY <1>1, <2>1 DEF Screen, Margins
  <2>3. /\ Screen(v, S) /\ Margins(v) /\ v.width = f.width /\ v.height = f.height
        /\ DOMAIN v = Fields /\ Screen(v.alt, S) /\ Rest(f, v)
    BY <1>1, <2>1, <2>2, RefittedIs
  <2> HIDE DEF v
  <2>4. Rest(u, v)
    BY <2>1, <2>3 DEF Rest
  <2>5. Win(v)
    BY <2>3, <2>4, RestKeeps DEF Win, Spare, S, Rest
  <2>6. u.x \in 0 .. v.width /\ u.y \in 0 .. v.height - 1
    BY <2>1, <2>3, WinNumbers
  <2>7. EnterAltScreen(u) = At(v, u.x, u.y)
    BY DEF EnterAltScreen, At, v, f
  <2>8. QED
    BY <2>5, <2>6, <2>7, AtKeeps
<1>3. Win(LeaveAltScreen(u))
  <2> DEFINE v == Refitted(SwapAltScreen(u))
             z == FreeAltScreen(v)
  <2>1. LeaveAltScreen(u) = IF u.alt = NoScreen THEN u ELSE z
    BY DEF LeaveAltScreen
  <2>2. Screen(v, S) /\ Margins(v) /\ DOMAIN v = Fields /\ Rest(u, v)
    BY <1>1, RefittedIs
  <2> HIDE DEF v
  <2>3. /\ DOMAIN z = Fields /\ z.alt = NoScreen /\ z.ml = v.ml /\ z.hist = v.hist
        /\ z.width = v.width /\ z.height = v.height /\ z.x = v.x /\ z.y = v.y
        /\ z.top = v.top /\ z.bot = v.bot /\ z.sx = v.sx /\ z.sy = v.sy /\ z.tabs = v.tabs /\ Rest(v, z)
    BY <2>2 DEF FreeAltScreen, Fields, Rest
  <2> HIDE DEF z
  <2>4. Screen(z, S) /\ Margins(z)
    BY <2>2, <2>3 DEF Screen, Margins
  <2>5. Rest(u, z)
    BY <2>2, <2>3 DEF Rest
  <2>6. Win(z)
    BY <2>3, <2>4, <2>5, RestKeeps DEF Win, Spare, S, Rest
  <2>7. QED
    BY <2>1, <2>6
<1>4. QED
  BY <1>2, <1>3

\* A mode is set or reset.
LEMMA SetModeKeeps ==
  ASSUME NEW u, Win(u), NEW mode \in Nat, NEW on
  PROVE  Win(SetMode(u, mode, on)) /\ Win(ASetMode(u, mode, on))
<1>0. DOMAIN u = Fields
  BY DEF Win
<1>1. Win([u EXCEPT !.origin = on]) /\ Win([u EXCEPT !.wrap = on]) /\ Win([u EXCEPT !.insert = on])
  <2>1. Same(u, [u EXCEPT !.origin = on], Flags)
    BY <1>0 DEF Same, Fields, Flags
  <2>2. Same(u, [u EXCEPT !.wrap = on], Flags)
    BY <1>0 DEF Same, Fields, Flags
  <2>3. Same(u, [u EXCEPT !.insert = on], Flags)
    BY <1>0 DEF Same, Fields, Flags
  <2>4. QED
    BY <2>1, <2>2, <2>3, FlagKeeps
<1>2. Win(Home([u EXCEPT !.origin = on]))
  <2> DEFINE v == [u EXCEPT !.origin = on]
  <2> HIDE DEF v
  <2>1. Win(v)
    BY <1>1 DEF v
  <2>2. Win(Home(v))
    <3>1. 0 \in Nat
      OBVIOUS
    <3>2. QED
      BY <2>1, <3>1, GotoKeeps
  <2>3. QED
    BY <2>2 DEF v
<1>3. Win(EnterAltScreen(u))
  BY AltScreenKeeps
<1>4. Win([LeaveAltScreen(u) EXCEPT !.saved = IF mode = 47 THEN FALSE ELSE @])
  <2> DEFINE v == LeaveAltScreen(u)
             z == [v EXCEPT !.saved = IF mode = 47 THEN FALSE ELSE @]
  <2>1. Win(v)
    BY AltScreenKeeps
  <2> HIDE DEF v
  <2>2. DOMAIN v = Fields
    BY <2>1 DEF Win
  <2>3. Same(v, z, Flags)
    BY <2>2 DEF Same, Fields, Flags
  <2> HIDE DEF z
  <2>4. Win(z)
    BY <2>1, <2>3, FlagKeeps
  <2>5. QED
    BY <2>4 DEF z, v
<1>5. CASE mode = 6
  BY <1>1, <1>2, <1>5 DEF SetMode, ASetMode
<1>6. CASE mode = 7
  BY <1>1, <1>6 DEF SetMode, ASetMode
<1>7. CASE mode \in {47, 1047, 1049}
  BY <1>3, <1>4, <1>7 DEF SetMode, ASetMode
<1>8. CASE mode \notin {6, 7, 47, 1047, 1049}
  BY <1>1, <1>8 DEF SetMode, ASetMode
<1>9. QED
  BY <1>5, <1>6, <1>7, <1>8

-----------------------------------------------------------------------------
(* One after another.                                                       *)

\* A window that every step leaves a window is one after all of them.
LEMMA TrailKeeps ==
  ASSUME NEW n \in Nat, NEW trail, Win(trail[0]), \A k \in 1 .. n : Win(trail[k - 1]) => Win(trail[k])
  PROVE  Win(trail[n])
<1> DEFINE T == {k \in 0 .. n : Win(trail[k])}
<1>1. 0 \in T
  OBVIOUS
<1>2. ASSUME NEW k \in 0 .. n - 1, k \in T PROVE k + 1 \in T
  <2>1. k + 1 \in 1 .. n /\ (k + 1) - 1 = k /\ k + 1 \in 0 .. n
    OBVIOUS
  <2>2. Win(trail[k])
    BY <1>2
  <2>3. Win(trail[k + 1])
    BY <2>1, <2>2
  <2>4. QED
    BY <2>1, <2>3
<1> HIDE DEF T
<1>3. n \in T
  BY <1>1, <1>2, UpTo
<1>4. QED
  BY <1>3 DEF T

\* What the folds of Modes and Repeat do.
OfMode(on, v, mode) == SetMode(v, mode, on)
OfAMode(on, v, mode) == ASetMode(v, mode, on)
OfTab(par, v, i) == ForwardTab(v)
OfBack(par, v, i) == BackwardTab(v)
Om == INSTANCE ListProofs WITH op <- OfMode
Oa == INSTANCE ListProofs WITH op <- OfAMode
Ot == INSTANCE ListProofs WITH op <- OfTab
Ob == INSTANCE ListProofs WITH op <- OfBack

\* The parameters of a sequence are numbers.
LEMMA ArgsAre ==
  ASSUME NEW u, Win(u), NEW i
  PROVE  /\ u.args \in Seq(Nat) /\ Len(u.args) \in Nat /\ NumArgs(u) \in Nat /\ NumArgs(u) <= Len(u.args)
         /\ \A k \in 1 .. NumArgs(u) : u.args[k] \in Nat
         /\ i \in Nat \ {0} => Arg(u, i) \in Nat
<1>1. u.args \in Seq(Nat)
  BY DEF Win, Parser
<1>2. Len(u.args) \in Nat /\ \A k \in 1 .. Len(u.args) : u.args[k] \in Nat
  BY <1>1, LenProperties, ElementOfSeq
<1>3. NumArgs(u) \in Nat /\ NumArgs(u) <= Len(u.args)
  BY <1>2, Sizes DEF NumArgs, Least
<1>4. QED
  BY <1>1, <1>2, <1>3 DEF Arg

\* All modes of a sequence are set or reset.
LEMMA ModesKeep ==
  ASSUME NEW u, Win(u), NEW on
  PROVE  Win(Modes(u, SetMode, on)) /\ Win(Modes(u, ASetMode, on))
<1> DEFINE n == NumArgs(u)
           seq == [i \in 1 .. n |-> u.args[i]]
<1>1. n \in Nat /\ \A k \in 1 .. n : u.args[k] \in Nat
  BY ArgsAre
<1>2. Om!Folded(on, u, seq) = Modes(u, SetMode, on)
  BY DEF Om!Folded, OfMode, Om!FoldLeft, FoldLeft, Modes, Om!MapThenFoldSet, MapThenFoldSet, Om!Max, Max
<1>3. Oa!Folded(on, u, seq) = Modes(u, ASetMode, on)
  BY DEF Oa!Folded, OfAMode, Oa!FoldLeft, FoldLeft, Modes, Oa!MapThenFoldSet, MapThenFoldSet, Oa!Max, Max
<1> HIDE DEF n
<1>4. seq \in [1 .. n -> Nat] /\ \A k \in 1 .. n : seq[k] \in Nat
  BY <1>1
<1> HIDE DEF seq
<1>5. Len(seq) = n /\ DOMAIN seq = 1 .. n
  BY <1>1, <1>4, TupleIs
<1>6. Len(seq) \in Nat /\ DOMAIN seq = 1 .. Len(seq)
  BY <1>1, <1>5
<1>7. Win(Modes(u, SetMode, on))
  <2>1. PICK trail : Om!IsTrail(on, u, seq, trail)
    BY <1>6, Om!TrailExists
  <2>2. \A k \in 1 .. n : Win(trail[k - 1]) => Win(trail[k])
    <3> TAKE k \in 1 .. n
    <3>1. trail[k] = SetMode(trail[k - 1], seq[k], on) /\ seq[k] \in Nat
      BY <1>4, <1>5, <2>1 DEF Om!IsTrail, OfMode
    <3>2. QED
      BY <3>1, SetModeKeeps
  <2>3. Win(trail[n])
    BY <1>1, <1>5, <2>1, <2>2, TrailKeeps DEF Om!IsTrail
  <2>4. QED
    BY <1>2, <1>5, <2>1, <2>3 DEF Om!IsTrail
<1>8. Win(Modes(u, ASetMode, on))
  <2>1. PICK trail : Oa!IsTrail(on, u, seq, trail)
    BY <1>6, Oa!TrailExists
  <2>2. \A k \in 1 .. n : Win(trail[k - 1]) => Win(trail[k])
    <3> TAKE k \in 1 .. n
    <3>1. trail[k] = ASetMode(trail[k - 1], seq[k], on) /\ seq[k] \in Nat
      BY <1>4, <1>5, <2>1 DEF Oa!IsTrail, OfAMode
    <3>2. QED
      BY <3>1, SetModeKeeps
  <2>3. Win(trail[n])
    BY <1>1, <1>5, <2>1, <2>2, TrailKeeps DEF Oa!IsTrail
  <2>4. QED
    BY <1>3, <1>5, <2>1, <2>3 DEF Oa!IsTrail
<1>9. QED
  BY <1>7, <1>8

\* Tabulators, one after the other.
LEMMA RepeatKeeps ==
  ASSUME NEW u, Win(u), NEW n \in Nat
  PROVE  Win(Repeat(u, ForwardTab, n)) /\ Win(Repeat(u, BackwardTab, n))
<1> DEFINE seq == [i \in 1 .. n |-> i]
<1>1. Ot!Folded(0, u, seq) = Repeat(u, ForwardTab, n)
  BY DEF Ot!Folded, OfTab, Ot!FoldLeft, FoldLeft, Repeat, Ot!MapThenFoldSet, MapThenFoldSet, Ot!Max, Max
<1>2. Ob!Folded(0, u, seq) = Repeat(u, BackwardTab, n)
  BY DEF Ob!Folded, OfBack, Ob!FoldLeft, FoldLeft, Repeat, Ob!MapThenFoldSet, MapThenFoldSet, Ob!Max, Max
<1>3. seq \in [1 .. n -> Nat]
  OBVIOUS
<1> HIDE DEF seq
<1>4. Len(seq) = n /\ DOMAIN seq = 1 .. n
  BY <1>3, TupleIs
<1>5. Len(seq) \in Nat /\ DOMAIN seq = 1 .. Len(seq)
  BY <1>4
<1>6. Win(Repeat(u, ForwardTab, n))
  <2>1. PICK trail : Ot!IsTrail(0, u, seq, trail)
    BY <1>5, Ot!TrailExists
  <2>2. \A k \in 1 .. n : Win(trail[k - 1]) => Win(trail[k])
    BY <1>4, <2>1, ForwardTabKeeps DEF Ot!IsTrail, OfTab
  <2>3. Win(trail[n])
    BY <2>1, <2>2, TrailKeeps DEF Ot!IsTrail
  <2>4. QED
    BY <1>1, <1>4, <2>1, <2>3 DEF Ot!IsTrail
<1>7. Win(Repeat(u, BackwardTab, n))
  <2>1. PICK trail : Ob!IsTrail(0, u, seq, trail)
    BY <1>5, Ob!TrailExists
  <2>2. \A k \in 1 .. n : Win(trail[k - 1]) => Win(trail[k])
    BY <1>4, <2>1, TabsMove DEF Ob!IsTrail, OfBack
  <2>3. Win(trail[n])
    BY <2>1, <2>2, TrailKeeps DEF Ob!IsTrail
  <2>4. QED
    BY <1>2, <1>4, <2>1, <2>3 DEF Ob!IsTrail
<1>8. QED
  BY <1>6, <1>7

-----------------------------------------------------------------------------
(* Escape sequences, and the parser.                                        *)

\* Tab stops may be anywhere on a line.
LEMMA TabsKeep ==
  ASSUME NEW u, Win(u), NEW tabs \in SUBSET (0 .. u.width)
  PROVE  Win([u EXCEPT !.tabs = tabs])
<1> DEFINE v == [u EXCEPT !.tabs = tabs]
<1>1. DOMAIN u = Fields
  BY WinNumbers
<1>2. /\ v.tabs = tabs /\ v.width = u.width /\ v.height = u.height /\ v.top = u.top /\ v.bot = u.bot
      /\ v.sx = u.sx /\ v.sy = u.sy /\ Same(u, v, Bounds \union Flags)
  BY <1>1 DEF Fields, Same, Bounds, Flags
<1> HIDE DEF v
<1>3. Margins(v)
  BY <1>2, WinNumbers DEF Margins
<1>4. Win(v)
  BY <1>2, <1>3, BoundsKeep
<1>5. QED
  BY <1>4 DEF v

\* An escape sequence.
LEMMA DoESCKeeps ==
  ASSUME NEW u, Win(u), NEW c
  PROVE  Win(DoESC(u, c))
<1>1. Win([u EXCEPT !.tabs = u.tabs \union {u.x}])
  <2>1. u.tabs \union {u.x} \in SUBSET (0 .. u.width)
    BY WinNumbers
  <2>2. QED
    BY <2>1, TabsKeep
<1>2. Win(ResetWindow(ClearScreen(u)))
  <2> DEFINE v == ClearScreen(u)
  <2>1. Win(v)
    <3>1. 0 \in Int
      OBVIOUS
    <3>2. QED
      BY <3>1, ClearsKeep
  <2> HIDE DEF v
  <2>2. Win(ResetWindow(v))
    BY <2>1, ResetKeeps
  <2>3. QED
    BY <2>2 DEF v
<1>3. Win(FillWithEs(u)) /\ Win(LineFeed(u, TRUE)) /\ Win(LineFeed(u, FALSE)) /\ Win(ReverseLineFeed(u))
  BY FillKeeps, LineFeedKeeps, ReverseKeeps
<1>4. Win(SaveCursor(u)) /\ Win(RestoreCursor(u))
  BY SaveRestoreKeep
<1>5. QED
  BY <1>1, <1>2, <1>3, <1>4 DEF DoESC

\* A control sequence: the editing ones.
LEMMA EditKeeps ==
  ASSUME NEW u, Win(u), NEW c, NEW n \in Nat
  PROVE  Win(Edit(u, c, n))
<1>1. -n \in Int /\ n \in Int
  OBVIOUS
<1>2. QED
  BY <1>1, SaveRestoreKeep, RepeatKeeps, EditsKeep DEF Edit

\* A control sequence, with any parameters.
LEMMA DoCSIKeeps ==
  ASSUME NEW u, Win(u), NEW c
  PROVE  Win(DoCSI(u, c))
<1> DEFINE a1 == Arg(u, 1)
           a2 == Arg(u, 2)
           n == Times(a1)
           end == u.width - 1
           cleared == IF a1 = 0 THEN u.tabs \ {u.x} ELSE IF a1 = 3 THEN u.tabs \intersect {u.width} ELSE u.tabs
<1>1. a1 \in Nat /\ a2 \in Nat /\ n \in Nat \ {0}
  <2>1. 1 \in Nat \ {0} /\ 2 \in Nat \ {0}
    OBVIOUS
  <2>2. a1 \in Nat /\ a2 \in Nat
    BY <2>1, ArgsAre
  <2>3. QED
    BY <2>2 DEF Times
<1> HIDE DEF a1, a2, n
<1>2. Win(Modes(u, SetMode, c = "h")) /\ Win(Modes(u, ASetMode, c = "h"))
  BY ModesKeep
<1>3. Win(GotoPos(u, a1, a2)) /\ Win(SetMargins(u, a1, a2))
  BY <1>1, GotoKeeps, SetMarginsKeeps
<1>4. Win(ClearFromBOS(u)) /\ Win(ClearScreen(u)) /\ Win(ClearToEOS(u))
  <2>1. 0 \in Int
    OBVIOUS
  <2>2. QED
    BY <2>1, ClearsKeep
<1>5. /\ Win(ClearLineRegion(u, u.x, end)) /\ Win(ClearLineRegion(u, 0, u.x)) /\ Win(ClearLineRegion(u, 0, end))
      /\ Win(ClearLineRegion(u, u.x, Least(u.x + n - 1, end)))
  <2>1. u.x \in Int /\ end \in Int /\ 0 \in Int /\ Least(u.x + n - 1, end) \in Int
    BY <1>1, WinNumbers DEF Least
  <2> HIDE DEF end
  <2>2. QED
    BY <2>1, ClearsKeep
<1>6. Win(CursorUp(u, n)) /\ Win(CursorDown(u, n)) /\ Win(CursorLeft(u, n)) /\ Win(CursorRight(u, n))
  BY <1>1, UpDownKeep, RightKeeps
<1>7. Win(CursorDown([u EXCEPT !.x = 0], n)) /\ Win(CursorUp([u EXCEPT !.x = 0], n))
  <2> DEFINE v == [u EXCEPT !.x = 0]
  <2>1. 0 \in 0 .. u.width
    BY WinNumbers
  <2>2. Win(v)
    BY <2>1, XKeeps
  <2> HIDE DEF v
  <2>3. Win(CursorDown(v, n)) /\ Win(CursorUp(v, n))
    BY <1>1, <2>2, UpDownKeep
  <2>4. QED
    BY <2>3 DEF v
<1>8. Win(At(u, Least(n, u.width) - 1, u.y)) /\ Win(At(u, u.x, Least(n, u.height) - 1))
  <2>1. Least(n, u.width) - 1 \in 0 .. u.width /\ Least(n, u.height) - 1 \in 0 .. u.height - 1
    BY <1>1, WinNumbers DEF Least
  <2>2. u.x \in 0 .. u.width /\ u.y \in 0 .. u.height - 1
    BY WinNumbers
  <2>3. QED
    BY <2>1, <2>2, AtKeeps
<1>9. Win([u EXCEPT !.tabs = cleared])
  <2>1. cleared \in SUBSET (0 .. u.width)
    BY WinNumbers
  <2> HIDE DEF cleared
  <2>2. QED
    BY <2>1, TabsKeep
<1>10. Win(SaveCursor(u)) /\ Win(Edit(u, c, n))
  BY <1>1, SaveRestoreKeep, EditKeeps
<1>11. QED
  BY <1>2, <1>3, <1>4, <1>5, <1>6, <1>7, <1>8, <1>9, <1>10 DEF DoCSI, a1, a2, n

\* The parser may be in any of its states.
LEMMA StateKeeps ==
  ASSUME NEW u, Win(u), NEW s \in States, NEW interm
  PROVE  /\ Win([u EXCEPT !.state = s]) /\ Win([u EXCEPT !.interm = interm])
         /\ Win([u EXCEPT !.state = s, !.interm = interm])
<1> DEFINE v == [u EXCEPT !.state = s, !.interm = interm]
           z == [u EXCEPT !.interm = interm]
           y == [u EXCEPT !.state = s]
<1>1. DOMAIN u = Fields
  BY WinNumbers
<1>2. /\ Same(u, v, Parsed \union Flags) /\ v.state = s /\ v.slen = u.slen /\ v.args = u.args /\ v.decode = u.decode
      /\ Same(u, y, Parsed \union Flags) /\ y.state = s /\ y.slen = u.slen /\ y.args = u.args /\ y.decode = u.decode
      /\ Same(u, z, Flags)
  BY <1>1 DEF Same, Fields, Parsed, Flags
<1> HIDE DEF v, z, y
<1>3. Parser(v) /\ Parser(y)
  BY <1>2 DEF Win, Parser
<1>4. Win(v) /\ Win(y) /\ Win(z)
  BY <1>2, <1>3, ParserKeeps, FlagKeeps
<1>5. QED
  BY <1>4 DEF v, z, y

\* A character outside of sequences.
LEMMA LitKeeps ==
  ASSUME NEW u, Win(u), NEW c \in Written
  PROVE  Win(Lit(u, c))
<1>1. "ESC" \in States
  BY DEF States
<1>2. QED
  BY <1>1, StateKeeps, SpecialKeeps, PutTextKeeps DEF Lit

\* A character after ESC.
LEMMA EscKeeps ==
  ASSUME NEW u, Win(u), NEW c \in Written
  PROVE  Win(Esc(u, c))
<1>0. DOMAIN u = Fields /\ "LIT" \in States /\ "CSI" \in States /\ "ASTR" \in States
  BY WinNumbers DEF States
<1>1. Win([u EXCEPT !.state = "CSI", !.interm = "", !.args = <<0>>])
  <2> DEFINE v == [u EXCEPT !.state = "CSI", !.interm = "", !.args = <<0>>]
  <2>1. Same(u, v, Parsed \union Flags) /\ v.state = "CSI" /\ v.slen = u.slen /\ v.args = <<0>> /\ v.decode = u.decode
    BY <1>0 DEF Same, Fields, Parsed, Flags
  <2> HIDE DEF v
  <2>2. <<0>> \in Seq(Nat) /\ <<0>> # <<>> /\ Len(<<0>>) = 1 /\ 1 <= MaxArgs + 1
    BY Sizes
  <2>3. Parser(v)
    BY <1>0, <2>1, <2>2 DEF Win, Parser
  <2>4. Win(v)
    BY <2>1, <2>3, ParserKeeps
  <2>5. QED
    BY <2>4 DEF v
<1>2. Win([u EXCEPT !.state = "ASTR", !.osc = (c = "]"), !.slen = 0])
  <2> DEFINE v == [u EXCEPT !.state = "ASTR", !.osc = (c = "]"), !.slen = 0]
  <2>1. Same(u, v, Parsed \union Flags) /\ v.state = "ASTR" /\ v.slen = 0 /\ v.args = u.args /\ v.decode = u.decode
    BY <1>0 DEF Same, Fields, Parsed, Flags
  <2> HIDE DEF v
  <2>2. 0 \in Nat /\ 0 < MaxStr
    BY Sizes
  <2>3. Parser(v)
    BY <1>0, <2>1, <2>2 DEF Win, Parser
  <2>4. Win(v)
    BY <2>1, <2>3, ParserKeeps
  <2>5. QED
    BY <2>4 DEF v
<1>3. Win([Special(u, c) EXCEPT !.state = "LIT"]) /\ Win([DoESC(u, c) EXCEPT !.state = "LIT"])
  BY <1>0, SpecialKeeps, DoESCKeeps, StateKeeps
<1>4. Win([u EXCEPT !.interm = IF u.interm = "" THEN c ELSE "bad"])
  BY <1>0, StateKeeps
<1>5. Win(Lit([u EXCEPT !.state = "LIT"], c))
  BY <1>0, StateKeeps, LitKeeps
<1>6. QED
  BY <1>1, <1>2, <1>3, <1>4, <1>5 DEF Esc

\* A parameter of a sequence.
LEMMA ArgsKeep ==
  ASSUME NEW u, Win(u), NEW args \in Seq(Nat), args # <<>>, Len(args) <= MaxArgs + 1
  PROVE  Win([u EXCEPT !.args = args])
<1> DEFINE v == [u EXCEPT !.args = args]
<1>1. DOMAIN u = Fields
  BY WinNumbers
<1>2. Same(u, v, Parsed \union Flags) /\ v.state = u.state /\ v.slen = u.slen /\ v.args = args /\ v.decode = u.decode
  BY <1>1 DEF Same, Fields, Parsed, Flags
<1> HIDE DEF v
<1>3. Parser(v)
  BY <1>2 DEF Win, Parser
<1>4. Win(v)
  BY <1>2, <1>3, ParserKeeps
<1>5. QED
  BY <1>4 DEF v

\* What a digit is worth.
LEMMA DigitIs ==
  ASSUME NEW c \in ToSet(Digits)
  PROVE  SelectInSeq(Digits, LAMBDA x : x = c) - 1 \in Nat
<1> DEFINE I == {i \in 1 .. Len(Digits) : Digits[i] = c}
<1>1. Len(Digits) = 10 /\ DOMAIN Digits = 1 .. 10
  BY DEF Digits
<1>2. SelectInSeq(Digits, LAMBDA x : x = c) = IF I # {} THEN Min(I) ELSE 0
  BY DEF SelectInSeq, Min
<1>3. I # {} /\ I \in SUBSET Nat /\ \A i \in I : i \in Nat /\ i >= 1
  BY <1>1 DEF ToSet
<1> HIDE DEF I
<1>4. Min(I) \in I
  <2>1. PICK m \in I : \A x \in I : m <= x
    BY <1>3, LeastNumber
  <2>2. QED
    BY <2>1 DEF Min
<1>5. QED
  BY <1>2, <1>3, <1>4

\* A digit of a parameter: the list keeps its length.
LEMMA DigitKeeps ==
  ASSUME NEW args \in Seq(Nat), args # <<>>, NEW d \in Nat
  PROVE  Digit(args, d) \in Seq(Nat) /\ Digit(args, d) # <<>> /\ Len(Digit(args, d)) = Len(args)
<1> DEFINE n == Len(args)
           new == [args EXCEPT ![n] = 10 * args[n] + d]
<1>1. n \in Nat \ {0} /\ args \in [1 .. n -> Nat]
  BY EmptySeq, LenProperties
<1>2. Digit(args, d) = IF n > MaxArgs \/ Last(args) >= 100000000 THEN args ELSE new
  BY DEF Digit
<1>3. new \in [1 .. n -> Nat]
  <2> HIDE DEF n
  <2>1. args[n] \in Nat
    BY <1>1
  <2>2. 10 * args[n] + d \in Nat
    BY <2>1
  <2>3. QED
    BY <1>1, <2>2
<1> HIDE DEF new
<1>4. new \in Seq(Nat) /\ Len(new) = n
  <2> HIDE DEF n
  <2>1. QED
    BY <1>1, <1>3, TupleIs
<1>5. new # <<>>
  <2>1. Len(<<>>) = 0
    OBVIOUS
  <2>2. QED
    BY <1>1, <1>4, <2>1
<1>6. QED
  BY <1>2, <1>4, <1>5

\* A character of a control sequence: parameters beyond MAXARGS are not stored.
LEMMA CsiKeeps ==
  ASSUME NEW u, Win(u), NEW c \in Written
  PROVE  Win(Csi(u, c))
<1> DEFINE d == SelectInSeq(Digits, LAMBDA x : x = c) - 1
           more == IF Len(u.args) <= MaxArgs THEN Append(u.args, 0) ELSE u.args
<1>0. "LIT" \in States /\ u.args \in Seq(Nat) /\ u.args # <<>> /\ Len(u.args) <= MaxArgs + 1
  BY DEF States, Win, Parser
<1>1. c \in ToSet(Digits) => Win([u EXCEPT !.args = Digit(u.args, d)])
  <2> HAVE c \in ToSet(Digits)
  <2>1. d \in Nat
    BY DigitIs
  <2> HIDE DEF d
  <2>2. QED
    BY <1>0, <2>1, DigitKeeps, ArgsKeep
<1>2. Win([u EXCEPT !.args = more])
  <2>1. CASE Len(u.args) <= MaxArgs
    <3> DEFINE z == Append(u.args, 0)
    <3>1. z \in Seq(Nat) /\ Len(z) = Len(u.args) + 1 /\ Len(u.args) \in Nat
      BY <1>0, AppendProperties, LenProperties
    <3> HIDE DEF z
    <3>2. Len(<<>>) = 0
      OBVIOUS
    <3>3. z # <<>> /\ Len(z) <= MaxArgs + 1
      BY <2>1, <3>1, <3>2, Sizes
    <3>4. more = z
      BY <2>1 DEF z
    <3>5. QED
      BY <3>1, <3>3, <3>4, ArgsKeep
  <2>2. CASE ~(Len(u.args) <= MaxArgs)
    BY <1>0, <2>2, ArgsKeep
  <2>3. QED
    BY <2>1, <2>2
<1>3. Win(Special(u, c)) /\ Win([DoCSI(u, c) EXCEPT !.state = "LIT"])
  BY <1>0, SpecialKeeps, DoCSIKeeps, StateKeeps
<1>4. Win([u EXCEPT !.interm = IF u.interm = "" THEN c ELSE "bad"])
  BY <1>0, StateKeeps
<1>5. Win(Lit([u EXCEPT !.state = "LIT"], c))
  BY <1>0, StateKeeps, LitKeeps
<1> DEFINE a == [u EXCEPT !.args = Digit(u.args, d)]
           b == [u EXCEPT !.args = more]
           e == [u EXCEPT !.interm = IF u.interm = "" THEN c ELSE "bad"]
<1>6. Csi(u, c) = CASE c \in ToSet(Digits) -> a
                    [] c = ";" -> b
                    [] IsSpecial(c) -> Special(u, c)
                    [] c \in Intermediates \union Private -> e
                    [] Ascii(c) -> [DoCSI(u, c) EXCEPT !.state = "LIT"]
                    [] OTHER -> Lit([u EXCEPT !.state = "LIT"], c)
  BY DEF Csi
<1> HIDE DEF a, b, e
<1>7. Win(b) /\ Win(e) /\ (c \in ToSet(Digits) => Win(a))
  BY <1>1, <1>2, <1>4 DEF a, b, e
<1>8. QED
  BY <1>3, <1>5, <1>6, <1>7

\* A character of a string: it stays shorter than MAXSTR.
LEMMA StringKeeps ==
  ASSUME NEW u, Win(u), NEW c
  PROVE  Win(StringChar(u)) /\ Win(StringEnd(u)) /\ Win(Astr(u, c)) /\ Win(StrEsc(u, c))
<1>0. "LIT" \in States /\ "ASTR" \in States /\ "STRESC" \in States
  BY DEF States
<1>1. ASSUME NEW v, Win(v) PROVE Win(StringChar(v))
  <2> DEFINE z == [v EXCEPT !.slen = v.slen + 1]
  <2>1. CASE v.slen >= MaxStr - 1
    BY <1>0, <1>1, <2>1, StateKeeps DEF StringChar
  <2>2. CASE ~(v.slen >= MaxStr - 1)
    <3>1. DOMAIN v = Fields /\ v.slen \in Nat /\ v.slen + 1 \in Nat /\ v.slen + 1 < MaxStr
      BY <1>1, <2>2, Sizes DEF Win, Parser
    <3>2. /\ Same(v, z, Parsed \union Flags)
          /\ z.state = v.state /\ z.slen = v.slen + 1 /\ z.args = v.args /\ z.decode = v.decode
      BY <3>1 DEF Same, Fields, Parsed, Flags
    <3>3. StringChar(v) = z
      BY <2>2 DEF StringChar
    <3> HIDE DEF z
    <3>4. Parser(z)
      BY <1>1, <3>1, <3>2 DEF Win, Parser
    <3>5. QED
      BY <1>1, <3>2, <3>3, <3>4, ParserKeeps
  <2>3. QED
    BY <2>1, <2>2
<1>2. Win(StringEnd(u)) /\ Win([u EXCEPT !.state = "STRESC"]) /\ Win([u EXCEPT !.state = "ASTR"])
  BY <1>0, StateKeeps DEF StringEnd
<1>3. Win(StringChar(u)) /\ Win(StringChar(StringChar([u EXCEPT !.state = "ASTR"])))
  BY <1>1, <1>2
<1>4. QED
  BY <1>2, <1>3 DEF Astr, StrEsc

\* A character, in whatever state the parser is.
LEMMA StepKeeps ==
  ASSUME NEW u, Win(u), NEW c \in Written
  PROVE  Win(Step(u, c))
<1>1. u.state \in States
  BY DEF Win, Parser
<1>2. QED
  BY <1>1, LitKeeps, EscKeeps, CsiKeeps, StringKeeps DEF Step, States

\* What the folds of WriteByte and WriteString do.
OfStep(par, v, c) == Step(v, c)
OfByte(par, v, c) == WriteByte(v, c)
Os == INSTANCE ListProofs WITH op <- OfStep
Oc == INSTANCE ListProofs WITH op <- OfByte

\* A byte, whatever it completes.
LEMMA WriteByteKeeps ==
  ASSUME NEW u, Win(u), NEW c \in Bytes
  PROVE  Win(WriteByte(u, c))
<1> DEFINE decode == IF c \in Multi THEN c ELSE None
           v == [u EXCEPT !.decode = decode]
           seq == Decoded(u, c)
<1>1. Win(v)
  <2>1. DOMAIN u = Fields /\ decode \in Multi \union {None}
    BY WinNumbers
  <2> HIDE DEF decode
  <2>2. Same(u, v, Parsed \union Flags) /\ v.state = u.state /\ v.slen = u.slen /\ v.args = u.args /\ v.decode = decode
    BY <2>1 DEF Same, Fields, Parsed, Flags
  <2> HIDE DEF v
  <2>3. Parser(v)
    BY <2>1, <2>2 DEF Win, Parser
  <2>4. QED
    BY <2>2, <2>3, ParserKeeps
<1>2. Os!Folded(0, v, seq) = WriteByte(u, c)
  BY DEF Os!Folded, OfStep, Os!FoldLeft, FoldLeft, WriteByte, Os!MapThenFoldSet, MapThenFoldSet, Os!Max, Max
<1> HIDE DEF v
<1>3. seq \in Seq(Written)
  <2> DEFINE first == FirstByte(c)
  <2>1. c \in Written /\ Replacement \in Written /\ u.decode \in Multi \union {None} /\ Multi \subseteq Written
    BY DEF Written, Win, Parser
  <2>2. first \in Seq(Written)
    BY <2>1 DEF FirstByte
  <2> HIDE DEF first
  <2>3. <<Replacement>> \in Seq(Written)
    BY <2>1
  <2>4. <<Replacement>> \o first \in Seq(Written)
    BY <2>2, <2>3, TwoIs
  <2>5. u.decode # None => <<u.decode>> \in Seq(Written)
    BY <2>1
  <2>6. QED
    BY <2>2, <2>4, <2>5 DEF Decoded, first
<1> HIDE DEF seq
<1>4. Len(seq) \in Nat /\ DOMAIN seq = 1 .. Len(seq) /\ \A k \in 1 .. Len(seq) : seq[k] \in Written
  BY <1>3, LenProperties, ElementOfSeq
<1>5. PICK trail : Os!IsTrail(0, v, seq, trail)
  BY <1>4, Os!TrailExists
<1>6. \A k \in 1 .. Len(seq) : Win(trail[k - 1]) => Win(trail[k])
  BY <1>4, <1>5, StepKeeps DEF Os!IsTrail, OfStep
<1>7. Win(trail[Len(seq)])
  BY <1>1, <1>4, <1>5, <1>6, TrailKeeps DEF Os!IsTrail
<1>8. QED
  BY <1>2, <1>5, <1>7 DEF Os!IsTrail

\* A chunk of output, however long.
LEMMA WriteStringKeeps ==
  ASSUME NEW u, Win(u), NEW chunk \in Seq(Bytes)
  PROVE  Win(WriteString(u, chunk))
<1>1. Oc!Folded(0, u, chunk) = WriteString(u, chunk)
  BY DEF Oc!Folded, OfByte, Oc!FoldLeft, FoldLeft, WriteString, Oc!MapThenFoldSet, MapThenFoldSet, Oc!Max, Max
<1>2. Len(chunk) \in Nat /\ DOMAIN chunk = 1 .. Len(chunk) /\ \A k \in 1 .. Len(chunk) : chunk[k] \in Bytes
  BY LenProperties, ElementOfSeq
<1>3. PICK trail : Oc!IsTrail(0, u, chunk, trail)
  BY <1>2, Oc!TrailExists
<1>4. \A k \in 1 .. Len(chunk) : Win(trail[k - 1]) => Win(trail[k])
  BY <1>2, <1>3, WriteByteKeeps DEF Oc!IsTrail, OfByte
<1>5. Win(trail[Len(chunk)])
  BY <1>2, <1>3, <1>4, TrailKeeps DEF Oc!IsTrail
<1>6. QED
  BY <1>1, <1>3, <1>5 DEF Oc!IsTrail

\* A new window is a window.
LEMMA NewWindowIs ==
  ASSUME NEW wi \in Nat \ {0, 1}, NEW he \in Nat \ {0}, NEW hi \in Nat
  PROVE  Win(NewWindow(wi, he, hi))
<1> DEFINE u == NewWindow(wi, he, hi)
           S == Good(u.comb)
<1>1. /\ DOMAIN u = Fields /\ u.ml = BlankLines(he, wi) /\ u.hist = BlankLines(hi, wi)
      /\ u.width = wi /\ u.height = he /\ u.x = 0 /\ u.y = 0 /\ u.top = 0 /\ u.bot = he - 1
      /\ u.sx = 0 /\ u.sy = 0 /\ u.tabs = DefaultTabs(wi) /\ u.alt = NoScreen
      /\ u.state = "LIT" /\ u.args = <<0>> /\ u.slen = 0 /\ u.decode = None /\ u.comb = C!NoCombinations
  BY DEF NewWindow, Fields
<1> HIDE DEF u
<1>2. Blank \in S
  BY GoodIs
<1> HIDE DEF S
<1>3. wi \in Nat /\ he \in Nat
  OBVIOUS
<1>4. Page(u.ml, u.hist, wi, he, S)
  <2>1. BlankLines(he, wi) \in [1 .. he -> Row(wi, S)] /\ BlankLines(hi, wi) \in Seq(Row(wi, S))
    BY <1>2, <1>3, BlankLinesAre
  <2>2. QED
    BY <1>1, <2>1 DEF Page
<1>5. Screen(u, S)
  BY <1>1, <1>4 DEF Screen
<1>6. Margins(u)
  BY <1>1 DEF Margins, DefaultTabs
<1>7. Parser(u)
  <2>1. <<0>> \in Seq(Nat) /\ <<0>> # <<>> /\ Len(<<0>>) = 1 /\ 1 <= MaxArgs + 1 /\ 0 < MaxStr /\ 0 \in Nat
    BY Sizes
  <2>2. "LIT" \in States
    BY DEF States
  <2>3. QED
    BY <1>1, <2>1, <2>2 DEF Parser
<1>8. Table(u.comb)
  BY <1>1, NoCombinationsIsTable
<1>9. QED
  BY <1>1, <1>5, <1>6, <1>7, <1>8 DEF Win, Spare, S, u

-----------------------------------------------------------------------------

\* Whatever bytes are written, however they are cut into chunks, and whatever size
\* and scrollback the window is given, it stays a window.
LEMMA ActionsKeep ==
  ASSUME Win(t), Next
  PROVE  Win(t')
<1>1. CASE Write
  BY <1>1, ChunksOfBytes, WriteStringKeeps DEF Write, Handle
<1>2. CASE Resize
  <2>1. PICK wi \in Widths, he \in Heights : t' = ChangeWindowSize(t, wi, he, Len(t.hist))
    BY <1>2 DEF Resize, Handle
  <2>2. Len(t.hist) \in Nat
    BY LenProperties DEF Win, Screen, Page
  <2>3. wi \in Nat /\ 2 <= wi /\ he \in Nat /\ 1 <= he
    BY Sizes
  <2>4. QED
    BY <2>1, <2>2, <2>3, ResizeKeeps
<1>3. CASE Scrollback
  <2>1. PICK hi \in Histories : t' = ChangeWindowSize(t, t.width, t.height, hi)
    BY <1>3 DEF Scrollback, Handle
  <2>2. hi \in Nat
    BY Sizes
  <2>3. QED
    BY <2>1, <2>2, WinNumbers, ResizeKeeps
<1>4. CASE Reset
  <2> DEFINE u == [t EXCEPT !.state = "LIT"]
  <2>1. Win(u)
    BY StateKeeps DEF States
  <2> HIDE DEF u
  <2>2. <<"ESC", "c">> \in Seq(Bytes)
    BY DEF Bytes
  <2> DEFINE chunk == <<"ESC", "c">>
  <2>3. t' = WriteString(u, chunk)
    BY <1>4 DEF Reset, Handle, u
  <2> HIDE DEF chunk
  <2>4. QED
    BY <2>1, <2>2, <2>3, WriteStringKeeps DEF chunk
<1>5. QED
  BY <1>1, <1>2, <1>3, <1>4 DEF Next

\* The window is a window in every state (Win), however the actions follow on
\* each other.  This is the inductive invariant of the emulator.
THEOREM WindowKept == Spec => []Win(t)
<1>1. Init => Win(t)
  <2> HAVE Init
  <2>1. PICK wi \in Widths, he \in Heights, hi \in Histories, chunk \in Start :
          t = WriteString(NewWindow(wi, he, hi), chunk)
    BY DEF Init
  <2>2. Win(NewWindow(wi, he, hi))
    BY Sizes, NewWindowIs
  <2>3. QED
    BY <2>1, <2>2, ChunksOfBytes, WriteStringKeeps
<1>2. Win(t) /\ [Next]_vars => Win(t)'
  BY ActionsKeep DEF vars
<1>3. QED
  BY <1>1, <1>2, PTL DEF Spec

\* Every line of a screen and of its scrollback is a row.
LEMMA LinesAre ==
  ASSUME NEW S, NEW u, Screen(u, S)
  PROVE  Len(u.ml) = u.height /\ \A l \in ToSet(u.ml \o u.hist) : l \in Row(u.width, S)
<1> DEFINE R == Row(u.width, S)
           rows == u.ml \o u.hist
<1>1. u.ml \in [1 .. u.height -> R] /\ u.hist \in Seq(R) /\ u.height \in Nat
  BY DEF Screen, Page
<1> HIDE DEF R
<1>2. u.ml \in Seq(R) /\ Len(u.ml) = u.height
  BY <1>1, TupleIs
<1>3. rows \in Seq(R)
  BY <1>1, <1>2, TwoIs
<1> HIDE DEF rows
<1>4. \A l \in ToSet(rows) : l \in R
  BY <1>3, LenProperties, ElementOfSeq DEF ToSet
<1>5. QED
  BY <1>2, <1>4 DEF R, rows

\* The same of the alternate screen, if there is one.
LEMMA SpareIs ==
  ASSUME NEW S, NEW a, Spare(a, S)
  PROVE  Len(a.ml) = a.height /\ a.width \in Nat /\ \A l \in ToSet(a.ml \o a.hist) : l \in Row(a.width, S)
<1>1. CASE a = NoScreen
  <2>1. a.ml = <<>> /\ a.hist = <<>> /\ a.width = 0 /\ a.height = 0
    BY <1>1 DEF NoScreen
  <2>2. <<>> \o <<>> = <<>> /\ Len(<<>>) = 0
    BY EmptySeq, ConcatEmptySeq
  <2>3. ToSet(a.ml \o a.hist) = {}
    BY <2>1, <2>2 DEF ToSet
  <2>4. QED
    BY <2>1, <2>2, <2>3
<1>2. CASE Screen(a, S)
  BY <1>2, LinesAre DEF Screen
<1>3. QED
  BY <1>1, <1>2 DEF Spare

\* A window has the types of TypeOK.
LEMMA WinTypes ==
  ASSUME Win(t)
  PROVE  TypeOK
<1> DEFINE S == Good(t.comb)
<1>1. Screen(t, S) /\ Spare(t.alt, S) /\ Parser(t) /\ t.tabs \subseteq 0 .. t.width
  BY DEF Win, Margins
<1> HIDE DEF S
<1>2. t.width \in Nat /\ Len(t.ml) = t.height /\ \A l \in ToSet(t.ml \o t.hist) : l \in Row(t.width, S)
  BY <1>1, LinesAre DEF Screen
<1>3. /\ t.alt.width \in Nat /\ Len(t.alt.ml) = t.alt.height
      /\ \A l \in ToSet(t.alt.ml \o t.alt.hist) : l \in Row(t.alt.width, S)
  BY <1>1, SpareIs
<1>4. ASSUME NEW u \in {t, t.alt}
      PROVE  Len(u.ml) = u.height /\ \A l \in ToSet(u.ml \o u.hist) : Len(l.c) = u.width /\ l.soft \in BOOLEAN
  <2>1. u.width \in Nat /\ Len(u.ml) = u.height /\ \A l \in ToSet(u.ml \o u.hist) : l \in Row(u.width, S)
    BY <1>2, <1>3
  <2>2. ASSUME NEW l \in Row(u.width, S) PROVE Len(l.c) = u.width /\ l.soft \in BOOLEAN
    BY <2>1, CellsAre
  <2>3. QED
    BY <2>1, <2>2
<1>5. QED
  BY <1>1, <1>4 DEF TypeOK, Parser

\* The cursor, the saved cursor and the margins stay inside the screen, and
\* every line has a cell for every column, for any output and any sizes: the
\* lines that ansi.c indexes with w_y, w_top and w_bot exist.
THEOREM CursorStaysInside == Spec => []CursorInside
<1>1. Win(t) => CursorInside
  <2> HAVE Win(t)
  <2>1. TypeOK
    BY WinTypes
  <2>2. QED
    BY <2>1, WinNumbers DEF CursorInside
<1>2. QED
  BY <1>1, WindowKept, PTL

\* The table of combined characters stays sound however many marks are written:
\* no cell of the screen, of the scrollback or of the alternate screen refers to
\* an entry that has been recycled, and no entry is made of itself.
THEOREM TableStaysSound == Spec => []TableSound
<1>1. Win(t) => TableSound
  <2> HAVE Win(t)
  <2> DEFINE S == Good(t.comb)
  <2>1. Screen(t, S) /\ Spare(t.alt, S) /\ Table(t.comb)
    BY DEF Win
  <2>2. \A c \in S : C!InUse(t.comb, c)
    BY DEF Good
  <2> HIDE DEF S
  <2>3. t.width \in Nat /\ \A l \in ToSet(t.ml \o t.hist) : l \in Row(t.width, S)
    BY <2>1, LinesAre DEF Screen
  <2>4. t.alt.width \in Nat /\ \A l \in ToSet(t.alt.ml \o t.alt.hist) : l \in Row(t.alt.width, S)
    BY <2>1, SpareIs
  <2>5. ASSUME NEW w \in Nat, NEW l \in Row(w, S), NEW c \in ToSet(l.c) PROVE C!InUse(t.comb, c)
    <3>1. c \in S
      BY CellsAre, ElementOfSeq DEF ToSet
    <3>2. QED
      BY <2>2, <3>1
  <2>6. AllInUse(t) /\ AllInUse(t.alt)
    BY <2>3, <2>4, <2>5 DEF AllInUse
  <2>7. QED
    BY <2>1, <2>6 DEF TableSound, Table
<1>2. QED
  BY <1>1, WindowKept, PTL
=============================================================================
