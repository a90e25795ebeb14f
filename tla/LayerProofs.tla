---------------------------- MODULE LayerProofs -----------------------------
(* Proofs about Windows, the first part: overlays, the chains they stand in, *)
(* the canvases that show them, and what goes when a layer, a canvas or a    *)
(* window is freed.                                                          *)
EXTENDS Windows, ListProofs, FiniteSetTheorems

\* Layers of different kinds are different, and none is the null pointer.
LEMMA Apart ==
  /\ None \notin Windows /\ None \notin Canvases /\ None \notin Overlays
  /\ None \notin Displays /\ None \notin Layouts
  /\ \A w \in Windows : w \notin Canvases /\ w \notin Overlays
  /\ \A c \in Canvases : c \notin Windows /\ c \notin Overlays
  /\ Layers = Windows \union Canvases \union Overlays
BY WindowsAssumption DEF Layers

-----------------------------------------------------------------------------
(* Loops.  Each loop of the code over a list is a fold; its body is one of   *)
(* the operators below, the first argument of which is the same in all its   *)
(* turns.  Turn has them all: one instance of the facts about folds serves   *)
(* every loop.                                                               *)

Leaves(par, u, i) == IF IsOverlay(u.flayer) THEN ExitOverlayPage(u) ELSE u
Skips(par, q, x) == IF x \in par THEN q ELSE Append(q, x)
Joins(par, q, d) == q \o par[d]
Bares(par, u, c) ==
  IF c # None /\ Shows(u, c) # par[1] THEN u
  ELSE ExitAll([u EXCEPT !.flayer = IF par[1] = None THEN par[2] ELSE IF c = None THEN u.save[par[1]] ELSE u.cl[c]])
Refits(par, u, c) == Refit(u, c)
Replaces(par, u, c) == Replace(u, par, c)
RoundDisplays(par, u, d) == ReplaceOnDisplay(u, par, d)
Frees(par, u, c) == IF c = par THEN u ELSE FreeCanvas(u, c)
Puts(par, v, c) == SetCanvasWindow(v, c, par[1].wins[Place(par[2], c)])
Empties(par, u, c) == SetCanvasWindow(u, c, None)
Makes(par, u, w) == MakeWindow(u)

Turn(par, v, x) ==
  CASE par[1] = "leaves" -> Leaves(par[2], v, x)
    [] par[1] = "skips" -> Skips(par[2], v, x)
    [] par[1] = "joins" -> Joins(par[2], v, x)
    [] par[1] = "bares" -> Bares(par[2], v, x)
    [] par[1] = "refits" -> Refits(par[2], v, x)
    [] par[1] = "replaces" -> Replaces(par[2], v, x)
    [] par[1] = "rounds" -> RoundDisplays(par[2], v, x)
    [] par[1] = "frees" -> Frees(par[2], v, x)
    [] par[1] = "puts" -> Puts(par[2], v, x)
    [] par[1] = "empties" -> Empties(par[2], v, x)
    [] par[1] = "makes" -> Makes(par[2], v, x)

L == INSTANCE ListProofs WITH op <- Turn

AllLeaves(par, base, seq) == FoldLeft(LAMBDA v, x : Leaves(par, v, x), base, seq)
AllSkips(par, base, seq) == FoldLeft(LAMBDA v, x : Skips(par, v, x), base, seq)
AllJoins(par, base, seq) == FoldLeft(LAMBDA v, x : Joins(par, v, x), base, seq)
AllBares(par, base, seq) == FoldLeft(LAMBDA v, x : Bares(par, v, x), base, seq)
AllRefits(par, base, seq) == FoldLeft(LAMBDA v, x : Refits(par, v, x), base, seq)
AllReplaces(par, base, seq) == FoldLeft(LAMBDA v, x : Replaces(par, v, x), base, seq)
AllRoundDisplays(par, base, seq) == FoldLeft(LAMBDA v, x : RoundDisplays(par, v, x), base, seq)
AllFrees(par, base, seq) == FoldLeft(LAMBDA v, x : Frees(par, v, x), base, seq)
AllPuts(par, base, seq) == FoldLeft(LAMBDA v, x : Puts(par, v, x), base, seq)
AllEmpties(par, base, seq) == FoldLeft(LAMBDA v, x : Empties(par, v, x), base, seq)
AllMakes(par, base, seq) == FoldLeft(LAMBDA v, x : Makes(par, v, x), base, seq)

\* What each turn of the loop keeps holds at its end.
LEMMA LeavesKeep ==
  ASSUME NEW par, NEW base, NEW seq, Len(seq) \in Nat, DOMAIN seq = 1 .. Len(seq),
         NEW S, base \in S[0],
         \A k \in 1 .. Len(seq) : \A v \in S[k - 1] : Leaves(par, v, seq[k]) \in S[k]
  PROVE  AllLeaves(par, base, seq) \in S[Len(seq)]
<1>1. \A v, x : Turn(<<"leaves", par>>, v, x) = Leaves(par, v, x)
  BY DEF Turn
<1> DEFINE m(z) == CHOOSE x \in z : \A y \in z : x >= y
           One(h) == [z \in SUBSET DOMAIN seq |->
                       IF z = {} THEN base ELSE Leaves(par, h[z \ {m(z)}], seq[m(z)])]
           Two(h) == [z \in SUBSET DOMAIN seq |->
                       IF z = {} THEN base ELSE Turn(<<"leaves", par>>, h[z \ {m(z)}], seq[m(z)])]
<1>2. AllLeaves(par, base, seq) = (CHOOSE h : h = One(h))[DOMAIN seq]
  BY DEF AllLeaves, FoldLeft, MapThenFoldSet, Max
<1>3. L!Folded(<<"leaves", par>>, base, seq) = (CHOOSE h : h = Two(h))[DOMAIN seq]
  BY DEF L!Folded, L!FoldLeft, L!MapThenFoldSet, L!Max
<1>4. \A h : One(h) = Two(h)
  BY <1>1
<1>5. (CHOOSE h : h = One(h)) = (CHOOSE h : h = Two(h))
  <2> HIDE DEF One, Two
  <2> QED
  BY <1>4, Zenon
<1>6. AllLeaves(par, base, seq) = L!Folded(<<"leaves", par>>, base, seq)
  BY <1>2, <1>3, <1>5
<1>7. \A k \in 1 .. Len(seq) : \A v \in S[k - 1] : Turn(<<"leaves", par>>, v, seq[k]) \in S[k]
  BY <1>1
<1>8. L!Folded(<<"leaves", par>>, base, seq) \in S[Len(seq)]
  BY <1>7, L!FoldKeeps
<1>9. QED
  BY <1>6, <1>8

\* What each turn of the loop keeps holds at its end.
LEMMA SkipsKeep ==
  ASSUME NEW par, NEW base, NEW seq, Len(seq) \in Nat, DOMAIN seq = 1 .. Len(seq),
         NEW S, base \in S[0],
         \A k \in 1 .. Len(seq) : \A v \in S[k - 1] : Skips(par, v, seq[k]) \in S[k]
  PROVE  AllSkips(par, base, seq) \in S[Len(seq)]
<1>1. \A v, x : Turn(<<"skips", par>>, v, x) = Skips(par, v, x)
  BY DEF Turn
<1> DEFINE m(z) == CHOOSE x \in z : \A y \in z : x >= y
           One(h) == [z \in SUBSET DOMAIN seq |->
                       IF z = {} THEN base ELSE Skips(par, h[z \ {m(z)}], seq[m(z)])]
           Two(h) == [z \in SUBSET DOMAIN seq |->
                       IF z = {} THEN base ELSE Turn(<<"skips", par>>, h[z \ {m(z)}], seq[m(z)])]
<1>2. AllSkips(par, base, seq) = (CHOOSE h : h = One(h))[DOMAIN seq]
  BY DEF AllSkips, FoldLeft, MapThenFoldSet, Max
<1>3. L!Folded(<<"skips", par>>, base, seq) = (CHOOSE h : h = Two(h))[DOMAIN seq]
  BY DEF L!Folded, L!FoldLeft, L!MapThenFoldSet, L!Max
<1>4. \A h : One(h) = Two(h)
  BY <1>1
<1>5. (CHOOSE h : h = One(h)) = (CHOOSE h : h = Two(h))
  <2> HIDE DEF One, Two
  <2> QED
  BY <1>4, Zenon
<1>6. AllSkips(par, base, seq) = L!Folded(<<"skips", par>>, base, seq)
  BY <1>2, <1>3, <1>5
<1>7. \A k \in 1 .. Len(seq) : \A v \in S[k - 1] : Turn(<<"skips", par>>, v, seq[k]) \in S[k]
  BY <1>1
<1>8. L!Folded(<<"skips", par>>, base, seq) \in S[Len(seq)]
  BY <1>7, L!FoldKeeps
<1>9. QED
  BY <1>6, <1>8

\* What each turn of the loop keeps holds at its end.
LEMMA JoinsKeep ==
  ASSUME NEW par, NEW base, NEW seq, Len(seq) \in Nat, DOMAIN seq = 1 .. Len(seq),
         NEW S, base \in S[0],
         \A k \in 1 .. Len(seq) : \A v \in S[k - 1] : Joins(par, v, seq[k]) \in S[k]
  PROVE  AllJoins(par, base, seq) \in S[Len(seq)]
<1>1. \A v, x : Turn(<<"joins", par>>, v, x) = Joins(par, v, x)
  BY DEF Turn
<1> DEFINE m(z) == CHOOSE x \in z : \A y \in z : x >= y
           One(h) == [z \in SUBSET DOMAIN seq |->
                       IF z = {} THEN base ELSE Joins(par, h[z \ {m(z)}], seq[m(z)])]
           Two(h) == [z \in SUBSET DOMAIN seq |->
                       IF z = {} THEN base ELSE Turn(<<"joins", par>>, h[z \ {m(z)}], seq[m(z)])]
<1>2. AllJoins(par, base, seq) = (CHOOSE h : h = One(h))[DOMAIN seq]
  BY DEF AllJoins, FoldLeft, MapThenFoldSet, Max
<1>3. L!Folded(<<"joins", par>>, base, seq) = (CHOOSE h : h = Two(h))[DOMAIN seq]
  BY DEF L!Folded, L!FoldLeft, L!MapThenFoldSet, L!Max
<1>4. \A h : One(h) = Two(h)
  BY <1>1
<1>5. (CHOOSE h : h = One(h)) = (CHOOSE h : h = Two(h))
  <2> HIDE DEF One, Two
  <2> QED
  BY <1>4, Zenon
<1>6. AllJoins(par, base, seq) = L!Folded(<<"joins", par>>, base, seq)
  BY <1>2, <1>3, <1>5
<1>7. \A k \in 1 .. Len(seq) : \A v \in S[k - 1] : Turn(<<"joins", par>>, v, seq[k]) \in S[k]
  BY <1>1
<1>8. L!Folded(<<"joins", par>>, base, seq) \in S[Len(seq)]
  BY <1>7, L!FoldKeeps
<1>9. QED
  BY <1>6, <1>8

\* What each turn of the loop keeps holds at its end.
LEMMA BaresKeep ==
  ASSUME NEW par, NEW base, NEW seq, Len(seq) \in Nat, DOMAIN seq = 1 .. Len(seq),
         NEW S, base \in S[0],
         \A k \in 1 .. Len(seq) : \A v \in S[k - 1] : Bares(par, v, seq[k]) \in S[k]
  PROVE  AllBares(par, base, seq) \in S[Len(seq)]
<1>1. \A v, x : Turn(<<"bares", par>>, v, x) = Bares(par, v, x)
  BY DEF Turn
<1> DEFINE m(z) == CHOOSE x \in z : \A y \in z : x >= y
           One(h) == [z \in SUBSET DOMAIN seq |->
                       IF z = {} THEN base ELSE Bares(par, h[z \ {m(z)}], seq[m(z)])]
           Two(h) == [z \in SUBSET DOMAIN seq |->
                       IF z = {} THEN base ELSE Turn(<<"bares", par>>, h[z \ {m(z)}], seq[m(z)])]
<1>2. AllBares(par, base, seq) = (CHOOSE h : h = One(h))[DOMAIN seq]
  BY DEF AllBares, FoldLeft, MapThenFoldSet, Max
<1>3. L!Folded(<<"bares", par>>, base, seq) = (CHOOSE h : h = Two(h))[DOMAIN seq]
  BY DEF L!Folded, L!FoldLeft, L!MapThenFoldSet, L!Max
<1>4. \A h : One(h) = Two(h)
  BY <1>1
<1>5. (CHOOSE h : h = One(h)) = (CHOOSE h : h = Two(h))
  <2> HIDE DEF One, Two
  <2> QED
  BY <1>4, Zenon
<1>6. AllBares(par, base, seq) = L!Folded(<<"bares", par>>, base, seq)
  BY <1>2, <1>3, <1>5
<1>7. \A k \in 1 .. Len(seq) : \A v \in S[k - 1] : Turn(<<"bares", par>>, v, seq[k]) \in S[k]
  BY <1>1
<1>8. L!Folded(<<"bares", par>>, base, seq) \in S[Len(seq)]
  BY <1>7, L!FoldKeeps
<1>9. QED
  BY <1>6, <1>8

\* What each turn of the loop keeps holds at its end.
LEMMA RefitsKeep ==
  ASSUME NEW par, NEW base, NEW seq, Len(seq) \in Nat, DOMAIN seq = 1 .. Len(seq),
         NEW S, base \in S[0],
         \A k \in 1 .. Len(seq) : \A v \in S[k - 1] : Refits(par, v, seq[k]) \in S[k]
  PROVE  AllRefits(par, base, seq) \in S[Len(seq)]
<1>1. \A v, x : Turn(<<"refits", par>>, v, x) = Refits(par, v, x)
  BY DEF Turn
<1> DEFINE m(z) == CHOOSE x \in z : \A y \in z : x >= y
           One(h) == [z \in SUBSET DOMAIN seq |->
                       IF z = {} THEN base ELSE Refits(par, h[z \ {m(z)}], seq[m(z)])]
           Two(h) == [z \in SUBSET DOMAIN seq |->
                       IF z = {} THEN base ELSE Turn(<<"refits", par>>, h[z \ {m(z)}], seq[m(z)])]
<1>2. AllRefits(par, base, seq) = (CHOOSE h : h = One(h))[DOMAIN seq]
  BY DEF AllRefits, FoldLeft, MapThenFoldSet, Max
<1>3. L!Folded(<<"refits", par>>, base, seq) = (CHOOSE h : h = Two(h))[DOMAIN seq]
  BY DEF L!Folded, L!FoldLeft, L!MapThenFoldSet, L!Max
<1>4. \A h : One(h) = Two(h)
  BY <1>1
<1>5. (CHOOSE h : h = One(h)) = (CHOOSE h : h = Two(h))
  <2> HIDE DEF One, Two
  <2> QED
  BY <1>4, Zenon
<1>6. AllRefits(par, base, seq) = L!Folded(<<"refits", par>>, base, seq)
  BY <1>2, <1>3, <1>5
<1>7. \A k \in 1 .. Len(seq) : \A v \in S[k - 1] : Turn(<<"refits", par>>, v, seq[k]) \in S[k]
  BY <1>1
<1>8. L!Folded(<<"refits", par>>, base, seq) \in S[Len(seq)]
  BY <1>7, L!FoldKeeps
<1>9. QED
  BY <1>6, <1>8

\* What each turn of the loop keeps holds at its end.
LEMMA ReplacesKeep ==
  ASSUME NEW par, NEW base, NEW seq, Len(seq) \in Nat, DOMAIN seq = 1 .. Len(seq),
         NEW S, base \in S[0],
         \A k \in 1 .. Len(seq) : \A v \in S[k - 1] : Replaces(par, v, seq[k]) \in S[k]
  PROVE  AllReplaces(par, base, seq) \in S[Len(seq)]
<1>1. \A v, x : Turn(<<"replaces", par>>, v, x) = Replaces(par, v, x)
  BY DEF Turn
<1> DEFINE m(z) == CHOOSE x \in z : \A y \in z : x >= y
           One(h) == [z \in SUBSET DOMAIN seq |->
                       IF z = {} THEN base ELSE Replaces(par, h[z \ {m(z)}], seq[m(z)])]
           Two(h) == [z \in SUBSET DOMAIN seq |->
                       IF z = {} THEN base ELSE Turn(<<"replaces", par>>, h[z \ {m(z)}], seq[m(z)])]
<1>2. AllReplaces(par, base, seq) = (CHOOSE h : h = One(h))[DOMAIN seq]
  BY DEF AllReplaces, FoldLeft, MapThenFoldSet, Max
<1>3. L!Folded(<<"replaces", par>>, base, seq) = (CHOOSE h : h = Two(h))[DOMAIN seq]
  BY DEF L!Folded, L!FoldLeft, L!MapThenFoldSet, L!Max
<1>4. \A h : One(h) = Two(h)
  BY <1>1
<1>5. (CHOOSE h : h = One(h)) = (CHOOSE h : h = Two(h))
  <2> HIDE DEF One, Two
  <2> QED
  BY <1>4, Zenon
<1>6. AllReplaces(par, base, seq) = L!Folded(<<"replaces", par>>, base, seq)
  BY <1>2, <1>3, <1>5
<1>7. \A k \in 1 .. Len(seq) : \A v \in S[k - 1] : Turn(<<"replaces", par>>, v, seq[k]) \in S[k]
  BY <1>1
<1>8. L!Folded(<<"replaces", par>>, base, seq) \in S[Len(seq)]
  BY <1>7, L!FoldKeeps
<1>9. QED
  BY <1>6, <1>8

\* What each turn of the loop keeps holds at its end.
LEMMA RoundDisplaysKeep ==
  ASSUME NEW par, NEW base, NEW seq, Len(seq) \in Nat, DOMAIN seq = 1 .. Len(seq),
         NEW S, base \in S[0],
         \A k \in 1 .. Len(seq) : \A v \in S[k - 1] : RoundDisplays(par, v, seq[k]) \in S[k]
  PROVE  AllRoundDisplays(par, base, seq) \in S[Len(seq)]
<1>1. \A v, x : Turn(<<"rounds", par>>, v, x) = RoundDisplays(par, v, x)
  BY DEF Turn
<1> DEFINE m(z) == CHOOSE x \in z : \A y \in z : x >= y
           One(h) == [z \in SUBSET DOMAIN seq |->
                       IF z = {} THEN base ELSE RoundDisplays(par, h[z \ {m(z)}], seq[m(z)])]
           Two(h) == [z \in SUBSET DOMAIN seq |->
                       IF z = {} THEN base ELSE Turn(<<"rounds", par>>, h[z \ {m(z)}], seq[m(z)])]
<1>2. AllRoundDisplays(par, base, seq) = (CHOOSE h : h = One(h))[DOMAIN seq]
  BY DEF AllRoundDisplays, FoldLeft, MapThenFoldSet, Max
<1>3. L!Folded(<<"rounds", par>>, base, seq) = (CHOOSE h : h = Two(h))[DOMAIN seq]
  BY DEF L!Folded, L!FoldLeft, L!MapThenFoldSet, L!Max
<1>4. \A h : One(h) = Two(h)
  BY <1>1
<1>5. (CHOOSE h : h = One(h)) = (CHOOSE h : h = Two(h))
  <2> HIDE DEF One, Two
  <2> QED
  BY <1>4, Zenon
<1>6. AllRoundDisplays(par, base, seq) = L!Folded(<<"rounds", par>>, base, seq)
  BY <1>2, <1>3, <1>5
<1>7. \A k \in 1 .. Len(seq) : \A v \in S[k - 1] : Turn(<<"rounds", par>>, v, seq[k]) \in S[k]
  BY <1>1
<1>8. L!Folded(<<"rounds", par>>, base, seq) \in S[Len(seq)]
  BY <1>7, L!FoldKeeps
<1>9. QED
  BY <1>6, <1>8

\* What each turn of the loop keeps holds at its end.
LEMMA FreesKeep ==
  ASSUME NEW par, NEW base, NEW seq, Len(seq) \in Nat, DOMAIN seq = 1 .. Len(seq),
         NEW S, base \in S[0],
         \A k \in 1 .. Len(seq) : \A v \in S[k - 1] : Frees(par, v, seq[k]) \in S[k]
  PROVE  AllFrees(par, base, seq) \in S[Len(seq)]
<1>1. \A v, x : Turn(<<"frees", par>>, v, x) = Frees(par, v, x)
  BY DEF Turn
<1> DEFINE m(z) == CHOOSE x \in z : \A y \in z : x >= y
           One(h) == [z \in SUBSET DOMAIN seq |->
                       IF z = {} THEN base ELSE Frees(par, h[z \ {m(z)}], seq[m(z)])]
           Two(h) == [z \in SUBSET DOMAIN seq |->
                       IF z = {} THEN base ELSE Turn(<<"frees", par>>, h[z \ {m(z)}], seq[m(z)])]
<1>2. AllFrees(par, base, seq) = (CHOOSE h : h = One(h))[DOMAIN seq]
  BY DEF AllFrees, FoldLeft, MapThenFoldSet, Max
<1>3. L!Folded(<<"frees", par>>, base, seq) = (CHOOSE h : h = Two(h))[DOMAIN seq]
  BY DEF L!Folded, L!FoldLeft, L!MapThenFoldSet, L!Max
<1>4. \A h : One(h) = Two(h)
  BY <1>1
<1>5. (CHOOSE h : h = One(h)) = (CHOOSE h : h = Two(h))
  <2> HIDE DEF One, Two
  <2> QED
  BY <1>4, Zenon
<1>6. AllFrees(par, base, seq) = L!Folded(<<"frees", par>>, base, seq)
  BY <1>2, <1>3, <1>5
<1>7. \A k \in 1 .. Len(seq) : \A v \in S[k - 1] : Turn(<<"frees", par>>, v, seq[k]) \in S[k]
  BY <1>1
<1>8. L!Folded(<<"frees", par>>, base, seq) \in S[Len(seq)]
  BY <1>7, L!FoldKeeps
<1>9. QED
  BY <1>6, <1>8

\* What each turn of the loop keeps holds at its end.
LEMMA PutsKeep ==
  ASSUME NEW par, NEW base, NEW seq, Len(seq) \in Nat, DOMAIN seq = 1 .. Len(seq),
         NEW S, base \in S[0],
         \A k \in 1 .. Len(seq) : \A v \in S[k - 1] : Puts(par, v, seq[k]) \in S[k]
  PROVE  AllPuts(par, base, seq) \in S[Len(seq)]
<1>1. \A v, x : Turn(<<"puts", par>>, v, x) = Puts(par, v, x)
  BY DEF Turn
<1> DEFINE m(z) == CHOOSE x \in z : \A y \in z : x >= y
           One(h) == [z \in SUBSET DOMAIN seq |->
                       IF z = {} THEN base ELSE Puts(par, h[z \ {m(z)}], seq[m(z)])]
           Two(h) == [z \in SUBSET DOMAIN seq |->
                       IF z = {} THEN base ELSE Turn(<<"puts", par>>, h[z \ {m(z)}], seq[m(z)])]
<1>2. AllPuts(par, base, seq) = (CHOOSE h : h = One(h))[DOMAIN seq]
  BY DEF AllPuts, FoldLeft, MapThenFoldSet, Max
<1>3. L!Folded(<<"puts", par>>, base, seq) = (CHOOSE h : h = Two(h))[DOMAIN seq]
  BY DEF L!Folded, L!FoldLeft, L!MapThenFoldSet, L!Max
<1>4. \A h : One(h) = Two(h)
  BY <1>1
<1>5. (CHOOSE h : h = One(h)) = (CHOOSE h : h = Two(h))
  <2> HIDE DEF One, Two
  <2> QED
  BY <1>4, Zenon
<1>6. AllPuts(par, base, seq) = L!Folded(<<"puts", par>>, base, seq)
  BY <1>2, <1>3, <1>5
<1>7. \A k \in 1 .. Len(seq) : \A v \in S[k - 1] : Turn(<<"puts", par>>, v, seq[k]) \in S[k]
  BY <1>1
<1>8. L!Folded(<<"puts", par>>, base, seq) \in S[Len(seq)]
  BY <1>7, L!FoldKeeps
<1>9. QED
  BY <1>6, <1>8

\* What each turn of the loop keeps holds at its end.
LEMMA EmptiesKeep ==
  ASSUME NEW par, NEW base, NEW seq, Len(seq) \in Nat, DOMAIN seq = 1 .. Len(seq),
         NEW S, base \in S[0],
         \A k \in 1 .. Len(seq) : \A v \in S[k - 1] : Empties(par, v, seq[k]) \in S[k]
  PROVE  AllEmpties(par, base, seq) \in S[Len(seq)]
<1>1. \A v, x : Turn(<<"empties", par>>, v, x) = Empties(par, v, x)
  BY DEF Turn
<1> DEFINE m(z) == CHOOSE x \in z : \A y \in z : x >= y
           One(h) == [z \in SUBSET DOMAIN seq |->
                       IF z = {} THEN base ELSE Empties(par, h[z \ {m(z)}], seq[m(z)])]
           Two(h) == [z \in SUBSET DOMAIN seq |->
                       IF z = {} THEN base ELSE Turn(<<"empties", par>>, h[z \ {m(z)}], seq[m(z)])]
<1>2. AllEmpties(par, base, seq) = (CHOOSE h : h = One(h))[DOMAIN seq]
  BY DEF AllEmpties, FoldLeft, MapThenFoldSet, Max
<1>3. L!Folded(<<"empties", par>>, base, seq) = (CHOOSE h : h = Two(h))[DOMAIN seq]
  BY DEF L!Folded, L!FoldLeft, L!MapThenFoldSet, L!Max
<1>4. \A h : One(h) = Two(h)
  BY <1>1
<1>5. (CHOOSE h : h = One(h)) = (CHOOSE h : h = Two(h))
  <2> HIDE DEF One, Two
  <2> QED
  BY <1>4, Zenon
<1>6. AllEmpties(par, base, seq) = L!Folded(<<"empties", par>>, base, seq)
  BY <1>2, <1>3, <1>5
<1>7. \A k \in 1 .. Len(seq) : \A v \in S[k - 1] : Turn(<<"empties", par>>, v, seq[k]) \in S[k]
  BY <1>1
<1>8. L!Folded(<<"empties", par>>, base, seq) \in S[Len(seq)]
  BY <1>7, L!FoldKeeps
<1>9. QED
  BY <1>6, <1>8

\* What each turn of the loop keeps holds at its end.
LEMMA MakesKeep ==
  ASSUME NEW par, NEW base, NEW seq, Len(seq) \in Nat, DOMAIN seq = 1 .. Len(seq),
         NEW S, base \in S[0],
         \A k \in 1 .. Len(seq) : \A v \in S[k - 1] : Makes(par, v, seq[k]) \in S[k]
  PROVE  AllMakes(par, base, seq) \in S[Len(seq)]
<1>1. \A v, x : Turn(<<"makes", par>>, v, x) = Makes(par, v, x)
  BY DEF Turn
<1> DEFINE m(z) == CHOOSE x \in z : \A y \in z : x >= y
           One(h) == [z \in SUBSET DOMAIN seq |->
                       IF z = {} THEN base ELSE Makes(par, h[z \ {m(z)}], seq[m(z)])]
           Two(h) == [z \in SUBSET DOMAIN seq |->
                       IF z = {} THEN base ELSE Turn(<<"makes", par>>, h[z \ {m(z)}], seq[m(z)])]
<1>2. AllMakes(par, base, seq) = (CHOOSE h : h = One(h))[DOMAIN seq]
  BY DEF AllMakes, FoldLeft, MapThenFoldSet, Max
<1>3. L!Folded(<<"makes", par>>, base, seq) = (CHOOSE h : h = Two(h))[DOMAIN seq]
  BY DEF L!Folded, L!FoldLeft, L!MapThenFoldSet, L!Max
<1>4. \A h : One(h) = Two(h)
  BY <1>1
<1>5. (CHOOSE h : h = One(h)) = (CHOOSE h : h = Two(h))
  <2> HIDE DEF One, Two
  <2> QED
  BY <1>4, Zenon
<1>6. AllMakes(par, base, seq) = L!Folded(<<"makes", par>>, base, seq)
  BY <1>2, <1>3, <1>5
<1>7. \A k \in 1 .. Len(seq) : \A v \in S[k - 1] : Turn(<<"makes", par>>, v, seq[k]) \in S[k]
  BY <1>1
<1>8. L!Folded(<<"makes", par>>, base, seq) \in S[Len(seq)]
  BY <1>7, L!FoldKeeps
<1>9. QED
  BY <1>6, <1>8

-----------------------------------------------------------------------------
(* Chains of layers.  b is the function `below': what it leads to has a      *)
(* lower rank, so chains end.                                                *)

Chained(b, l) ==
  LET chain[x \in Maybe(Layers)] == IF IsOverlay(x) THEN <<x>> \o chain[b[x]] ELSE <<>>
  IN chain[l]
Under(b, l) == ToSet(Chained(b, l))

RankedBy(b, r, n) ==
  /\ n \in Nat /\ r \in [Overlays -> 0 .. n] /\ b \in [Overlays -> Maybe(Layers)]
  /\ \A o \in Overlays : b[o] \in Overlays => r[b[o]] < r[o]

\* A chain depends on the links below the layers only.
LEMMA ChainIs ==
  ASSUME NEW t, NEW l
  PROVE  Chain(t, l) = Chained(t.below, l)
BY DEF Chain, Chained

\* The recursive function exists.
ChainTo(b, r, k, h) ==
  /\ h = [x \in Maybe(Layers) |-> h[x]]
  /\ \A x \in Maybe(Layers) : x \notin Overlays => h[x] = <<>>
  /\ \A x \in Overlays : r[x] < k => h[x] = <<x>> \o h[b[x]]

\* A function that follows chains of lower ranks can be made to follow those of rank k.
LEMMA ChainGrows ==
  ASSUME NEW b, NEW r, NEW n, RankedBy(b, r, n), NEW k \in Nat, NEW g, ChainTo(b, r, k, g)
  PROVE  \E h : ChainTo(b, r, k + 1, h)
<1> DEFINE h == [x \in Maybe(Layers) |-> IF x \in Overlays /\ r[x] = k THEN <<x>> \o g[b[x]] ELSE g[x]]
<1>1. h = [x \in Maybe(Layers) |-> h[x]]
  OBVIOUS
<1>2. \A x \in Maybe(Layers) : /\ x \in Overlays /\ r[x] = k => h[x] = <<x>> \o g[b[x]]
                               /\ ~(x \in Overlays /\ r[x] = k) => h[x] = g[x]
  OBVIOUS
<1> HIDE DEF h
<1>3. \A x \in Maybe(Layers) : x \notin Overlays => h[x] = <<>>
  BY <1>2 DEF ChainTo
<1>4. ASSUME NEW x \in Overlays, r[x] < k + 1 PROVE h[x] = <<x>> \o h[b[x]]
  <2>0. x \in Maybe(Layers)
    BY DEF Maybe, Layers
  <2>1. r[x] \in 0 .. n /\ n \in Nat /\ b[x] \in Maybe(Layers) /\ x \in Maybe(Layers)
    BY <2>0 DEF RankedBy
  <2>2. b[x] \in Overlays => r[b[x]] \in 0 .. n /\ r[b[x]] < r[x]
    BY DEF RankedBy
  <2>3. ~(b[x] \in Overlays /\ r[b[x]] = k)
    BY <1>4, <2>1, <2>2
  <2>7. h[b[x]] = g[b[x]]
    BY <1>2, <2>1, <2>3
  <2>4. CASE r[x] = k
    BY <1>2, <2>1, <2>7, <2>4
  <2>5. CASE r[x] < k
    BY <1>2, <2>1, <2>7, <2>5 DEF ChainTo
  <2>6. QED
    BY <1>4, <2>1, <2>4, <2>5
<1>5. ChainTo(b, r, k + 1, h)
  BY <1>1, <1>3, <1>4 DEF ChainTo
<1>6. QED
  BY <1>5

\* Some function follows every chain.
LEMMA ChainExists ==
  ASSUME NEW b, NEW r, NEW n, RankedBy(b, r, n)
  PROVE  \E h : ChainTo(b, r, n + 1, h)
<1> DEFINE T == {k \in 0 .. n + 1 : \E h : ChainTo(b, r, k, h)}
<1>0. n \in Nat /\ \A x \in Overlays : r[x] \in 0 .. n
  BY DEF RankedBy
<1>1. 0 \in T
  <2> DEFINE h == [x \in Maybe(Layers) |-> <<>>]
  <2>1. h = [x \in Maybe(Layers) |-> h[x]] /\ \A x \in Maybe(Layers) : h[x] = <<>>
    OBVIOUS
  <2> HIDE DEF h
  <2>2. ChainTo(b, r, 0, h)
    BY <1>0, <2>1 DEF ChainTo
  <2>3. 0 \in 0 .. n + 1
    BY <1>0
  <2>4. QED
    BY <2>2, <2>3
<1>2. ASSUME NEW k \in 0 .. (n + 1) - 1, k \in T PROVE k + 1 \in T
  <2>1. PICK g : ChainTo(b, r, k, g)
    BY <1>2
  <2>2. k \in Nat /\ k + 1 \in 0 .. n + 1
    BY <1>0
  <2>3. \E h : ChainTo(b, r, k + 1, h)
    BY <2>1, <2>2, ChainGrows
  <2>4. QED
    BY <2>2, <2>3
<1> HIDE DEF T
<1>3. n + 1 \in T
  BY <1>0, <1>1, <1>2, UpTo
<1>4. QED
  BY <1>3 DEF T

\* What Chain does at each layer.
LEMMA ChainedIs ==
  ASSUME NEW b, NEW r, NEW n, RankedBy(b, r, n), NEW l \in Maybe(Layers)
  PROVE  Chained(b, l) = IF l \in Overlays THEN <<l>> \o Chained(b, b[l]) ELSE <<>>
<1> DEFINE Body(h) == [x \in Maybe(Layers) |-> IF IsOverlay(x) THEN <<x>> \o h[b[x]] ELSE <<>>]
           it == CHOOSE h : h = Body(h)
<1>1. \A x : Chained(b, x) = it[x]
  BY DEF Chained
<1>2. PICK h : ChainTo(b, r, n + 1, h)
  BY ChainExists
<1>3. h = Body(h)
  <2>1. \A x \in Overlays : r[x] < n + 1
    BY DEF RankedBy
  <2>2. \A x \in Maybe(Layers) : h[x] = IF IsOverlay(x) THEN <<x>> \o h[b[x]] ELSE <<>>
    BY <1>2, <2>1 DEF ChainTo, IsOverlay
  <2>3. h = [x \in Maybe(Layers) |-> h[x]]
    BY <1>2 DEF ChainTo
  <2>4. QED
    BY <2>2, <2>3
<1>4. it = Body(it)
  <2> HIDE DEF Body
  <2>1. \E x : x = Body(x)
    BY <1>3
  <2>2. QED
    BY <2>1
<1> HIDE DEF it
<1>5. \A x \in Maybe(Layers) :
        /\ IsOverlay(x) => it[x] = <<x>> \o it[b[x]]
        /\ ~IsOverlay(x) => it[x] = <<>>
  BY <1>4
<1> HIDE DEF Body
<1>6. CASE l \in Overlays
  <2>1. Chained(b, l) = <<l>> \o Chained(b, b[l])
    BY <1>1, <1>5, <1>6 DEF IsOverlay
  <2>2. QED
    BY <1>6, <2>1
<1>7. CASE l \notin Overlays
  <2>1. Chained(b, l) = <<>>
    BY <1>1, <1>5, <1>7 DEF IsOverlay
  <2>2. QED
    BY <1>7, <2>1
<1>8. QED
  BY <1>6, <1>7

\* Induction along a chain: what holds of l if it holds of what is below l.
Lower(b, r, k) == {l \in Overlays : r[l] < k}

\* What is inherited from the layer below holds of all overlays.
LEMMA Downwards ==
  ASSUME NEW b, NEW r, NEW n, RankedBy(b, r, n), NEW P,
         \A l \in Overlays : (b[l] \in Overlays => b[l] \in P) => l \in P
  PROVE  Overlays \subseteq P
<1> DEFINE T == {k \in 0 .. n + 1 : Lower(b, r, k) \subseteq P}
<1>0. n \in Nat /\ \A x \in Overlays : r[x] \in 0 .. n
  BY DEF RankedBy
<1>1. 0 \in T
  BY <1>0 DEF Lower
<1>2. ASSUME NEW k \in 0 .. (n + 1) - 1, k \in T PROVE k + 1 \in T
  <2>1. ASSUME NEW l \in Overlays, r[l] < k + 1 PROVE l \in P
    <3>1. b[l] \in Overlays => r[b[l]] < k
      <4>1. b[l] \in Overlays => r[b[l]] < r[l] /\ r[b[l]] \in 0 .. n
        BY <1>0 DEF RankedBy
      <4>2. QED
        BY <4>1, <1>0, <2>1
    <3>2. b[l] \in Overlays => b[l] \in P
      BY <1>2, <3>1 DEF Lower
    <3>3. QED
      BY <3>2
  <2>2. k + 1 \in 0 .. n + 1
    BY <1>0
  <2>3. QED
    BY <2>1, <2>2 DEF Lower
<1> HIDE DEF T
<1>3. n + 1 \in T
  BY <1>0, <1>1, <1>2, UpTo
<1>4. \A x \in Overlays : r[x] < n + 1
  BY <1>0
<1>5. QED
  BY <1>3, <1>4 DEF T, Lower

\* A chain is a list of overlays.
LEMMA ChainedType ==
  ASSUME NEW b, NEW r, NEW n, RankedBy(b, r, n), NEW l \in Maybe(Layers)
  PROVE  Chained(b, l) \in Seq(Overlays)
<1> DEFINE P == {x \in Overlays : Chained(b, x) \in Seq(Overlays)}
<1>0. \A x \in Overlays : b[x] \in Maybe(Layers) /\ x \in Maybe(Layers)
  BY DEF RankedBy, Maybe, Layers
<1>1. \A x \in Maybe(Layers) : x \notin Overlays => Chained(b, x) \in Seq(Overlays)
  <2>1. <<>> \in Seq(Overlays)
    OBVIOUS
  <2>2. QED
    BY <2>1, ChainedIs
<1>2. ASSUME NEW x \in Overlays, b[x] \in Overlays => b[x] \in P PROVE x \in P
  <2>1. Chained(b, b[x]) \in Seq(Overlays)
    BY <1>0, <1>1, <1>2
  <2>2. Chained(b, x) = <<x>> \o Chained(b, b[x])
    BY <1>0, ChainedIs
  <2>3. <<x>> \in Seq(Overlays)
    OBVIOUS
  <2>4. QED
    BY <2>1, <2>2, <2>3, ConcatProperties
<1> HIDE DEF P
<1>3. Overlays \subseteq P
  BY <1>2, Downwards
<1>4. QED
  BY <1>1, <1>3 DEF P

\* The elements of a list with one more in front.
LEMMA Consed ==
  ASSUME NEW S, NEW s1 \in Seq(S), NEW x \in S
  PROVE  /\ <<x>> \o s1 \in Seq(S) /\ <<x>> \o s1 # <<>>
         /\ ToSet(<<x>> \o s1) = {x} \union ToSet(s1)
         /\ IsInjective(s1) /\ x \notin ToSet(s1) => IsInjective(<<x>> \o s1)
<1> DEFINE u == <<x>> \o s1
           n == Len(s1)
<1>1. n \in Nat /\ DOMAIN s1 = 1 .. n
  BY LenProperties
<1>2. <<x>> \in Seq(S) /\ Len(<<x>>) = 1 /\ <<x>>[1] = x
  OBVIOUS
<1>3. /\ u \in Seq(S) /\ Len(u) = n + 1
      /\ \A i \in 1 .. n + 1 : u[i] = IF i <= 1 THEN <<x>>[i] ELSE s1[i - 1]
  BY <1>1, <1>2, ConcatProperties
<1> HIDE DEF u
<1>4. DOMAIN u = 1 .. n + 1 /\ u # <<>>
  BY <1>1, <1>3, LenProperties
<1> HIDE DEF n
<1>5. u[1] = x /\ \A i \in 1 .. n : u[i + 1] = s1[i]
  BY <1>1, <1>2, <1>3
<1>6. \A i \in 1 .. n + 1 : i = 1 \/ (i - 1 \in 1 .. n /\ i = (i - 1) + 1)
  BY <1>1
<1>7. 1 \in 1 .. n + 1 /\ \A i \in 1 .. n : i + 1 \in 1 .. n + 1
  BY <1>1
<1>8. ToSet(u) = {x} \union ToSet(s1)
  <2>1. ToSet(u) = {u[i] : i \in 1 .. n + 1} /\ ToSet(s1) = {s1[i] : i \in 1 .. n}
    BY <1>1, <1>4 DEF ToSet
  <2>2. \A i \in 1 .. n + 1 : u[i] = x \/ u[i] \in {s1[j] : j \in 1 .. n}
    BY <1>5, <1>6
  <2>3. \A i \in 1 .. n : s1[i] \in {u[j] : j \in 1 .. n + 1}
    BY <1>5, <1>7
  <2>4. x \in {u[j] : j \in 1 .. n + 1}
    BY <1>5, <1>7
  <2>5. QED
    BY <2>1, <2>2, <2>3, <2>4
<1>9. ASSUME IsInjective(s1), x \notin ToSet(s1), NEW i \in 1 .. n + 1, NEW j \in 1 .. n + 1, u[i] = u[j]
      PROVE  i = j
  <2>1. \A k \in 1 .. n : s1[k] \in ToSet(s1)
    BY <1>1 DEF ToSet
  <2>2. CASE i = 1 \/ j = 1
    BY <1>5, <1>6, <1>9, <2>1, <2>2
  <2>3. CASE i # 1 /\ j # 1
    <3>1. s1[i - 1] = s1[j - 1] /\ i - 1 \in 1 .. n /\ j - 1 \in 1 .. n
      BY <1>5, <1>6, <1>9, <2>3
    <3>2. i - 1 = j - 1
      BY <1>1, <1>9, <3>1 DEF IsInjective
    <3>3. QED
      BY <3>2
  <2>4. QED
    BY <2>2, <2>3
<1>10. IsInjective(s1) /\ x \notin ToSet(s1) => IsInjective(u)
  BY <1>4, <1>9 DEF IsInjective
<1>11. QED
  BY <1>3, <1>4, <1>8, <1>10 DEF u

\* A list is empty when nothing is in it.
LEMMA EmptyList ==
  ASSUME NEW S, NEW q \in Seq(S)
  PROVE  q = <<>> <=> ToSet(q) = {}
<1>1. ToSet(<<>>) = {}
  BY DEF ToSet
<1>2. ASSUME ToSet(q) = {} PROVE q = <<>>
  <2>1. DOMAIN q = 1 .. Len(q) /\ Len(q) \in Nat
    BY LenProperties
  <2>2. ~(1 \in DOMAIN q)
    BY <1>2 DEF ToSet
  <2>3. Len(q) = 0
    BY <2>1, <2>2
  <2>4. QED
    BY <2>3, EmptySeq
<1>3. QED
  BY <1>1, <1>2

\* A list without repetitions is as long as it has elements.
LEMMA ListCount ==
  ASSUME NEW S, NEW q \in Seq(S), IsInjective(q)
  PROVE  IsFiniteSet(ToSet(q)) /\ Cardinality(ToSet(q)) = Len(q)
<1> DEFINE n == Len(q)
           T == ToSet(q)
<1>1. n \in Nat /\ DOMAIN q = 1 .. n /\ q \in [1 .. n -> S]
  BY LenProperties
<1>2. T = {q[i] : i \in 1 .. n}
  BY <1>1 DEF ToSet
<1> HIDE DEF T, n
<1>3. q \in [1 .. n -> T]
  BY <1>1, <1>2
<1>4. \A i, j \in 1 .. n : q[i] = q[j] => i = j
  BY <1>1 DEF IsInjective
<1>5. q \in Bijection(1 .. n, T)
  BY <1>2, <1>3, <1>4 DEF Bijection, Injection, Surjection, IsInjective
<1>6. IsFiniteSet(1 .. n) /\ Cardinality(1 .. n) = n
  BY <1>1, FS_Interval
<1>7. IsFiniteSet(T) /\ Cardinality(T) = n
  BY <1>5, <1>6, FS_Bijection DEF ExistsBijection
<1>8. QED
  BY <1>7 DEF T, n

\* Two lists with nothing in common, one behind the other.
LEMMA ListsJoined ==
  ASSUME NEW S, NEW p \in Seq(S), NEW q \in Seq(S), IsInjective(p), IsInjective(q), ToSet(p) \intersect ToSet(q) = {}
  PROVE  ToSet(p \o q) = ToSet(p) \union ToSet(q) /\ IsInjective(p \o q)
<1> DEFINE u == p \o q
           m == Len(p)
           n == Len(q)
<1>1. /\ m \in Nat /\ DOMAIN p = 1 .. m /\ n \in Nat /\ DOMAIN q = 1 .. n
      /\ u \in Seq(S) /\ Len(u) = m + n
      /\ \A i \in 1 .. m + n : u[i] = IF i <= m THEN p[i] ELSE q[i - m]
  BY LenProperties, ConcatProperties
<1>2. DOMAIN u = 1 .. m + n
  BY <1>1, LenProperties
<1> HIDE DEF u, m, n
<1>3. /\ \A i \in 1 .. m : i \in 1 .. m + n /\ u[i] = p[i]
      /\ \A i \in 1 .. n : i + m \in 1 .. m + n /\ u[i + m] = q[i]
      /\ \A i \in 1 .. m + n : i \in 1 .. m \/ (i - m \in 1 .. n /\ (i - m) + m = i)
  <2>1. \A i \in 1 .. n : (i + m) - m = i /\ ~(i + m <= m) /\ i + m \in 1 .. m + n
    BY <1>1
  <2>2. QED
    BY <1>1, <2>1
<1>4. ToSet(u) = {u[i] : i \in 1 .. m + n} /\ ToSet(p) = {p[i] : i \in 1 .. m} /\ ToSet(q) = {q[i] : i \in 1 .. n}
  BY <1>1, <1>2 DEF ToSet
<1>5. ToSet(u) = ToSet(p) \union ToSet(q)
  <2>1. ASSUME NEW i \in 1 .. m + n PROVE u[i] \in {p[j] : j \in 1 .. m} \union {q[j] : j \in 1 .. n}
    BY <1>3
  <2>2. \A i \in 1 .. m : p[i] \in {u[j] : j \in 1 .. m + n}
    BY <1>3
  <2>3. \A i \in 1 .. n : q[i] \in {u[j] : j \in 1 .. m + n}
    BY <1>3
  <2>4. QED
    BY <1>4, <2>1, <2>2, <2>3
<1>6. ASSUME NEW i \in 1 .. m + n, NEW j \in 1 .. m + n, u[i] = u[j] PROVE i = j
  <2>1. \A k \in 1 .. m : \A h \in 1 .. n : p[k] # q[h]
    BY <1>4
  <2>2. CASE i \in 1 .. m /\ j \in 1 .. m
    BY <1>1, <1>3, <1>6, <2>2 DEF IsInjective
  <2>3. CASE i - m \in 1 .. n /\ j - m \in 1 .. n /\ (i - m) + m = i /\ (j - m) + m = j
    <3>1. q[i - m] = q[j - m]
      BY <1>3, <1>6, <2>3
    <3>2. i - m = j - m
      BY <1>1, <2>3, <3>1 DEF IsInjective
    <3>3. QED
      BY <2>3, <3>2
  <2>4. QED
    BY <1>3, <1>6, <2>1, <2>2, <2>3
<1>7. QED
  BY <1>2, <1>5, <1>6 DEF u, IsInjective

\* The set of overlays from l down.
LEMMA UnderIs ==
  ASSUME NEW b, NEW r, NEW n, RankedBy(b, r, n), NEW l \in Maybe(Layers)
  PROVE  /\ Under(b, l) = IF l \in Overlays THEN {l} \union Under(b, b[l]) ELSE {}
         /\ Under(b, l) \subseteq Overlays
<1>1. Chained(b, l) \in Seq(Overlays)
  BY ChainedType
<1>2. Under(b, l) \subseteq Overlays
  BY <1>1, ElementOfSeq, LenProperties DEF Under, ToSet
<1>3. CASE l \in Overlays
  <2>1. b[l] \in Maybe(Layers)
    BY <1>3 DEF RankedBy
  <2>2. Chained(b, b[l]) \in Seq(Overlays)
    BY <2>1, ChainedType
  <2>3. Chained(b, l) = <<l>> \o Chained(b, b[l])
    BY <1>3, ChainedIs
  <2>4. QED
    BY <1>2, <1>3, <2>2, <2>3, Consed DEF Under
<1>4. CASE l \notin Overlays
  <2>1. Chained(b, l) = <<>>
    BY <1>4, ChainedIs
  <2>2. ToSet(<<>>) = {}
    BY DEF ToSet
  <2>3. QED
    BY <1>2, <1>4, <2>1, <2>2 DEF Under
<1>5. QED
  BY <1>3, <1>4

\* All but the first lie under another one of the chain; a chain goes on down.
LEMMA UnderLinks ==
  ASSUME NEW b, NEW r, NEW n, RankedBy(b, r, n), NEW l \in Maybe(Layers)
  PROVE  \A o \in Under(b, l) : /\ o = l \/ \E y \in Under(b, l) : b[y] = o
                                /\ b[o] \in Overlays => b[o] \in Under(b, l)
<1> DEFINE Good(x) == \A o \in Under(b, x) : /\ o = x \/ \E y \in Under(b, x) : b[y] = o
                                             /\ b[o] \in Overlays => b[o] \in Under(b, x)
           P == {x \in Overlays : Good(x)}
<1>0. \A x \in Overlays : b[x] \in Maybe(Layers) /\ x \in Maybe(Layers)
  BY DEF RankedBy, Maybe, Layers
<1>1. \A x \in Maybe(Layers) : x \notin Overlays => Under(b, x) = {}
  BY UnderIs
<1>2. ASSUME NEW x \in Overlays, b[x] \in Overlays => b[x] \in P PROVE x \in P
  <2>1. Under(b, x) = {x} \union Under(b, b[x])
    BY <1>0, UnderIs
  <2>2. b[x] \in Overlays => b[x] \in Under(b, b[x])
    BY <1>0, UnderIs
  <2>3. Good(b[x])
    BY <1>0, <1>1, <1>2
  <2>4. Good(x)
    BY <2>1, <2>2, <2>3
  <2>5. QED
    BY <2>4
<1> HIDE DEF P
<1>3. Overlays \subseteq P
  BY <1>2, Downwards
<1>4. QED
  BY <1>1, <1>3 DEF P

\* A chain stays the same when nothing in it changes.
LEMMA UnderSame ==
  ASSUME NEW b, NEW r, NEW n, RankedBy(b, r, n), NEW b2, NEW r2, NEW n2, RankedBy(b2, r2, n2),
         NEW l \in Maybe(Layers), \A o \in Under(b, l) : b2[o] = b[o]
  PROVE  Under(b2, l) = Under(b, l)
<1> DEFINE P == {x \in Overlays : (\A o \in Under(b, x) : b2[o] = b[o]) => Under(b2, x) = Under(b, x)}
<1>0. \A x \in Overlays : b[x] \in Maybe(Layers) /\ x \in Maybe(Layers)
  BY DEF RankedBy, Maybe, Layers
<1>1. \A x \in Maybe(Layers) : x \notin Overlays => Under(b, x) = {} /\ Under(b2, x) = {}
  BY UnderIs
<1>2. ASSUME NEW x \in Overlays, b[x] \in Overlays => b[x] \in P PROVE x \in P
  <2>1. SUFFICES ASSUME \A o \in Under(b, x) : b2[o] = b[o] PROVE Under(b2, x) = Under(b, x)
    OBVIOUS
  <2>2. Under(b, x) = {x} \union Under(b, b[x]) /\ Under(b2, x) = {x} \union Under(b2, b2[x])
    BY <1>0, UnderIs
  <2>3. b2[x] = b[x] /\ \A o \in Under(b, b[x]) : b2[o] = b[o]
    BY <2>1, <2>2
  <2>4. Under(b2, b[x]) = Under(b, b[x])
    BY <1>0, <1>1, <1>2, <2>3
  <2>5. QED
    BY <2>2, <2>3, <2>4
<1> HIDE DEF P
<1>3. Overlays \subseteq P
  BY <1>2, Downwards
<1>4. QED
  BY <1>1, <1>3 DEF P

-----------------------------------------------------------------------------
(* The invariant that holds also between the calls of one event.  E is the   *)
(* only overlay that may be lost: the one that is about to go.               *)

Existing(t) == {w \in Windows : t.save[w] # None}
Owned(t) == {c \in Canvases : t.owner[c] # None}
OnOthers(t) == {o \in Overlays : t.below[o] # None}
Alive(t) == Existing(t) \union Owned(t) \union OnOthers(t)
Bare(t, l) == \A c \in Canvases : t.cl[c] # l
Top(t, l) == \A o \in Overlays : t.below[o] # l

\* A layer and the canvases that show it know of each other.
ListsOf(on, cl) == \A l \in Layers : IsInjective(on[l]) /\ ToSet(on[l]) = {c \in Canvases : cl[c] = l}
Lists(t) == ListsOf(t.on, t.cl)
\* A canvas shows a layer of a window or one on its own blank layer.
Homes(t) == \A c \in Canvases : t.cl[c] # None =>
  /\ t.cl[c] \in Alive(t) /\ t.owner[c] # None
  /\ Bottom(t, t.cl[c]) \in Windows \/ Bottom(t, t.cl[c]) = c
\* Chains end.
Ranked(t) == \E n, r : RankedBy(t.below, r, n)
\* An overlay knows the window or the canvas at the end of its chain.
Based(t) == \A o \in Overlays :
  /\ t.below[o] = None => t.base[o] = None /\ o \notin t.blocking
  /\ t.below[o] # None => /\ t.below[o] \in Alive(t) /\ t.base[o] = Bottom(t, t.below[o])
                          /\ t.base[o] \in Existing(t) \union Owned(t)
\* What is covered by an overlay is not shown and not saved, except for windows.
Covered(t) == \A o \in OnOthers(t) : t.below[o] \notin Windows =>
  /\ Bare(t, t.below[o]) /\ \A w \in Windows : t.save[w] # t.below[o]
  /\ \A x \in Overlays : t.below[x] = t.below[o] => x = o
Kept(t, e) == \A o \in OnOthers(t) :
  o = e \/ ~Bare(t, o) \/ (\E w \in Windows : t.save[w] = o) \/ ~Top(t, o)
Saved(t) == \A w \in Existing(t) : t.save[w] \in Alive(t) /\ Bottom(t, t.save[w]) = w
\* At most one overlay blocks a window; it ends the chain to show with it.
Blocks(t) == \A w \in Windows :
  /\ t.blocked[w] \in {0, 1}
  /\ t.blocked[w] = 0 => \A o \in t.blocking : t.below[o] # w
  /\ t.blocked[w] = 1 => \E o \in t.blocking : t.below[o] = w
  /\ \A o \in t.blocking : t.below[o] = w =>
       Bare(t, w) /\ o \in Under(t.below, t.save[w]) /\ \A x \in t.blocking : t.below[x] = w => x = o
Points(t) ==
  /\ t.fore \in Maybe(Existing(t)) /\ t.flayer \in Maybe(Alive(t))
  /\ \A d \in Displays : t.dfore[d] \in Maybe(Existing(t)) /\ t.dother[d] \in Maybe(Existing(t))
Listed(t) == IsInjective(t.mru) /\ ToSet(t.mru) \subseteq Existing(t)

Core(t, e) ==
  /\ t \in Screens /\ Lists(t) /\ Homes(t) /\ Ranked(t) /\ Based(t) /\ Covered(t)
  /\ Kept(t, e) /\ Saved(t) /\ Blocks(t) /\ Points(t) /\ Listed(t)

\* The fields that the operators on layers leave alone.
Calm(t, u) ==
  /\ u.mru = t.mru /\ u.owner = t.owner /\ u.start = t.start
  /\ u.displays = t.displays /\ u.cvs = t.cvs /\ u.forecv = t.forecv /\ u.dfore = t.dfore
  /\ u.dother = t.dother /\ u.dlayout = t.dlayout /\ u.layouts = t.layouts /\ u.lay = t.lay
  /\ u.last = t.last /\ u.detachwin = t.detachwin /\ u.detachotherwin = t.detachotherwin
  /\ u.display = t.display /\ u.fore = t.fore

\* A screen is a record of these fields.
Whole(u) ==
  u = [mru |-> u.mru, cl |-> u.cl, owner |-> u.owner, on |-> u.on, below |-> u.below, base |-> u.base,
       start |-> u.start, kind |-> u.kind, blocking |-> u.blocking, size |-> u.size, save |-> u.save,
       blocked |-> u.blocked, displays |-> u.displays, cvs |-> u.cvs, forecv |-> u.forecv,
       dfore |-> u.dfore, dother |-> u.dother, dlayout |-> u.dlayout, layouts |-> u.layouts,
       lay |-> u.lay, last |-> u.last, detachwin |-> u.detachwin,
       detachotherwin |-> u.detachotherwin, display |-> u.display, fore |-> u.fore, flayer |-> u.flayer]
LayersTyped(u) ==
  /\ u.cl \in [Canvases -> Maybe(Layers)] /\ u.on \in [Layers -> Seq(Canvases)]
  /\ u.below \in [Overlays -> Maybe(Layers)] /\ u.base \in [Overlays -> Maybe(Layers)]
  /\ u.blocking \in SUBSET Overlays /\ u.save \in [Windows -> Maybe(Layers)]
  /\ u.blocked \in [Windows -> 0 .. 2] /\ u.flayer \in Maybe(Layers)
LooksTyped(u) == u.kind \in [Overlays -> Kinds] /\ u.size \in [Layers -> Sizes]
OthersTyped(u) ==
  /\ u.mru \in Seq(Windows) /\ u.owner \in [Canvases -> Maybe(Displays)]
  /\ u.start \in [Overlays -> Maybe(Windows) \union {"gone"}]
  /\ u.displays \in Seq(Displays) /\ u.cvs \in [Displays -> Seq(Canvases)]
  /\ u.forecv \in [Displays -> Maybe(Canvases)] /\ u.dfore \in [Displays -> Maybe(Windows)]
  /\ u.dother \in [Displays -> Maybe(Windows)] /\ u.dlayout \in [Displays -> Maybe(Layouts)]
  /\ u.layouts \in Seq(Layouts) /\ u.lay \in [Layouts -> [wins : Seq(Maybe(Windows)), focus : Nat]]
  /\ u.last \in Maybe(Layouts) /\ u.detachwin \in Maybe(Windows) /\ u.detachotherwin \in Maybe(Windows)
  /\ u.display \in Maybe(Displays) /\ u.fore \in Maybe(Windows)

\* The types of the fields, in groups.
LEMMA Types ==
  ASSUME NEW t \in Screens
  PROVE  Whole(t) /\ LayersTyped(t) /\ LooksTyped(t) /\ OthersTyped(t)
<1>1. Whole(t)
  BY DEF Screens, Whole
<1>2. LayersTyped(t) /\ LooksTyped(t) /\ OthersTyped(t)
  BY DEF Screens, LayersTyped, LooksTyped, OthersTyped
<1>3. QED
  BY <1>1, <1>2

\* The groups together make a record of screens.
LEMMA IsScreen ==
  ASSUME NEW u, Whole(u), LayersTyped(u), LooksTyped(u), OthersTyped(u)
  PROVE  u \in Screens
BY DEF Screens, Whole, LayersTyped, LooksTyped, OthersTyped

\* What a step leaves alone keeps its type.
LEMMA CalmType ==
  ASSUME NEW t, NEW u, Calm(t, u), OthersTyped(t)
  PROVE  OthersTyped(u)
BY DEF Calm, OthersTyped

-----------------------------------------------------------------------------
(* ExitOverlayPage.                                                          *)

Unblocked(t) == IF Unblocks(t, t.flayer) THEN [t.blocked EXCEPT ![Layer2Window(t, t.flayer)] = @ - 1] ELSE t.blocked
ExitTo(t) ==
  IF /\ t.below[t.flayer] \in Windows /\ Unblocked(t)[Layer2Window(t, t.flayer)] > 0
     /\ t.save[Layer2Window(t, t.flayer)] \notin {None, t.below[t.flayer]} /\ t.on[t.flayer] # <<>>
  THEN t.save[Layer2Window(t, t.flayer)] ELSE t.below[t.flayer]

\* ExitOverlayPage, field by field.
LEMMA ExitFields ==
  ASSUME NEW t \in Screens, NEW u, u = ExitOverlayPage(t), NEW o, o = t.flayer, o \in Overlays, NEW to, to = ExitTo(t)
  PROVE  /\ u.blocked = Unblocked(t) /\ u.flayer = to
         /\ u.save = [w \in Windows |-> IF w = Layer2Window(t, o) /\ t.save[w] = o THEN to ELSE t.save[w]]
         /\ u.cl = [c \in Canvases |-> IF c \in ToSet(t.on[o]) THEN to ELSE t.cl[c]]
         /\ u.on = Moved(t.on, o, to)
         /\ u.below = [t.below EXCEPT ![o] = None] /\ u.base = [t.base EXCEPT ![o] = None]
         /\ u.blocking = t.blocking \ {o}
         /\ u.size = t.size /\ u.kind = t.kind /\ Calm(t, u) /\ Whole(u)
<1>1. Whole(u)
  BY DEF ExitOverlayPage, Screens, Whole
<1>2. /\ u.blocked = Unblocked(t) /\ u.flayer = to
      /\ u.save = [w \in Windows |-> IF w = Layer2Window(t, o) /\ t.save[w] = o THEN to ELSE t.save[w]]
      /\ u.cl = [c \in Canvases |-> IF c \in ToSet(t.on[o]) THEN to ELSE t.cl[c]]
      /\ u.on = Moved(t.on, o, to)
      /\ u.below = [t.below EXCEPT ![o] = None] /\ u.base = [t.base EXCEPT ![o] = None]
      /\ u.blocking = t.blocking \ {o}
  BY DEF ExitOverlayPage, ExitTo, Unblocked, Screens
<1>3. u.size = t.size /\ u.kind = t.kind /\ Calm(t, u)
  <2>1. /\ u.size = t.size /\ u.kind = t.kind /\ u.mru = t.mru /\ u.owner = t.owner
        /\ u.start = t.start
    BY DEF ExitOverlayPage, Screens
  <2>2. /\ u.displays = t.displays /\ u.cvs = t.cvs /\ u.forecv = t.forecv /\ u.dfore = t.dfore
        /\ u.dother = t.dother /\ u.dlayout = t.dlayout
    BY DEF ExitOverlayPage, Screens
  <2>3. /\ u.layouts = t.layouts /\ u.lay = t.lay /\ u.last = t.last /\ u.detachwin = t.detachwin
        /\ u.detachotherwin = t.detachotherwin
    BY DEF ExitOverlayPage, Screens
  <2>4. u.display = t.display /\ u.fore = t.fore
    BY DEF ExitOverlayPage, Screens
  <2>5. QED
    BY <2>1, <2>2, <2>3, <2>4 DEF Calm
<1>4. QED
  BY <1>1, <1>2, <1>3

Shifted(cl, cl2, o, to) == \A c \in Canvases :
  (cl[c] = o => cl2[c] = to) /\ (cl[c] # o => cl2[c] = cl[c])

\* The canvases of one list join another one.
LEMMA MovedIs ==
  ASSUME NEW on \in [Layers -> Seq(Canvases)], NEW o \in Layers, NEW to \in Layers, to # o,
         NEW cl, ListsOf(on, cl),
         NEW cl2, Shifted(cl, cl2, o, to)
  PROVE  Moved(on, o, to) \in [Layers -> Seq(Canvases)] /\ ListsOf(Moved(on, o, to), cl2)
<1> DEFINE joined == on[o] \o on[to]
           none == <<>>
<1>0. /\ IsInjective(on[o]) /\ ToSet(on[o]) = {c \in Canvases : cl[c] = o}
      /\ IsInjective(on[to]) /\ ToSet(on[to]) = {c \in Canvases : cl[c] = to}
      /\ on[o] \in Seq(Canvases) /\ on[to] \in Seq(Canvases)
  BY DEF ListsOf
<1>1. joined \in Seq(Canvases) /\ none \in Seq(Canvases)
  BY <1>0, ConcatProperties
<1>2. ToSet(joined) = {c \in Canvases : cl2[c] = to} /\ IsInjective(joined)
  <2>1. ToSet(joined) = ToSet(on[o]) \union ToSet(on[to]) /\ IsInjective(joined)
    BY <1>0, ListsJoined
  <2> HIDE DEF joined
  <2>2. \A c \in Canvases : cl2[c] = to <=> cl[c] = o \/ cl[c] = to
    BY DEF Shifted
  <2>3. ASSUME NEW c PROVE c \in ToSet(joined) <=> c \in {d \in Canvases : cl2[d] = to}
    BY <1>0, <2>1, <2>2
  <2>4. QED
    BY <2>1, <2>3
<1>3. ToSet(none) = {} /\ IsInjective(none)
  BY DEF ToSet, IsInjective
<1>4. Moved(on, o, to) = [on EXCEPT ![to] = joined, ![o] = none]
  BY DEF Moved
<1> HIDE DEF joined, none
<1>5. /\ Moved(on, o, to) \in [Layers -> Seq(Canvases)]
      /\ Moved(on, o, to)[o] = none /\ Moved(on, o, to)[to] = joined
      /\ \A l \in Layers : l # o /\ l # to => Moved(on, o, to)[l] = on[l]
  BY <1>1, <1>4
<1>6. ASSUME NEW l \in Layers
      PROVE  IsInjective(Moved(on, o, to)[l]) /\ ToSet(Moved(on, o, to)[l]) = {c \in Canvases : cl2[c] = l}
  <2>1. CASE l = to
    BY <1>2, <1>5, <2>1
  <2>2. CASE l = o
    <3>1. \A c \in Canvases : cl2[c] # o
      BY DEF Shifted
    <3>2. QED
      BY <1>3, <1>5, <2>2, <3>1
  <2>3. CASE l # o /\ l # to
    <3>1. IsInjective(on[l]) /\ ToSet(on[l]) = {c \in Canvases : cl[c] = l}
      BY DEF ListsOf
    <3>2. \A c \in Canvases : cl2[c] = l <=> cl[c] = l
      BY <2>3 DEF Shifted
    <3>3. QED
      BY <1>5, <2>3, <3>1, <3>2
  <2>4. QED
    BY <2>1, <2>2, <2>3
<1>7. QED
  BY <1>5, <1>6 DEF ListsOf

\* Where the canvases of flayer go, and who is blocked then.
LEMMA ExitWhere ==
  ASSUME NEW t, NEW o, o = t.flayer, o \in OnOthers(t), Core(t, o), Top(t, o), NEW to, to = ExitTo(t)
  PROVE  /\ to \in Alive(t) /\ to \in Layers /\ to # o /\ to # None
         /\ Bottom(t, to) = t.base[o]
         /\ to \in Overlays => \A y \in Overlays : y # o => t.below[y] # to
         /\ to = t.below[o] \/ t.below[o] \in Windows
         /\ Unblocked(t) \in [Windows -> 0 .. 2]
         /\ \A w \in Windows : /\ o \in t.blocking /\ t.below[o] = w => Unblocked(t)[w] = 0 /\ t.blocked[w] = 1
                               /\ ~(o \in t.blocking /\ t.below[o] = w) => Unblocked(t)[w] = t.blocked[w]
<1> DEFINE next == t.below[o]
           p == Layer2Window(t, o)
<1>1. /\ o \in Overlays /\ next # None /\ next \in Alive(t) /\ t.base[o] = Bottom(t, next)
      /\ t.base[o] \in Existing(t) \union Owned(t)
  BY DEF OnOthers, Core, Based
<1>2. t \in Screens /\ LayersTyped(t)
  BY Types DEF Core
<1>3. PICK r, n : RankedBy(t.below, r, n)
  BY DEF Core, Ranked
<1>4. next # o
  <2>1. next \in Overlays => r[next] < r[o] /\ r[next] \in 0 .. n /\ r[o] \in 0 .. n /\ n \in Nat
    BY <1>1, <1>3 DEF RankedBy
  <2>2. QED
    BY <1>1, <2>1
<1>5. next \in Windows => p = next /\ t.base[o] = next /\ next \notin Overlays
  <2>1. ASSUME next \in Windows PROVE next \notin Overlays
    BY <2>1, Apart
  <2>2. QED
    BY <1>1, <2>1 DEF Layer2Window, Bottom, IsOverlay
<1>6. Alive(t) \subseteq Layers /\ None \notin Alive(t)
  BY Apart DEF Alive, Existing, Owned, OnOthers, Layers
<1>7. \A w \in Windows : /\ o \in t.blocking /\ next = w => Unblocked(t)[w] = 0 /\ t.blocked[w] = 1
                         /\ ~(o \in t.blocking /\ next = w) => Unblocked(t)[w] = t.blocked[w]
  <2>1. ASSUME NEW w \in Windows, o \in t.blocking, next = w PROVE Unblocked(t)[w] = 0 /\ t.blocked[w] = 1
    <3>1. t.blocked[w] = 1
      BY <2>1 DEF Core, Blocks
    <3>2. Unblocked(t) = [t.blocked EXCEPT ![w] = @ - 1]
      BY <1>5, <2>1 DEF Unblocked, Unblocks
    <3>3. QED
      BY <1>2, <3>1, <3>2 DEF LayersTyped
  <2>2. ASSUME NEW w \in Windows, ~(o \in t.blocking /\ next = w) PROVE Unblocked(t)[w] = t.blocked[w]
    <3>1. CASE Unblocks(t, o)
      <4>1. p = next /\ p # w
        BY <1>5, <2>2, <3>1 DEF Unblocks
      <4>2. Unblocked(t) = [t.blocked EXCEPT ![p] = @ - 1]
        BY <3>1 DEF Unblocked
      <4>3. QED
        BY <1>2, <4>1, <4>2 DEF LayersTyped
    <3>2. CASE ~Unblocks(t, o)
      BY <3>2 DEF Unblocked
    <3>3. QED
      BY <3>1, <3>2
  <2>3. QED
    BY <2>1, <2>2
<1>8. Unblocked(t) \in [Windows -> 0 .. 2]
  <2>1. CASE Unblocks(t, o)
    <3>1. p \in Windows /\ t.blocked[p] = 1
      BY <1>5, <1>7, <2>1 DEF Unblocks
    <3>2. Unblocked(t) = [t.blocked EXCEPT ![p] = @ - 1]
      BY <2>1 DEF Unblocked
    <3>3. QED
      BY <1>2, <3>1, <3>2 DEF LayersTyped
  <2>2. CASE ~Unblocks(t, o)
    BY <1>2, <2>2 DEF Unblocked, LayersTyped
  <2>3. QED
    BY <2>1, <2>2
<1>9. CASE to = next
  <2>1. to \in Overlays => \A y \in Overlays : y # o => t.below[y] # to
    <3>1. next \in Overlays => next \notin Windows
      BY Apart
    <3>2. QED
      BY <1>1, <1>9, <3>1 DEF Core, Covered
  <2>2. QED
    BY <1>1, <1>4, <1>6, <1>7, <1>8, <1>9, <2>1
<1>10. CASE to # next
  <2>1. next \in Windows /\ Unblocked(t)[p] > 0 /\ to = t.save[p] /\ to # None /\ p = next
    BY <1>5, <1>10 DEF ExitTo
  <2>2. t.blocked[next] = 1 /\ ~(o \in t.blocking)
    <3>1. t.blocked[next] \in {0, 1}
      BY <2>1 DEF Core, Blocks
    <3>2. QED
      BY <1>7, <2>1, <3>1
  <2>3. PICK b \in t.blocking : t.below[b] = next
    BY <2>1, <2>2 DEF Core, Blocks
  <2>4. b \in Under(t.below, t.save[next]) /\ b # o /\ next \in Existing(t)
    BY <2>1, <2>2, <2>3 DEF Core, Blocks, Existing
  <2>5. to # o
    <3>1. SUFFICES ASSUME to = o PROVE FALSE
      OBVIOUS
    <3>2. Under(t.below, o) = {o} \union Under(t.below, next)
      BY <1>1, <1>3, UnderIs DEF Maybe, Layers
    <3>3. Under(t.below, next) = {}
      BY <1>3, <1>5, <2>1, UnderIs DEF Maybe, Layers
    <3>4. QED
      BY <2>1, <2>4, <3>1, <3>2, <3>3
  <2>6. to \in Alive(t) /\ Bottom(t, to) = next
    BY <2>1, <2>4 DEF Core, Saved
  <2>7. to \in Overlays => \A y \in Overlays : y # o => t.below[y] # to
    <3>1. SUFFICES ASSUME to \in Overlays, NEW y \in Overlays, t.below[y] = to PROVE FALSE
      OBVIOUS
    <3>2. y \in OnOthers(t) /\ to \notin Windows
      BY <2>1, <3>1, Apart DEF OnOthers
    <3>3. QED
      BY <2>1, <3>1, <3>2 DEF Core, Covered
  <2>8. QED
    BY <1>5, <1>6, <1>7, <1>8, <2>1, <2>5, <2>6, <2>7
<1>11. QED
  BY <1>9, <1>10

\* A chain that does not contain o is the same without it.
LEMMA UnderWithout ==
  ASSUME NEW b, NEW r, NEW n, RankedBy(b, r, n), NEW o \in Overlays, \A y \in Overlays : b[y] # o,
         NEW l \in Maybe(Layers), l # o
  PROVE  /\ RankedBy([b EXCEPT ![o] = None], r, n)
         /\ Under([b EXCEPT ![o] = None], l) = Under(b, l)
<1>1. RankedBy([b EXCEPT ![o] = None], r, n)
  <2>1. \A x \in Overlays : [b EXCEPT ![o] = None][x] \in Overlays => b[x] \in Overlays /\ [b EXCEPT ![o] = None][x] = b[x]
    BY Apart DEF RankedBy
  <2>2. [b EXCEPT ![o] = None] \in [Overlays -> Maybe(Layers)]
    BY DEF RankedBy, Maybe
  <2>3. QED
    BY <2>1, <2>2 DEF RankedBy
<1>2. o \notin Under(b, l)
  <2>1. \A x \in Under(b, l) : x = l \/ \E y \in Under(b, l) : b[y] = x
    BY UnderLinks
  <2>2. Under(b, l) \subseteq Overlays
    BY UnderIs
  <2>3. QED
    BY <2>1, <2>2
<1>3. \A x \in Under(b, l) : [b EXCEPT ![o] = None][x] = b[x]
  BY <1>2, UnderIs DEF RankedBy
<1>4. QED
  BY <1>1, <1>3, UnderSame

\* ExitOverlayPage keeps the invariant.  What is shown does not change.
LEMMA ExitSound ==
  ASSUME NEW t, NEW o, o = t.flayer, o \in OnOthers(t), Core(t, o), Top(t, o),
         NEW u, u = ExitOverlayPage(t)
  PROVE  /\ Core(u, u.flayer) /\ u.flayer \in Layers
         /\ u.flayer \in Overlays => u.flayer \in OnOthers(u) /\ Top(u, u.flayer)
         /\ OnOthers(u) = OnOthers(t) \ {o} /\ o \in OnOthers(t)
         /\ Calm(t, u) /\ u.size = t.size /\ u.kind = t.kind
         /\ Existing(u) = Existing(t)
         /\ \A c \in Canvases : /\ t.cl[c] = None => u.cl[c] = None
                                /\ t.cl[c] # None => u.cl[c] # None /\ Bottom(u, u.cl[c]) = Bottom(t, t.cl[c])
                                /\ t.cl[c] # o => u.cl[c] = t.cl[c]
         /\ \A x \in Overlays : x # o => u.below[x] = t.below[x] /\ u.base[x] = t.base[x]
         /\ \A w \in Windows : /\ t.save[w] = o => u.save[w] = u.flayer
                               /\ t.save[w] # o => u.save[w] = t.save[w]
         /\ Bottom(u, u.flayer) = Bottom(t, o)
         /\ Bare(t, o) => u.flayer = t.below[o]
<1> DEFINE to == ExitTo(t)
<1>0. /\ t \in Screens /\ LayersTyped(t) /\ LooksTyped(t) /\ OthersTyped(t) /\ o \in Overlays /\ o # None
      /\ t.below[o] # None /\ o \in Layers
  BY Types, Apart DEF Core, OnOthers, Layers
<1>1. /\ to \in Alive(t) /\ to \in Layers /\ to # o /\ to # None
      /\ Bottom(t, to) = t.base[o]
      /\ to \in Overlays => \A y \in Overlays : y # o => t.below[y] # to
      /\ to = t.below[o] \/ t.below[o] \in Windows
      /\ Unblocked(t) \in [Windows -> 0 .. 2]
      /\ \A w \in Windows : /\ o \in t.blocking /\ t.below[o] = w => Unblocked(t)[w] = 0 /\ t.blocked[w] = 1
                            /\ ~(o \in t.blocking /\ t.below[o] = w) => Unblocked(t)[w] = t.blocked[w]
  BY ExitWhere
<1> HIDE DEF to
<1>2. /\ u.blocked = Unblocked(t) /\ u.flayer = to
      /\ u.save = [w \in Windows |-> IF w = Layer2Window(t, o) /\ t.save[w] = o THEN to ELSE t.save[w]]
      /\ u.cl = [c \in Canvases |-> IF c \in ToSet(t.on[o]) THEN to ELSE t.cl[c]]
      /\ u.on = Moved(t.on, o, to)
      /\ u.below = [t.below EXCEPT ![o] = None] /\ u.base = [t.base EXCEPT ![o] = None]
      /\ u.blocking = t.blocking \ {o}
      /\ u.size = t.size /\ u.kind = t.kind /\ Calm(t, u) /\ Whole(u)
  BY <1>0, ExitFields DEF to
<1>3. \A l \in Layers : IsInjective(t.on[l]) /\ ToSet(t.on[l]) = {c \in Canvases : t.cl[c] = l}
  BY DEF Core, Lists, ListsOf
<1>4. \A c \in Canvases : /\ t.cl[c] = o => u.cl[c] = to
                          /\ t.cl[c] # o => u.cl[c] = t.cl[c]
  BY <1>0, <1>2, <1>3
<1>5. \A w \in Windows : /\ t.save[w] = o => u.save[w] = to
                         /\ t.save[w] # o => u.save[w] = t.save[w]
  <2>1. ASSUME NEW w \in Windows, t.save[w] = o PROVE w = Layer2Window(t, o)
    <3>1. w \in Existing(t)
      BY <1>0, <2>1 DEF Existing
    <3>2. Bottom(t, o) = w
      BY <2>1, <3>1 DEF Core, Saved
    <3>3. QED
      BY <3>2 DEF Layer2Window
  <2>2. QED
    BY <1>2, <2>1
<1>6. /\ u.below \in [Overlays -> Maybe(Layers)] /\ u.base \in [Overlays -> Maybe(Layers)]
      /\ u.below[o] = None /\ u.base[o] = None
      /\ \A x \in Overlays : x # o => u.below[x] = t.below[x] /\ u.base[x] = t.base[x]
  BY <1>0, <1>2 DEF LayersTyped, Maybe
<1>7. Moved(t.on, o, to) \in [Layers -> Seq(Canvases)] /\ Lists(u)
  <2>1. t.on \in [Layers -> Seq(Canvases)] /\ ListsOf(t.on, t.cl)
    BY <1>0 DEF LayersTyped, Core, Lists
  <2>2. Shifted(t.cl, u.cl, o, to) /\ to \in Layers /\ o \in Layers /\ to # o
    BY <1>0, <1>1, <1>4 DEF Shifted
  <2>3. Moved(t.on, o, to) \in [Layers -> Seq(Canvases)] /\ ListsOf(Moved(t.on, o, to), u.cl)
    BY <2>1, <2>2, MovedIs
  <2>4. QED
    BY <1>2, <2>3 DEF Lists
<1>8. u \in Screens
  <2>1. u.cl \in [Canvases -> Maybe(Layers)]
    BY <1>0, <1>1, <1>2 DEF LayersTyped, Maybe
  <2>2. u.save \in [Windows -> Maybe(Layers)]
    BY <1>0, <1>1, <1>2 DEF LayersTyped, Maybe
  <2>3. LayersTyped(u)
    BY <1>0, <1>1, <1>2, <1>6, <1>7, <2>1, <2>2 DEF LayersTyped, Maybe
  <2>4. LooksTyped(u)
    BY <1>0, <1>2 DEF LooksTyped
  <2>5. OthersTyped(u)
    BY <1>0, <1>2, CalmType
  <2>6. QED
    BY <1>2, <2>3, <2>4, <2>5, IsScreen
<1>9. /\ OnOthers(u) = OnOthers(t) \ {o} /\ Existing(u) = Existing(t) /\ Owned(u) = Owned(t)
      /\ Alive(u) = Alive(t) \ {o}
  <2>1. OnOthers(u) = OnOthers(t) \ {o}
    BY <1>6 DEF OnOthers
  <2>2. Existing(u) = Existing(t)
    BY <1>0, <1>1, <1>5 DEF Existing
  <2>3. Owned(u) = Owned(t)
    BY <1>2 DEF Owned, Calm
  <2>4. o \notin Existing(t) /\ o \notin Owned(t)
    BY <1>0, Apart DEF Existing, Owned
  <2>5. QED
    BY <2>1, <2>2, <2>3, <2>4 DEF Alive
<1>10. /\ \A l : l # o => Bottom(u, l) = Bottom(t, l)
       /\ Bottom(t, o) = Bottom(t, to)
  BY <1>0, <1>1, <1>6 DEF Bottom, IsOverlay
<1>11. PICK r, n : RankedBy(t.below, r, n)
  BY DEF Core, Ranked
<1>12. /\ RankedBy(u.below, r, n)
       /\ \A l \in Maybe(Layers) : l # o => Under(u.below, l) = Under(t.below, l)
  <2>1. o \in Overlays /\ \A y \in Overlays : t.below[y] # o
    BY <1>0 DEF Top
  <2>2. u.below = [t.below EXCEPT ![o] = None]
    BY <1>2
  <2>3. ASSUME NEW l \in Maybe(Layers), l # o
        PROVE  RankedBy(u.below, r, n) /\ Under(u.below, l) = Under(t.below, l)
    BY <1>11, <2>1, <2>2, <2>3, UnderWithout
  <2>4. to \in Maybe(Layers) /\ to # o
    BY <1>1 DEF Maybe
  <2>5. QED
    BY <2>3, <2>4
<1>14. \A c \in Canvases : /\ t.cl[c] = None => u.cl[c] = None
                           /\ t.cl[c] # None => u.cl[c] # None /\ Bottom(u, u.cl[c]) = Bottom(t, t.cl[c])
                           /\ t.cl[c] # o => u.cl[c] = t.cl[c]
  BY <1>0, <1>1, <1>4, <1>10
<1>15. Homes(u)
  <2>1. ASSUME NEW c \in Canvases, u.cl[c] # None
        PROVE  /\ u.cl[c] \in Alive(u) /\ u.owner[c] # None
               /\ Bottom(u, u.cl[c]) \in Windows \/ Bottom(u, u.cl[c]) = c
    <3>1. t.cl[c] # None
      BY <1>14, <2>1
    <3>2. /\ t.cl[c] \in Alive(t) /\ t.owner[c] # None
          /\ Bottom(t, t.cl[c]) \in Windows \/ Bottom(t, t.cl[c]) = c
      BY <3>1 DEF Core, Homes
    <3>3. QED
      BY <1>1, <1>2, <1>4, <1>9, <1>14, <3>1, <3>2 DEF Calm
  <2>2. QED
    BY <2>1 DEF Homes
<1>16. Based(u)
  <2>1. ASSUME NEW x \in Overlays PROVE u.below[x] = None => u.base[x] = None /\ x \notin u.blocking
    BY <1>2, <1>6 DEF Core, Based
  <2>2. ASSUME NEW x \in Overlays, u.below[x] # None
        PROVE  /\ u.below[x] \in Alive(u) /\ u.base[x] = Bottom(u, u.below[x])
               /\ u.base[x] \in Existing(u) \union Owned(u)
    <3>1. x # o /\ t.below[x] = u.below[x] /\ u.base[x] = t.base[x]
      BY <1>6, <2>2
    <3>2. t.below[x] # o
      BY DEF Top
    <3>3. /\ t.below[x] \in Alive(t) /\ t.base[x] = Bottom(t, t.below[x])
          /\ t.base[x] \in Existing(t) \union Owned(t)
      BY <2>2, <3>1 DEF Core, Based
    <3>4. QED
      BY <1>9, <1>10, <3>1, <3>2, <3>3
  <2>3. QED
    BY <2>1, <2>2 DEF Based
<1>17. ASSUME NEW x \in Overlays, u.below[x] # None, u.below[x] \notin Windows
       PROVE  u.below[x] # to /\ x \in OnOthers(t) /\ t.below[x] = u.below[x]
  <2>1. x # o /\ t.below[x] = u.below[x] /\ x \in OnOthers(t)
    BY <1>6, <1>17 DEF OnOthers
  <2>2. CASE to \in Overlays
    BY <1>1, <2>1, <2>2
  <2>3. CASE to \notin Overlays
    <3>1. SUFFICES ASSUME u.below[x] = to PROVE FALSE
      BY <2>1
    <3>2. CASE to = t.below[o]
      BY <1>17, <2>1, <3>1, <3>2 DEF Core, Covered
    <3>3. CASE to # t.below[o]
      <4>1. t.below[o] \in Windows /\ t.below[o] \notin Overlays
        BY <1>1, <3>3, Apart
      <4>2. t.base[o] \in Windows
        BY <1>0, <4>1 DEF Core, Based, Bottom, IsOverlay
      <4>3. to \in Windows
        BY <1>1, <2>3, <4>2 DEF Bottom, IsOverlay
      <4>4. QED
        BY <1>17, <3>1, <4>3
    <3>4. QED
      BY <3>2, <3>3
  <2>4. QED
    BY <2>2, <2>3
<1>18. Covered(u)
  <2>1. ASSUME NEW x \in OnOthers(u), u.below[x] \notin Windows
        PROVE  /\ Bare(u, u.below[x]) /\ \A w \in Windows : u.save[w] # u.below[x]
               /\ \A y \in Overlays : u.below[y] = u.below[x] => y = x
    <3>1. x \in Overlays /\ u.below[x] # None
      BY DEF OnOthers
    <3>2. u.below[x] # to /\ x \in OnOthers(t) /\ t.below[x] = u.below[x]
      BY <1>17, <2>1, <3>1
    <3>3. /\ Bare(t, t.below[x]) /\ \A w \in Windows : t.save[w] # t.below[x]
          /\ \A y \in Overlays : t.below[y] = t.below[x] => y = x
      BY <2>1, <3>2 DEF Core, Covered
    <3>4. \A y \in Overlays : u.below[y] = u.below[x] => y = x
      BY <1>6, <3>1, <3>2, <3>3
    <3>5. Bare(u, u.below[x])
      BY <1>4, <3>2, <3>3 DEF Bare
    <3>6. QED
      BY <1>5, <3>2, <3>3, <3>4, <3>5
  <2>2. QED
    BY <2>1 DEF Covered
<1>19. Kept(u, to)
  <2>1. ASSUME NEW x \in OnOthers(u), x # to
        PROVE  ~Bare(u, x) \/ (\E w \in Windows : u.save[w] = x) \/ ~Top(u, x)
    <3>1. x \in OnOthers(t) /\ x # o /\ x \in Overlays
      BY <1>9 DEF OnOthers
    <3>2. ~Bare(t, x) \/ (\E w \in Windows : t.save[w] = x) \/ ~Top(t, x)
      BY <3>1 DEF Core, Kept
    <3>3. CASE ~Bare(t, x)
      BY <1>4, <3>1, <3>3 DEF Bare
    <3>4. CASE \E w \in Windows : t.save[w] = x
      BY <1>5, <3>1, <3>4
    <3>5. CASE ~Top(t, x)
      <4>1. PICK y \in Overlays : t.below[y] = x
        BY <3>5 DEF Top
      <4>2. y # o
        BY <1>1, <2>1, <3>1, <4>1, Apart
      <4>3. QED
        BY <1>6, <4>1, <4>2 DEF Top
    <3>6. QED
      BY <3>2, <3>3, <3>4, <3>5
  <2>2. QED
    BY <2>1 DEF Kept
<1>20. Saved(u)
  <2>1. ASSUME NEW w \in Existing(u) PROVE u.save[w] \in Alive(u) /\ Bottom(u, u.save[w]) = w
    <3>1. w \in Existing(t) /\ w \in Windows
      BY <1>9 DEF Existing
    <3>2. t.save[w] \in Alive(t) /\ Bottom(t, t.save[w]) = w
      BY <3>1 DEF Core, Saved
    <3>3. QED
      BY <1>1, <1>5, <1>9, <1>10, <3>1, <3>2
  <2>2. QED
    BY <2>1 DEF Saved
<1>21. Blocks(u)
  <2>1. ASSUME NEW w \in Windows
        PROVE  /\ u.blocked[w] \in {0, 1}
               /\ u.blocked[w] = 0 => \A x \in u.blocking : u.below[x] # w
               /\ u.blocked[w] = 1 => \E x \in u.blocking : u.below[x] = w
    <3>0. w # None /\ \A x \in u.blocking : x \in Overlays /\ x # o /\ u.below[x] = t.below[x] /\ x \in t.blocking
      BY <1>0, <1>2, <1>6, Apart DEF LayersTyped
    <3>1. /\ t.blocked[w] \in {0, 1}
          /\ t.blocked[w] = 0 => \A x \in t.blocking : t.below[x] # w
          /\ t.blocked[w] = 1 => \E x \in t.blocking : t.below[x] = w
          /\ \A x \in t.blocking : t.below[x] = w => \A y \in t.blocking : t.below[y] = w => y = x
      BY DEF Core, Blocks
    <3>2. CASE o \in t.blocking /\ t.below[o] = w
      BY <1>1, <1>2, <3>0, <3>1, <3>2
    <3>3. CASE ~(o \in t.blocking /\ t.below[o] = w)
      <4>1. u.blocked[w] = t.blocked[w]
        BY <1>1, <1>2, <3>3
      <4>2. \A x \in t.blocking : t.below[x] = w => x \in u.blocking /\ u.below[x] = w
        BY <1>0, <1>2, <1>6, <3>3 DEF LayersTyped
      <4>3. QED
        BY <3>0, <3>1, <4>1, <4>2
    <3>4. QED
      BY <3>2, <3>3
  <2>2. ASSUME NEW w \in Windows, NEW x \in u.blocking, u.below[x] = w
        PROVE  /\ Bare(u, w) /\ x \in Under(u.below, u.save[w])
               /\ \A y \in u.blocking : u.below[y] = w => y = x
    <3>1. /\ x \in Overlays /\ x # o /\ t.below[x] = w /\ x \in t.blocking /\ w # None
          /\ \A y \in u.blocking : y \in t.blocking /\ t.below[y] = u.below[y]
      BY <1>0, <1>2, <1>6, <2>2, Apart DEF LayersTyped
    <3>2. /\ Bare(t, w) /\ x \in Under(t.below, t.save[w])
          /\ \A y \in t.blocking : t.below[y] = w => y = x
      BY <3>1 DEF Core, Blocks
    <3>3. t.save[w] \in Maybe(Layers) /\ to \in Maybe(Layers) /\ o \in Maybe(Layers)
      BY <1>0, <1>1 DEF LayersTyped, Maybe
    <3>4. w \in Existing(t)
      <4>1. t.below[x] \in Alive(t)
        BY <3>1 DEF Core, Based
      <4>2. QED
        BY <3>1, <4>1, Apart DEF Alive, Owned, OnOthers
    <3>5. ASSUME NEW c \in Canvases, u.cl[c] = w PROVE FALSE
      <4>1. t.cl[c] = o /\ to = w
        BY <1>4, <3>2, <3>5 DEF Bare
      <4>2. t.base[o] = w
        BY <1>1, <4>1, Apart DEF Bottom, IsOverlay
      <4>3. t.below[o] = w
        BY <1>1, <4>1, <4>2, <1>0, Apart DEF Core, Based, Bottom, IsOverlay
      <4>4. Layer2Window(t, o) = w
        BY <1>0, <4>2 DEF Layer2Window, Bottom, IsOverlay
      <4>5. t.blocked[w] = 1
        BY <3>1 DEF Core, Blocks
      <4>6. Unblocked(t)[w] = 1
        BY <1>1, <3>1, <3>2, <4>3, <4>5
      <4>7. t.save[w] # w /\ t.save[w] # None
        <5>1. Under(t.below, w) = {}
          BY <1>11, UnderIs, Apart DEF Maybe, Layers
        <5>2. QED
          BY <3>2, <3>4, <5>1 DEF Existing
      <4>8. t.on[o] # <<>>
        <5>1. c \in ToSet(t.on[o])
          BY <1>0, <1>3, <4>1
        <5>2. ToSet(<<>>) = {}
          BY DEF ToSet
        <5>3. QED
          BY <5>1, <5>2
      <4>9. to = t.save[w]
        BY <4>3, <4>4, <4>6, <4>7, <4>8 DEF to, ExitTo
      <4>10. QED
        BY <4>1, <4>7, <4>9
    <3>6. Under(u.below, u.save[w]) = Under(t.below, u.save[w]) /\ u.save[w] # o
      BY <1>1, <1>5, <1>12, <3>3
    <3>7. x \in Under(t.below, u.save[w])
      <4>1. CASE t.save[w] = o
        <5>1. Under(t.below, o) = {o} \union Under(t.below, t.below[o])
          BY <1>0, <1>11, <3>3, UnderIs
        <5>2. x \in Under(t.below, t.below[o]) /\ t.below[o] \in Maybe(Layers)
          BY <1>0, <3>1, <3>2, <4>1, <5>1 DEF LayersTyped
        <5>3. t.below[o] \in Overlays
          BY <1>11, <5>2, UnderIs
        <5>4. to = t.below[o]
          BY <1>1, <5>3, Apart
        <5>5. QED
          BY <1>5, <4>1, <5>2, <5>4
      <4>2. CASE t.save[w] # o
        BY <1>5, <3>2, <4>2
      <4>3. QED
        BY <4>1, <4>2
    <3>8. \A y \in u.blocking : u.below[y] = w => y = x
      BY <3>1, <3>2
    <3>9. QED
      BY <3>5, <3>6, <3>7, <3>8 DEF Bare
  <2>3. QED
    BY <2>1, <2>2 DEF Blocks
<1>22. Points(u)
  <2>1. /\ t.fore \in Maybe(Existing(t))
        /\ \A d \in Displays : t.dfore[d] \in Maybe(Existing(t)) /\ t.dother[d] \in Maybe(Existing(t))
    BY DEF Core, Points
  <2>2. u.flayer \in Maybe(Alive(u))
    BY <1>1, <1>2, <1>9 DEF Maybe
  <2>3. QED
    BY <1>2, <1>9, <2>1, <2>2 DEF Points, Calm
<1>23. Listed(u)
  BY <1>2, <1>9 DEF Core, Listed, Calm
<1>24. Ranked(u)
  BY <1>12 DEF Ranked
<1>25. Core(u, u.flayer)
  BY <1>2, <1>7, <1>8, <1>15, <1>16, <1>18, <1>19, <1>20, <1>21, <1>22, <1>23, <1>24 DEF Core
<1>26. to \in Overlays => to \in OnOthers(u) /\ Top(u, to)
  <2>1. to \in Overlays => to \in OnOthers(u)
    BY <1>1, <1>9, Apart DEF Alive, Existing, Owned
  <2>2. to \in Overlays => Top(u, to)
    BY <1>1, <1>6 DEF Top
  <2>3. QED
    BY <2>1, <2>2
<1>27. Bare(t, o) => to = t.below[o]
  <2>1. ASSUME Bare(t, o) PROVE t.on[o] = <<>>
    BY <1>0, <1>3, <2>1, EmptyList DEF Bare, LayersTyped
  <2>2. QED
    BY <2>1 DEF to, ExitTo
<1>28. Bottom(u, u.flayer) = Bottom(t, o)
  BY <1>1, <1>2, <1>10
<1>29. /\ Core(u, u.flayer) /\ u.flayer \in Layers
       /\ u.flayer \in Overlays => u.flayer \in OnOthers(u) /\ Top(u, u.flayer)
  BY <1>1, <1>2, <1>25, <1>26
<1>30. /\ OnOthers(u) = OnOthers(t) \ {o} /\ o \in OnOthers(t)
       /\ Calm(t, u) /\ u.size = t.size /\ u.kind = t.kind
       /\ Existing(u) = Existing(t)
  BY <1>2, <1>9
<1>31. QED
  BY <1>2, <1>5, <1>6, <1>14, <1>27, <1>28, <1>29, <1>30

-----------------------------------------------------------------------------
(* The loops on ExitOverlayPage, and KillLayerChain.                         *)


\* What stays when overlays go.
Exited(t, u) ==
  /\ Calm(t, u) /\ u.size = t.size /\ u.kind = t.kind
  /\ Existing(u) = Existing(t) /\ OnOthers(u) \subseteq OnOthers(t)
  /\ \A c \in Canvases : /\ t.cl[c] = None => u.cl[c] = None
                         /\ t.cl[c] # None => u.cl[c] # None /\ Bottom(u, u.cl[c]) = Bottom(t, t.cl[c])
\* What goes when no canvas shows the first layer of the chain.
Down(t, u) ==
  /\ \A c \in Canvases : u.cl[c] = t.cl[c]
  /\ \A o \in OnOthers(u) : u.below[o] = t.below[o] /\ u.base[o] = t.base[o]
  /\ \A o \in Overlays : o \in Under(t.below, t.flayer) <=>
                         (o \in OnOthers(t) /\ o \notin OnOthers(u)) \/ o \in Under(t.below, u.flayer)
  /\ \A w \in Windows : /\ t.save[w] = t.flayer => u.save[w] = u.flayer
                        /\ t.save[w] # t.flayer => u.save[w] = t.save[w]
  /\ Bottom(u, u.flayer) = Bottom(t, t.flayer)
  /\ u.flayer \in Overlays => Bare(u, u.flayer) /\ u.flayer \in Under(t.below, t.flayer)
\* Only the overlays on the same window or canvas go; bare layers stay.
Spared(t, u) ==
  /\ \A o \in OnOthers(t) : t.base[o] # Bottom(t, t.flayer) => o \in OnOthers(u)
  /\ \A o \in OnOthers(u) : u.base[o] = t.base[o]
  /\ \A c \in Canvases : t.cl[c] \notin Overlays => u.cl[c] = t.cl[c]
  /\ Bottom(u, u.flayer) = Bottom(t, t.flayer)
\* flayer may go.
Ready(u) == Core(u, u.flayer) /\ (u.flayer \in Overlays => u.flayer \in OnOthers(u) /\ Top(u, u.flayer))
Leaving(t, u) == Ready(u) /\ Exited(t, u) /\ Spared(t, u) /\ (Bare(t, t.flayer) => Down(t, u))

\* The loop that leaves a chain starts.
LEMMA LeavingStart ==
  ASSUME NEW t, Ready(t)
  PROVE  Leaving(t, t)
<1>1. Exited(t, t)
  BY DEF Exited, Calm
<1>2. ASSUME Bare(t, t.flayer) PROVE Down(t, t)
  <2>1. PICK r, n : RankedBy(t.below, r, n)
    BY DEF Ready, Core, Ranked
  <2>2. t.flayer \in Maybe(Layers)
    BY Types DEF Ready, Core, LayersTyped
  <2>3. t.flayer \in Overlays => t.flayer \in Under(t.below, t.flayer)
    BY <2>1, <2>2, UnderIs
  <2>4. QED
    BY <1>2, <2>3 DEF Down
<1>3. Spared(t, t)
  BY DEF Spared
<1>4. QED
  BY <1>1, <1>2, <1>3 DEF Leaving

\* One more overlay of the chain is left.
LEMMA LeavingStep ==
  ASSUME NEW t, NEW v, Ready(t), Leaving(t, v), v.flayer \in Overlays, NEW u, u = ExitOverlayPage(v)
  PROVE  Leaving(t, u) /\ OnOthers(u) = OnOthers(v) \ {v.flayer} /\ v.flayer \in OnOthers(v)
<1> DEFINE o == v.flayer
<1>0. o \in OnOthers(v) /\ Core(v, o) /\ Top(v, o) /\ o = v.flayer
  BY DEF Leaving, Ready
<1>1. /\ Core(u, u.flayer) /\ u.flayer \in Layers
      /\ u.flayer \in Overlays => u.flayer \in OnOthers(u) /\ Top(u, u.flayer)
      /\ OnOthers(u) = OnOthers(v) \ {o} /\ o \in OnOthers(v)
      /\ Calm(v, u) /\ u.size = v.size /\ u.kind = v.kind
      /\ Existing(u) = Existing(v)
      /\ \A c \in Canvases : /\ v.cl[c] = None => u.cl[c] = None
                             /\ v.cl[c] # None => u.cl[c] # None /\ Bottom(u, u.cl[c]) = Bottom(v, v.cl[c])
                             /\ v.cl[c] # o => u.cl[c] = v.cl[c]
      /\ \A x \in Overlays : x # o => u.below[x] = v.below[x] /\ u.base[x] = v.base[x]
      /\ \A w \in Windows : /\ v.save[w] = o => u.save[w] = u.flayer
                            /\ v.save[w] # o => u.save[w] = v.save[w]
      /\ Bottom(u, u.flayer) = Bottom(v, o)
      /\ Bare(v, o) => u.flayer = v.below[o]
  BY <1>0, ExitSound
<1> HIDE DEF o
<1>2. Exited(t, v)
  BY DEF Leaving
<1>3. Exited(t, u)
  <2>1. Calm(t, u)
    BY <1>1, <1>2 DEF Exited, Calm
  <2>2. ASSUME NEW c \in Canvases
        PROVE /\ t.cl[c] = None => u.cl[c] = None
              /\ t.cl[c] # None => u.cl[c] # None /\ Bottom(u, u.cl[c]) = Bottom(t, t.cl[c])
    <3>1. /\ t.cl[c] = None => v.cl[c] = None
          /\ t.cl[c] # None => v.cl[c] # None /\ Bottom(v, v.cl[c]) = Bottom(t, t.cl[c])
      BY <1>2 DEF Exited
    <3>2. QED
      BY <1>1, <3>1
  <2>3. QED
    BY <1>1, <1>2, <2>1, <2>2 DEF Exited
<1>4. ASSUME Bare(t, t.flayer) PROVE Down(t, u)
  <2>1. Down(t, v)
    BY <1>4 DEF Leaving
  <2>2. PICK r, n : RankedBy(t.below, r, n)
    BY DEF Ready, Core, Ranked
  <2>3. /\ v.below[o] = t.below[o] /\ o \in Overlays /\ o \in Maybe(Layers) /\ t.below[o] \in Maybe(Layers)
        /\ o \in OnOthers(v) /\ v.below[o] # None
    BY <1>0, <2>1, <2>2 DEF Down, OnOthers, Maybe, Layers, RankedBy, o
  <2>4. Under(t.below, o) = {o} \union Under(t.below, t.below[o])
    BY <2>2, <2>3, UnderIs
  <2>5. Bare(v, o) /\ o \in Under(t.below, t.flayer)
    BY <2>1, <2>3 DEF Down, o
  <2>6. u.flayer = t.below[o]
    BY <1>1, <2>3, <2>5
  <2>7. \A c \in Canvases : u.cl[c] = t.cl[c]
    BY <1>1, <2>1, <2>5 DEF Down, Bare
  <2>8. \A x \in OnOthers(u) : u.below[x] = t.below[x] /\ u.base[x] = t.base[x]
    BY <1>1, <2>1 DEF Down, OnOthers
  <2>9. \A x \in Overlays : x \in Under(t.below, t.flayer) <=>
                         (x \in OnOthers(t) /\ x \notin OnOthers(u)) \/ x \in Under(t.below, u.flayer)
    <3>1. \A x \in Overlays : x \in Under(t.below, t.flayer) <=>
                         (x \in OnOthers(t) /\ x \notin OnOthers(v)) \/ x \in Under(t.below, o)
      BY <2>1 DEF Down, o
    <3>2. OnOthers(v) \subseteq OnOthers(t)
      BY <1>2 DEF Exited
    <3>3. QED
      BY <1>1, <2>3, <2>4, <2>6, <3>1, <3>2
  <2>10. ASSUME NEW w \in Windows
         PROVE  /\ t.save[w] = t.flayer => u.save[w] = u.flayer
                /\ t.save[w] # t.flayer => u.save[w] = t.save[w]
    <3>1. /\ t.save[w] = t.flayer => v.save[w] = o
          /\ t.save[w] # t.flayer => v.save[w] = t.save[w]
      BY <2>1 DEF Down, o
    <3>2. ASSUME t.save[w] # t.flayer PROVE t.save[w] # o
      <4>1. SUFFICES ASSUME t.save[w] = o PROVE FALSE
        OBVIOUS
      <4>2. t.flayer \in Maybe(Layers)
        BY Types DEF Ready, Core, LayersTyped
      <4>3. PICK y \in Under(t.below, t.flayer) : t.below[y] = o
        BY <2>2, <2>5, <3>2, <4>1, <4>2, UnderLinks
      <4>4. y \in Overlays
        BY <2>2, <4>2, UnderIs
      <4>5. y \in OnOthers(t) /\ o \notin Windows
        BY <2>3, <4>3, <4>4, Apart DEF OnOthers
      <4>6. QED
        BY <4>1, <4>3, <4>5 DEF Ready, Core, Covered
    <3>3. QED
      BY <1>1, <3>1, <3>2
  <2>11. Bottom(u, u.flayer) = Bottom(t, t.flayer)
    BY <1>1, <2>1 DEF Down, o
  <2>12. ASSUME u.flayer \in Overlays PROVE Bare(u, u.flayer) /\ u.flayer \in Under(t.below, t.flayer)
    <3>1. u.flayer \in Under(t.below, u.flayer)
      BY <2>2, <2>3, <2>6, <2>12, UnderIs
    <3>2. u.flayer \in Under(t.below, t.flayer)
      BY <2>9, <2>12, <3>1
    <3>3. Bare(v, v.below[o])
      BY <2>3, <2>6, <2>12, <1>0, Apart DEF Core, Covered
    <3>4. Bare(u, u.flayer)
      BY <1>1, <2>3, <2>5, <2>6, <3>3 DEF Bare
    <3>5. QED
      BY <3>2, <3>4
  <2>13. QED
    BY <2>7, <2>8, <2>9, <2>10, <2>11, <2>12 DEF Down
<1>5. Spared(t, u)
  <2>0. Spared(t, v) /\ o \in Overlays /\ OnOthers(u) \subseteq Overlays
    BY DEF Leaving, o, OnOthers
  <2>1. v.base[o] = Bottom(t, t.flayer)
    BY <2>0 DEF Spared, Bottom, IsOverlay, o
  <2>2. t.base[o] = v.base[o]
    BY <1>0, <2>0 DEF Spared
  <2>3. \A x \in OnOthers(t) : t.base[x] # Bottom(t, t.flayer) => x \in OnOthers(u)
    BY <1>1, <2>0, <2>1, <2>2 DEF Spared
  <2>4. \A x \in OnOthers(u) : u.base[x] = t.base[x]
    BY <1>1, <2>0 DEF Spared
  <2>5. ASSUME NEW c \in Canvases, t.cl[c] \notin Overlays PROVE u.cl[c] = t.cl[c]
    BY <1>1, <2>0, <2>5 DEF Spared
  <2>6. Bottom(u, u.flayer) = Bottom(t, t.flayer)
    BY <1>1, <2>0 DEF Spared, o
  <2>7. QED
    BY <2>3, <2>4, <2>5, <2>6 DEF Spared
<1>6. QED
  BY <1>1, <1>3, <1>4, <1>5 DEF Leaving, Ready, o

\* There are as many overlays as the pool has.
LEMMA PoolCounted ==
  /\ Len(LayerPool) \in Nat /\ DOMAIN LayerPool = 1 .. Len(LayerPool)
  /\ IsFiniteSet(Overlays) /\ Cardinality(Overlays) = Len(LayerPool)
<1>1. LayerPool \in Seq(Overlays) /\ IsInjective(LayerPool)
  BY PoolsAssumption
<1>2. QED
  BY <1>1, ListCount, LenProperties DEF Overlays

\* There are as many turns as there can be overlays: the loop ends.
LEMMA ExitAllSound ==
  ASSUME NEW t, Ready(t), NEW u, u = ExitAll(t)
  PROVE  Leaving(t, u) /\ u.flayer \notin Overlays
<1> DEFINE n == Len(LayerPool)
           Left(v, k) == v.flayer \in Overlays => Cardinality(OnOthers(v)) + k <= n
           S == [k \in 0 .. n |-> {v \in Screens : Leaving(t, v) /\ Left(v, k)}]
<1>1. n \in Nat /\ DOMAIN LayerPool = 1 .. n /\ IsFiniteSet(Overlays) /\ Cardinality(Overlays) = n
  BY PoolCounted
<1>2. u = AllLeaves(None, t, LayerPool)
  BY DEF ExitAll, Leaves, AllLeaves, FoldLeft, MapThenFoldSet, Max
<1>3. \A v : /\ IsFiniteSet(OnOthers(v)) /\ Cardinality(OnOthers(v)) \in Nat /\ Cardinality(OnOthers(v)) <= n
             /\ \A o \in OnOthers(v) : Cardinality(OnOthers(v) \ {o}) = Cardinality(OnOthers(v)) - 1
  <2>1. ASSUME NEW v PROVE IsFiniteSet(OnOthers(v)) /\ Cardinality(OnOthers(v)) \in Nat /\ Cardinality(OnOthers(v)) <= n
    <3>1. OnOthers(v) \in SUBSET Overlays
      BY DEF OnOthers
    <3>2. QED
      BY <1>1, <3>1, FS_Subset, FS_CardinalityType
  <2>2. QED
    BY <2>1, FS_RemoveElement
<1> HIDE DEF n
<1>4. t \in S[0]
  <2>1. Leaving(t, t) /\ t \in Screens
    BY LeavingStart DEF Ready, Core
  <2>2. Left(t, 0)
    BY <1>1, <1>3
  <2>3. QED
    BY <1>1, <2>1, <2>2
<1>5. ASSUME NEW k \in 1 .. n, NEW v \in S[k - 1] PROVE Leaves(None, v, LayerPool[k]) \in S[k]
  <2>1. k - 1 \in 0 .. n /\ k \in 0 .. n
    BY <1>1
  <2>2. v \in Screens /\ Leaving(t, v) /\ Left(v, k - 1)
    BY <2>1
  <2>3. CASE v.flayer \in Overlays
    <3>1. PICK x : x = ExitOverlayPage(v)
      OBVIOUS
    <3>2. Leaves(None, v, LayerPool[k]) = x
      BY <2>3, <3>1 DEF Leaves, IsOverlay
    <3>3. Leaving(t, x) /\ OnOthers(x) = OnOthers(v) \ {v.flayer} /\ v.flayer \in OnOthers(v)
      BY <2>2, <2>3, <3>1, LeavingStep
    <3>4. Cardinality(OnOthers(x)) + k <= n
      <4>1. Cardinality(OnOthers(x)) = Cardinality(OnOthers(v)) - 1
        BY <1>3, <3>3
      <4>2. Cardinality(OnOthers(v)) \in Nat
        BY <1>3
      <4>3. QED
        BY <1>1, <2>2, <2>3, <4>1, <4>2
    <3>5. x \in Screens
      BY <3>3 DEF Leaving, Ready, Core
    <3>6. QED
      BY <2>1, <3>2, <3>3, <3>4, <3>5
  <2>4. CASE v.flayer \notin Overlays
    <3>1. Leaves(None, v, LayerPool[k]) = v
      BY <2>4 DEF Leaves, IsOverlay
    <3>2. QED
      BY <2>1, <2>2, <2>4, <3>1
  <2>5. QED
    BY <2>3, <2>4
<1> HIDE DEF S
<1>6. u \in S[n]
  BY <1>1, <1>2, <1>4, <1>5, LeavesKeep DEF n
<1>7. u \in Screens /\ Leaving(t, u) /\ Left(u, n)
  BY <1>1, <1>6 DEF S
<1>8. u.flayer \notin Overlays
  <2>1. SUFFICES ASSUME u.flayer \in Overlays PROVE FALSE
    OBVIOUS
  <2>2. u.flayer \in OnOthers(u)
    BY <1>7, <2>1 DEF Leaving, Ready
  <2>3. Cardinality(OnOthers(u)) = 0
    BY <1>1, <1>3, <1>7, <2>1
  <2>4. OnOthers(u) = {}
    BY <1>3, <2>3, FS_EmptySet
  <2>5. QED
    BY <2>2, <2>4
<1>9. QED
  BY <1>7, <1>8

\* Nothing changes for a layer that is not an overlay.
LEMMA ExitAllNone ==
  ASSUME NEW t, t.flayer \notin Overlays
  PROVE  ExitAll(t) = t
<1> DEFINE n == Len(LayerPool)
           S == [k \in 0 .. n |-> {t}]
<1>1. n \in Nat /\ DOMAIN LayerPool = 1 .. n
  BY PoolCounted
<1>2. ExitAll(t) = AllLeaves(None, t, LayerPool)
  BY DEF ExitAll, Leaves, AllLeaves, FoldLeft, MapThenFoldSet, Max
<1> HIDE DEF n
<1>3. t \in S[0]
  BY <1>1
<1>4. ASSUME NEW k \in 1 .. n, NEW v \in S[k - 1] PROVE Leaves(None, v, LayerPool[k]) \in S[k]
  <2>1. k - 1 \in 0 .. n /\ k \in 0 .. n
    BY <1>1
  <2>2. v = t
    BY <2>1
  <2>3. QED
    BY <2>1, <2>2 DEF Leaves, IsOverlay
<1> HIDE DEF S
<1>5. AllLeaves(None, t, LayerPool) \in S[n]
  BY <1>1, <1>3, <1>4, LeavesKeep DEF n
<1>6. QED
  BY <1>1, <1>2, <1>5 DEF S

\* The fields of which the invariant speaks, but the pointers.
SameLayers(t, u) ==
  /\ u.cl = t.cl /\ u.on = t.on /\ u.below = t.below /\ u.base = t.base /\ u.blocking = t.blocking
  /\ u.save = t.save /\ u.blocked = t.blocked /\ u.owner = t.owner /\ u.mru = t.mru

\* What depends on the layers only is kept while they are the same.
LEMMA SameSound ==
  ASSUME NEW t, NEW u, SameLayers(t, u)
  PROVE  /\ Existing(u) = Existing(t) /\ Owned(u) = Owned(t) /\ OnOthers(u) = OnOthers(t) /\ Alive(u) = Alive(t)
         /\ \A l : Bottom(u, l) = Bottom(t, l) /\ Layer2Window(u, l) = Layer2Window(t, l)
         /\ \A l : (Bare(u, l) <=> Bare(t, l)) /\ (Top(u, l) <=> Top(t, l))
         /\ \A e : Core(t, e) /\ u \in Screens /\ Points(u) => Core(u, e)
<1>1. /\ Existing(u) = Existing(t) /\ Owned(u) = Owned(t) /\ OnOthers(u) = OnOthers(t) /\ Alive(u) = Alive(t)
      /\ \A l : Bottom(u, l) = Bottom(t, l)
  BY DEF SameLayers, Existing, Owned, OnOthers, Alive, Bottom
<1>2. \A l : (Bare(u, l) <=> Bare(t, l)) /\ (Top(u, l) <=> Top(t, l))
  BY DEF SameLayers, Bare, Top
<1>3. ASSUME NEW e, Core(t, e), u \in Screens, Points(u) PROVE Core(u, e)
  <2>1. Lists(u) /\ Ranked(u) /\ Listed(u)
    BY <1>1, <1>3 DEF SameLayers, Core, Lists, Ranked, Listed
  <2>2. Homes(u)
    BY <1>1, <1>3 DEF SameLayers, Core, Homes
  <2>3. Based(u)
    BY <1>1, <1>3 DEF SameLayers, Core, Based
  <2>4. Covered(u)
    BY <1>1, <1>2, <1>3 DEF SameLayers, Core, Covered
  <2>5. Kept(u, e)
    BY <1>1, <1>2, <1>3 DEF SameLayers, Core, Kept
  <2>6. Saved(u)
    BY <1>1, <1>3 DEF SameLayers, Core, Saved
  <2>7. Blocks(u)
    BY <1>2, <1>3 DEF SameLayers, Core, Blocks
  <2>8. QED
    BY <1>3, <2>1, <2>2, <2>3, <2>4, <2>5, <2>6, <2>7 DEF Core
<1>4. QED
  BY <1>1, <1>2, <1>3 DEF Layer2Window

\* Two steps that leave the displays and layouts alone do so together.
LEMMA CalmRefl ==
  ASSUME NEW t, NEW u, NEW v, Calm(t, u), Calm(u, v)
  PROVE  Calm(t, v)
BY DEF Calm

\* The pointer flayer is set to a layer that exists.
LEMMA FlayerSet ==
  ASSUME NEW t \in Screens, NEW x \in Maybe(Layers), NEW u, u = [t EXCEPT !.flayer = x]
  PROVE  /\ u \in Screens /\ SameLayers(t, u) /\ Calm(t, u) /\ u.size = t.size /\ u.kind = t.kind /\ u.flayer = x
         /\ \A e : Core(t, e) /\ x \in Maybe(Alive(t)) => Core(u, e)
<1>1. u \in Screens
  BY DEF Screens
<1>2. SameLayers(t, u) /\ Calm(t, u) /\ u.size = t.size /\ u.kind = t.kind /\ u.flayer = x
  BY DEF Screens, SameLayers, Calm
<1>3. ASSUME NEW e, Core(t, e), x \in Maybe(Alive(t)) PROVE Core(u, e)
  <2>1. Points(u)
    BY <1>2, <1>3, SameSound DEF Core, Points, Calm
  <2>2. QED
    BY <1>1, <1>2, <1>3, <2>1, SameSound
<1>4. QED
  BY <1>1, <1>2, <1>3

\* Nothing is done to a layer that is not an overlay.
LEMMA KillNone ==
  ASSUME NEW t \in Screens, NEW l \in Maybe(Layers), l \notin Overlays, Ranked(t)
  PROVE  KillLayerChain(t, l) = t
<1>1. PICK r, n : RankedBy(t.below, r, n)
  BY DEF Ranked
<1>2. ToSet(Chain(t, l)) = {}
  BY <1>1, ChainIs, UnderIs DEF Under
<1> DEFINE cut == [t EXCEPT
        !.cl = [c \in Canvases |-> IF \E o \in ToSet(Chain(t, l)) : c \in ToSet(t.on[o]) THEN None ELSE @[c]],
        !.on = [o \in Layers |-> IF o \in ToSet(Chain(t, l)) /\ @[o] # <<>> THEN <<Head(@[o])>> ELSE @[o]],
        !.flayer = l]
<1>3. KillLayerChain(t, l) = [ExitAll(cut) EXCEPT !.flayer = IF t.flayer \in ToSet(Chain(t, l)) THEN None ELSE t.flayer]
  BY DEF KillLayerChain
<1>4. cut = [t EXCEPT !.flayer = l]
  <2>1. [c \in Canvases |-> IF \E o \in {} : c \in ToSet(t.on[o]) THEN None ELSE t.cl[c]] = t.cl
    BY Types DEF LayersTyped
  <2>2. [o \in Layers |-> IF o \in {} /\ t.on[o] # <<>> THEN <<Head(t.on[o])>> ELSE t.on[o]] = t.on
    <3>1. t.on = [o \in Layers |-> t.on[o]]
      BY Types DEF LayersTyped
    <3>2. [o \in Layers |-> IF o \in {} /\ t.on[o] # <<>> THEN <<Head(t.on[o])>> ELSE t.on[o]] = [o \in Layers |-> t.on[o]]
      OBVIOUS
    <3>3. QED
      BY <3>1, <3>2
  <2>3. cut = [t EXCEPT !.cl = t.cl, !.on = t.on, !.flayer = l]
    BY <1>2, <2>1, <2>2
  <2>4. QED
    BY <2>3 DEF Screens
<1> HIDE DEF cut
<1>5. cut.flayer = l
  BY <1>4 DEF Screens
<1>6. ExitAll(cut) = cut
  BY <1>5, ExitAllNone
<1>7. KillLayerChain(t, l) = [[t EXCEPT !.flayer = l] EXCEPT !.flayer = t.flayer]
  BY <1>2, <1>3, <1>4, <1>6
<1>8. QED
  BY <1>7 DEF Screens

\* A chain that no canvas shows goes, and nothing else.
Killed(t, l, u) ==
  /\ Calm(t, u) /\ u.size = t.size /\ u.kind = t.kind /\ Existing(u) = Existing(t)
  /\ \A c \in Canvases : u.cl[c] = t.cl[c]
  /\ \A o \in Under(t.below, l) : u.below[o] = None /\ t.below[o] # None /\ \A c \in Canvases : t.cl[c] # o
  /\ \A o \in Overlays \ Under(t.below, l) : u.below[o] = t.below[o] /\ u.base[o] = t.base[o]
  /\ \A w \in Windows : /\ t.save[w] = l => u.save[w] = Bottom(t, l)
                        /\ t.save[w] # l => u.save[w] = t.save[w]
  /\ t.flayer \in Under(t.below, l) => u.flayer = None
  /\ t.flayer \notin Under(t.below, l) => u.flayer = t.flayer

\* KillLayerChain frees a chain that nothing shows, and the invariant holds again.
LEMMA KillSound ==
  ASSUME NEW t, NEW l, Core(t, l), l \in OnOthers(t), Top(t, l), Bare(t, l), NEW u, u = KillLayerChain(t, l)
  PROVE  Core(u, None) /\ Killed(t, l, u)
<1>0. /\ t \in Screens /\ LayersTyped(t) /\ l \in Overlays /\ l \in Layers /\ l \in Maybe(Layers) /\ l # None
  BY Types, Apart DEF Core, OnOthers, Layers, Maybe
<1>1. PICK r, n : RankedBy(t.below, r, n)
  BY DEF Core, Ranked
<1>2. ToSet(Chain(t, l)) = Under(t.below, l) /\ Under(t.below, l) \subseteq Overlays
  BY <1>0, <1>1, ChainIs, UnderIs DEF Under
<1>3. ASSUME NEW o \in Under(t.below, l) PROVE t.below[o] # None /\ Bare(t, o) /\ t.on[o] = <<>>
  <2>1. Bare(t, o) /\ o \in OnOthers(t) /\ o \in Overlays
    <3>1. CASE o = l
      BY <1>0, <3>1
    <3>2. CASE o # l
      <4>1. PICK y \in Under(t.below, l) : t.below[y] = o
        BY <1>0, <1>1, <3>2, UnderLinks
      <4>2. y \in Overlays /\ o \in Overlays /\ o # None /\ o \notin Windows
        BY <1>2, Apart
      <4>3. y \in OnOthers(t)
        BY <4>1, <4>2 DEF OnOthers
      <4>4. o \in OnOthers(t)
        <5>1. o \in Alive(t)
          BY <4>1, <4>2 DEF Core, Based
        <5>2. QED
          BY <4>2, <5>1, Apart DEF Alive, Existing, Owned
      <4>5. QED
        BY <4>1, <4>2, <4>3, <4>4 DEF Core, Covered
    <3>3. QED
      BY <3>1, <3>2
  <2>2. ToSet(t.on[o]) = {} /\ t.on[o] \in Seq(Canvases)
    <3>1. o \in Layers
      BY <2>1 DEF Layers
    <3>2. ToSet(t.on[o]) = {c \in Canvases : t.cl[c] = o}
      BY <3>1 DEF Core, Lists, ListsOf
    <3>3. QED
      BY <1>0, <2>1, <3>1, <3>2 DEF Bare, LayersTyped
  <2>3. QED
    BY <2>1, <2>2, EmptyList DEF OnOthers
<1> DEFINE cut == [t EXCEPT
        !.cl = [c \in Canvases |-> IF \E o \in ToSet(Chain(t, l)) : c \in ToSet(t.on[o]) THEN None ELSE @[c]],
        !.on = [o \in Layers |-> IF o \in ToSet(Chain(t, l)) /\ @[o] # <<>> THEN <<Head(@[o])>> ELSE @[o]],
        !.flayer = l]
<1>4. u = [ExitAll(cut) EXCEPT !.flayer = IF t.flayer \in Under(t.below, l) THEN None ELSE t.flayer]
  BY <1>2 DEF KillLayerChain
<1>5. cut = [t EXCEPT !.flayer = l]
  <2>1. [c \in Canvases |-> IF \E o \in ToSet(Chain(t, l)) : c \in ToSet(t.on[o]) THEN None ELSE t.cl[c]] = t.cl
    <3>1. \A c \in Canvases : ~\E o \in ToSet(Chain(t, l)) : c \in ToSet(t.on[o])
      BY <1>2, <1>3 DEF ToSet
    <3>2. QED
      BY <1>0, <3>1 DEF LayersTyped
  <2>2. [o \in Layers |-> IF o \in ToSet(Chain(t, l)) /\ t.on[o] # <<>> THEN <<Head(t.on[o])>> ELSE t.on[o]] = t.on
    <3>1. t.on = [o \in Layers |-> t.on[o]]
      BY <1>0 DEF LayersTyped
    <3>2. [o \in Layers |-> IF o \in ToSet(Chain(t, l)) /\ t.on[o] # <<>> THEN <<Head(t.on[o])>> ELSE t.on[o]] = [o \in Layers |-> t.on[o]]
      BY <1>2, <1>3, Zenon
    <3>3. QED
      BY <3>1, <3>2
  <2>3. cut = [t EXCEPT !.cl = t.cl, !.on = t.on, !.flayer = l]
    BY <2>1, <2>2
  <2>4. QED
    BY <1>0, <2>3 DEF Screens
<1> HIDE DEF cut
<1>6. /\ cut \in Screens /\ SameLayers(t, cut) /\ Calm(t, cut) /\ cut.size = t.size /\ cut.kind = t.kind /\ cut.flayer = l
      /\ Core(cut, l)
  <2>1. l \in Maybe(Alive(t))
    BY DEF Maybe, Alive
  <2>2. QED
    BY <1>0, <1>5, <2>1, FlayerSet
<1>7. /\ Existing(cut) = Existing(t) /\ OnOthers(cut) = OnOthers(t) /\ Alive(cut) = Alive(t)
      /\ Bottom(cut, l) = Bottom(t, l)
      /\ Bare(cut, l) /\ Top(cut, l)
  BY <1>6, SameSound
<1>8. Ready(cut)
  BY <1>6, <1>7 DEF Ready
<1>9. PICK v : v = ExitAll(cut)
  OBVIOUS
<1>10. Leaving(cut, v) /\ v.flayer \notin Overlays
  BY <1>8, <1>9, ExitAllSound
<1>11. Down(cut, v) /\ Exited(cut, v) /\ Core(v, v.flayer) /\ v \in Screens
  BY <1>6, <1>7, <1>10 DEF Leaving, Ready, Core
<1>12. Under(t.below, v.flayer) = {} /\ Bottom(v, v.flayer) = v.flayer
  <2>1. v.flayer \in Maybe(Layers)
    BY <1>11, Types DEF LayersTyped
  <2>2. QED
    BY <1>1, <1>10, <2>1, UnderIs DEF Bottom, IsOverlay
<1>13. Core(v, None)
  <2>1. Kept(v, None)
    BY <1>10, <1>11 DEF Core, Kept, OnOthers
  <2>2. QED
    BY <1>11, <2>1 DEF Core
<1> DEFINE x == IF t.flayer \in Under(t.below, l) THEN None ELSE t.flayer
<1>14. \A o \in Overlays : o \in Under(t.below, l) <=> o \in OnOthers(t) /\ o \notin OnOthers(v)
  BY <1>6, <1>7, <1>11, <1>12 DEF Down, SameLayers
<1>15. Owned(v) = Owned(t) /\ Existing(v) = Existing(t)
  BY <1>6, <1>7, <1>11 DEF Exited, Calm, Owned
<1>16. x \in Maybe(Alive(v)) /\ x \in Maybe(Layers)
  <2>1. t.flayer \in Maybe(Alive(t))
    BY DEF Core, Points
  <2>2. t.flayer \in OnOthers(t) => t.flayer \in Overlays
    BY DEF OnOthers
  <2>3. QED
    BY <1>0, <1>14, <1>15, <2>1, <2>2 DEF Maybe, Alive, LayersTyped
<1>17. u = [v EXCEPT !.flayer = x]
  BY <1>4, <1>9
<1> HIDE DEF x
<1>18. /\ u \in Screens /\ SameLayers(v, u) /\ Calm(v, u) /\ u.size = v.size /\ u.kind = v.kind /\ u.flayer = x
       /\ Core(u, None)
  BY <1>11, <1>13, <1>16, <1>17, FlayerSet
<1>19. Killed(t, l, u)
  <2>1. Calm(t, u) /\ u.size = t.size /\ u.kind = t.kind /\ Existing(u) = Existing(t)
    <3>1. Calm(t, v)
      BY <1>6, <1>11, CalmRefl DEF Exited
    <3>2. Calm(t, u)
      BY <1>18, <3>1, CalmRefl
    <3>3. QED
      BY <1>6, <1>11, <1>15, <1>18, <3>2, SameSound DEF Exited
  <2>2. \A c \in Canvases : u.cl[c] = t.cl[c]
    BY <1>6, <1>11, <1>18 DEF Down, SameLayers
  <2>3. \A o \in Under(t.below, l) : u.below[o] = None /\ t.below[o] # None /\ \A c \in Canvases : t.cl[c] # o
    BY <1>2, <1>3, <1>14, <1>18 DEF OnOthers, SameLayers, Bare
  <2>4. ASSUME NEW o \in Overlays \ Under(t.below, l) PROVE u.below[o] = t.below[o] /\ u.base[o] = t.base[o]
    <3>1. CASE o \in OnOthers(v)
      BY <1>6, <1>11, <1>18, <3>1 DEF Down, SameLayers
    <3>2. CASE o \notin OnOthers(v)
      <4>1. t.below[o] = None /\ v.below[o] = None
        BY <1>14, <3>2 DEF OnOthers
      <4>2. t.base[o] = None /\ v.base[o] = None
        BY <4>1, <1>13 DEF Core, Based
      <4>3. QED
        BY <1>18, <4>1, <4>2 DEF SameLayers
    <3>3. QED
      BY <3>1, <3>2
  <2>5. \A w \in Windows : /\ t.save[w] = l => u.save[w] = Bottom(t, l)
                           /\ t.save[w] # l => u.save[w] = t.save[w]
    <3>1. v.flayer = Bottom(t, l)
      BY <1>6, <1>7, <1>11, <1>12 DEF Down
    <3>2. QED
      BY <1>6, <1>11, <1>18, <3>1 DEF Down, SameLayers
  <2>6. QED
    BY <1>18, <2>1, <2>2, <2>3, <2>4, <2>5 DEF Killed, x
<1>20. QED
  BY <1>18, <1>19

-----------------------------------------------------------------------------
(* Every overlay is in the chain of a layer that is shown or saved.          *)

\* All overlays of a chain are in use and have the same bottom.
LEMMA UnderBase ==
  ASSUME NEW t \in Screens, Based(t), Ranked(t), NEW x \in OnOthers(t)
  PROVE  \A o \in Under(t.below, x) : o \in OnOthers(t) /\ t.base[o] = t.base[x]
<1> DEFINE P == {l \in Overlays : l \in OnOthers(t) =>
                   \A o \in Under(t.below, l) : o \in OnOthers(t) /\ t.base[o] = t.base[l]}
<1>1. PICK r, n : RankedBy(t.below, r, n)
  BY DEF Ranked
<1>2. ASSUME NEW l \in Overlays, t.below[l] \in Overlays => t.below[l] \in P PROVE l \in P
  <2>1. SUFFICES ASSUME l \in OnOthers(t), NEW o \in Under(t.below, l)
                 PROVE  o \in OnOthers(t) /\ t.base[o] = t.base[l]
    OBVIOUS
  <2>2. t.below[l] \in Alive(t) /\ t.base[l] = Bottom(t, t.below[l]) /\ t.below[l] \in Maybe(Layers) /\ l \in Maybe(Layers)
    BY <2>1, <1>1 DEF Based, OnOthers, RankedBy, Maybe, Layers
  <2>3. Under(t.below, l) = {l} \union Under(t.below, t.below[l])
    BY <1>1, <2>2, UnderIs
  <2>4. ASSUME o \in Under(t.below, t.below[l]) PROVE o \in OnOthers(t) /\ t.base[o] = t.base[l]
    <3>1. t.below[l] \in Overlays
      BY <1>1, <2>2, <2>4, UnderIs
    <3>2. t.below[l] \in OnOthers(t)
      BY <2>2, <3>1, Apart DEF Alive, Existing, Owned
    <3>3. t.base[l] = t.base[t.below[l]]
      BY <2>2, <3>1 DEF Bottom, IsOverlay
    <3>4. QED
      BY <1>2, <2>4, <3>1, <3>2, <3>3
  <2>5. QED
    BY <2>1, <2>3, <2>4
<1> HIDE DEF P
<1>3. Overlays \subseteq P
  BY <1>1, <1>2, Downwards
<1>4. QED
  BY <1>3 DEF P, OnOthers

Held(t, x) == (\E c \in Canvases : t.cl[c] = x) \/ \E w \in Windows : t.save[w] = x

\* From an overlay upwards one comes to one that is shown or saved.
LEMMA HasTop ==
  ASSUME NEW t, Core(t, None), NEW o \in OnOthers(t)
  PROVE  \E x \in Overlays : /\ o \in Under(t.below, x) /\ x \in OnOthers(t)
                             /\ Held(t, x) /\ t.base[x] = t.base[o]
<1> DEFINE Good(y) == \E x \in Overlays : y \in Under(t.below, x) /\ x \in OnOthers(t) /\ Held(t, x)
<1>1. PICK r, n : RankedBy(t.below, r, n)
  BY DEF Core, Ranked
<1>2. n \in Nat /\ \A y \in Overlays : r[y] \in 0 .. n
  BY <1>1 DEF RankedBy
<1> DEFINE T == {k \in 0 .. n + 1 : \A y \in OnOthers(t) : n - r[y] < k => Good(y)}
<1>3. 0 \in T
  BY <1>2 DEF OnOthers
<1>4. ASSUME NEW k \in 0 .. (n + 1) - 1, k \in T PROVE k + 1 \in T
  <2>1. ASSUME NEW y \in OnOthers(t), n - r[y] < k + 1 PROVE Good(y)
    <3>0. y \in Overlays /\ y # None /\ y \in Maybe(Layers)
      BY Apart DEF OnOthers, Maybe, Layers
    <3>1. Held(t, y) \/ ~Top(t, y)
      BY <3>0 DEF Core, Kept, Held, Bare
    <3>2. CASE Held(t, y)
      <4>1. y \in Under(t.below, y)
        BY <1>1, <3>0, UnderIs
      <4>2. QED
        BY <3>0, <3>2, <4>1
    <3>3. CASE ~Top(t, y)
      <4>1. PICK z \in Overlays : t.below[z] = y
        BY <3>3 DEF Top
      <4>2. z \in OnOthers(t) /\ n - r[z] < k
        <5>1. r[y] < r[z]
          BY <1>1, <3>0, <4>1 DEF RankedBy
        <5>2. r[y] \in 0 .. n /\ r[z] \in 0 .. n
          BY <1>2, <3>0
        <5>3. QED
          BY <1>2, <2>1, <3>0, <4>1, <5>1, <5>2 DEF OnOthers
      <4>3. PICK x \in Overlays : z \in Under(t.below, x) /\ x \in OnOthers(t) /\ Held(t, x)
        BY <1>4, <4>2
      <4>4. y \in Under(t.below, x)
        <5>1. x \in Maybe(Layers)
          BY DEF Maybe, Layers
        <5>2. QED
          BY <1>1, <3>0, <4>1, <4>3, <5>1, UnderLinks
      <4>5. QED
        BY <4>3, <4>4
    <3>4. QED
      BY <3>1, <3>2, <3>3
  <2>2. k + 1 \in 0 .. n + 1
    BY <1>2
  <2>3. QED
    BY <2>1, <2>2
<1> HIDE DEF T
<1>5. n + 1 \in T
  BY <1>2, <1>3, <1>4, UpTo
<1>6. Good(o)
  <2>1. n - r[o] < n + 1
    BY <1>2 DEF OnOthers
  <2>2. QED
    BY <1>5, <2>1 DEF T
<1>7. QED
  BY <1>6, UnderBase DEF Core

-----------------------------------------------------------------------------
(* The lists of Windows.                                                     *)


\* What is not used of a pool, each once.
LEMMA UnusedIs ==
  ASSUME NEW U, NEW pool \in Seq(U), IsInjective(pool), NEW S
  PROVE  /\ Unused(pool, S) \in Seq(U) /\ IsInjective(Unused(pool, S))
         /\ ToSet(Unused(pool, S)) = ToSet(pool) \ S
<1> DEFINE n == Len(pool)
           Upto(k) == {pool[i] : i \in 1 .. k}
           R == [k \in 0 .. n |-> {q \in Seq(U) : IsInjective(q) /\ ToSet(q) = Upto(k) \ S}]
<1>1. n \in Nat /\ DOMAIN pool = 1 .. n /\ \A i \in 1 .. n : pool[i] \in U
  BY LenProperties, ElementOfSeq
<1>2. Unused(pool, S) = AllSkips(S, <<>>, pool)
  BY DEF Unused, Skips, AllSkips, FoldLeft, MapThenFoldSet, Max
<1>3. \A i, j \in 1 .. n : pool[i] = pool[j] => i = j
  BY <1>1 DEF IsInjective
<1> HIDE DEF n
<1>4. <<>> \in R[0]
  <2>1. <<>> \in Seq(U) /\ IsInjective(<<>>) /\ ToSet(<<>>) = {}
    BY DEF ToSet, IsInjective
  <2>2. Upto(0) = {} /\ 0 \in 0 .. n
    BY <1>1
  <2>3. QED
    BY <2>1, <2>2
<1>5. ASSUME NEW k \in 1 .. n, NEW q \in R[k - 1] PROVE Skips(S, q, pool[k]) \in R[k]
  <2>1. k - 1 \in 0 .. n /\ k \in 0 .. n /\ pool[k] \in U
    BY <1>1
  <2>2. q \in Seq(U) /\ IsInjective(q) /\ ToSet(q) = Upto(k - 1) \ S
    BY <2>1
  <2>3. Upto(k) = Upto(k - 1) \union {pool[k]}
    <3>1. \A i \in 1 .. k : i \in 1 .. k - 1 \/ i = k
      BY <1>1
    <3>2. \A i \in 1 .. k - 1 : i \in 1 .. k
      BY <1>1
    <3>3. QED
      BY <3>1, <3>2
  <2>4. pool[k] \notin Upto(k - 1)
    BY <1>1, <1>3
  <2> HIDE DEF Upto
  <2>5. CASE pool[k] \in S
    BY <2>1, <2>2, <2>3, <2>5 DEF Skips
  <2>6. CASE pool[k] \notin S
    <3>1. pool[k] \notin ToSet(q)
      BY <2>2, <2>4
    <3>2. /\ Append(q, pool[k]) \in Seq(U) /\ IsInjective(Append(q, pool[k]))
          /\ ToSet(Append(q, pool[k])) = ToSet(q) \union {pool[k]}
      BY <2>1, <2>2, <3>1, ListAppended
    <3>3. Skips(S, q, pool[k]) = Append(q, pool[k])
      BY <2>6 DEF Skips
    <3>4. ToSet(q) \union {pool[k]} = Upto(k) \ S
      BY <2>2, <2>3, <2>6
    <3>5. QED
      BY <2>1, <3>2, <3>3, <3>4
  <2>7. QED
    BY <2>5, <2>6
<1> HIDE DEF R
<1>6. AllSkips(S, <<>>, pool) \in R[n]
  BY <1>1, <1>4, <1>5, SkipsKeep DEF n
<1>7. Upto(n) = ToSet(pool)
  BY <1>1 DEF ToSet
<1>8. QED
  BY <1>1, <1>2, <1>6, <1>7 DEF R

\* The head of a list that is not empty is one of it.
LEMMA HeadIn ==
  ASSUME NEW U, NEW q \in Seq(U), ToSet(q) # {}
  PROVE  Head(q) \in ToSet(q) /\ Len(q) >= 1
<1>1. q # <<>>
  BY EmptyList
<1>2. Head(q) = q[1] /\ 1 \in 1 .. Len(q) /\ DOMAIN q = 1 .. Len(q)
  BY <1>1, LenProperties, EmptySeq
<1>3. QED
  BY <1>2 DEF ToSet

\* A layer that is not used.
LEMMA NewLayer ==
  ASSUME NEW t, LayersLeft(t)
  PROVE  /\ Head(Unused(LayerPool, {x \in Overlays : t.below[x] # None})) \in Overlays
         /\ t.below[Head(Unused(LayerPool, {x \in Overlays : t.below[x] # None}))] = None
<1> DEFINE S == {x \in Overlays : t.below[x] # None}
<1>1. LayerPool \in Seq(Overlays) /\ IsInjective(LayerPool)
  BY PoolsAssumption
<1>2. Unused(LayerPool, S) \in Seq(Overlays) /\ ToSet(Unused(LayerPool, S)) = Overlays \ S
  BY <1>1, UnusedIs DEF Overlays
<1>3. Overlays \ S # {}
  BY DEF LayersLeft
<1>4. Head(Unused(LayerPool, S)) \in Overlays \ S
  BY <1>2, <1>3, HeadIn
<1>5. QED
  BY <1>4

\* A list without repetitions and a new element in front.
LEMMA ConsIs ==
  ASSUME NEW S, NEW q \in Seq(S), NEW x \in S, IsInjective(q), x \notin ToSet(q)
  PROVE  /\ Cons(x, q) \in Seq(S) /\ IsInjective(Cons(x, q))
         /\ \A y : y \in ToSet(Cons(x, q)) <=> y = x \/ y \in ToSet(q)
<1>1. Cons(x, q) = <<x>> \o q
  BY DEF Cons
<1>2. /\ <<x>> \o q \in Seq(S) /\ IsInjective(<<x>> \o q)
      /\ ToSet(<<x>> \o q) = {x} \union ToSet(q)
  BY Consed
<1>3. QED
  BY <1>1, <1>2

\* A list without repetitions less x, which may be there or not.
LEMMA RemovedIs ==
  ASSUME NEW S, NEW q \in Seq(S), IsInjective(q), NEW x
  PROVE  /\ RemoveFirst(q, x) \in Seq(S) /\ IsInjective(RemoveFirst(q, x))
         /\ \A y : y \in ToSet(RemoveFirst(q, x)) <=> y \in ToSet(q) /\ y # x
<1>1. CASE x \in ToSet(q)
  <2>1. /\ RemoveFirst(q, x) \in Seq(S) /\ IsInjective(RemoveFirst(q, x))
        /\ ToSet(RemoveFirst(q, x)) = ToSet(q) \ {x}
    BY <1>1, ListRemoved
  <2>2. QED
    BY <2>1
<1>2. CASE x \notin ToSet(q)
  <2>1. \A i \in 1 .. Len(q) : q[i] # x
    BY <1>2, LenProperties DEF ToSet
  <2>2. RemoveFirst(q, x) = q
    BY <2>1, ListUnchanged
  <2>3. QED
    BY <1>2, <2>2
<1>3. QED
  BY <1>1, <1>2

\* Bringing an element to the front keeps the others, once each.
LEMMA ToFrontIs ==
  ASSUME NEW S, NEW q \in Seq(S), IsInjective(q), NEW x \in S
  PROVE  /\ ToFront(q, x) \in Seq(S) /\ IsInjective(ToFront(q, x))
         /\ \A y : y \in ToSet(ToFront(q, x)) <=> y = x \/ y \in ToSet(q)
<1>1. /\ RemoveFirst(q, x) \in Seq(S) /\ IsInjective(RemoveFirst(q, x))
      /\ \A y : y \in ToSet(RemoveFirst(q, x)) <=> y \in ToSet(q) /\ y # x
  BY RemovedIs
<1>2. QED
  BY <1>1, ConsIs DEF ToFront

\* The next one of a list is another one, or there is none.
LEMMA AfterIs ==
  ASSUME NEW S, NEW q \in Seq(S), IsInjective(q), NEW x
  PROVE  After(q, x) = None \/ (After(q, x) \in ToSet(q) /\ After(q, x) # x)
<1>1. SUFFICES ASSUME x \in ToSet(q), x # Last(q)
               PROVE  q[Place(q, x) + 1] \in ToSet(q) /\ q[Place(q, x) + 1] # x
  BY DEF After
<1> DEFINE n == Len(q)
           i == Place(q, x)
<1>2. n \in Nat /\ DOMAIN q = 1 .. n
  BY LenProperties
<1>3. i \in 1 .. n /\ q[i] = x
  BY <1>1, <1>2 DEF Place, ToSet
<1>4. Last(q) = q[n]
  BY DEF Last
<1> HIDE DEF i, n
<1>5. i # n
  BY <1>1, <1>3, <1>4
<1>6. i + 1 \in 1 .. n /\ i + 1 # i
  BY <1>2, <1>3, <1>5
<1>7. q[i + 1] # q[i] /\ q[i + 1] \in ToSet(q)
  BY <1>2, <1>3, <1>6 DEF IsInjective, ToSet
<1>8. QED
  BY <1>3, <1>7 DEF i

-----------------------------------------------------------------------------
(* InitOverlayPage.                                                          *)

\* Its local definitions: the new layer, the window it is for, whether it is the
\* first to block it, whether it is to be shown with it, whether it covers one
\* canvas only, and what is there after the superseded layers went.
NewOverlay(t) == Head(Unused(LayerPool, {x \in Overlays : t.below[x] # None}))
ForWindow(t) == Layer2Window(t, t.flayer)
First(t, kind) == ForWindow(t) # None /\ kind = "block" /\ ~IsOverlay(t.flayer)
Saves(t, kind) == ForWindow(t) # None /\ (First(t, kind) \/ t.save[ForWindow(t)] = t.flayer)
OnCv(t) == IF t.display # None /\ t.cl[t.forecv[t.display]] = t.flayer THEN t.forecv[t.display] ELSE None
Own(t, kind) == OnCv(t) # None /\ ~IsOverlay(t.flayer) /\ ~(kind = "block")
Cleared(t, kind) ==
  IF Saves(t, kind) /\ Superseded(t, ForWindow(t), t.flayer)
  THEN KillLayerChain(t, t.save[ForWindow(t)]) ELSE t
Mine(t, kind, v) == Taken(v.on, t.flayer, Own(t, kind), OnCv(t))
Laid(t, kind, v, o) ==
  [v EXCEPT !.save = [w \in Windows |-> IF w = ForWindow(t) /\ Saves(t, kind) THEN o ELSE @[w]],
            !.blocked = [w \in Windows |-> IF w = ForWindow(t) /\ First(t, kind) THEN @[w] + 1 ELSE @[w]],
            !.blocking = IF First(t, kind) THEN @ \union {o} ELSE @,
            !.cl = [c \in Canvases |-> IF c \in ToSet(Mine(t, kind, v)) THEN o ELSE @[c]],
            !.on = TakenOver(@, o, t.flayer, Own(t, kind), OnCv(t)),
            !.below[o] = t.flayer, !.base[o] = Bottom(t, t.flayer), !.kind[o] = kind,
            !.size[o] = t.size[t.flayer], !.flayer = o]

InitFacts(t, kind, v, o, u) ==
  /\ u.save = [w \in Windows |-> IF w = ForWindow(t) /\ Saves(t, kind) THEN o ELSE v.save[w]]
  /\ u.blocked = [w \in Windows |-> IF w = ForWindow(t) /\ First(t, kind) THEN v.blocked[w] + 1 ELSE v.blocked[w]]
  /\ u.blocking = IF First(t, kind) THEN v.blocking \union {o} ELSE v.blocking
  /\ u.cl = [c \in Canvases |-> IF c \in ToSet(Mine(t, kind, v)) THEN o ELSE v.cl[c]]
  /\ u.below = [v.below EXCEPT ![o] = t.flayer] /\ u.base = [v.base EXCEPT ![o] = Bottom(t, t.flayer)]
  /\ u.kind = [v.kind EXCEPT ![o] = kind] /\ u.size = [v.size EXCEPT ![o] = t.size[t.flayer]]
  /\ u.flayer = o /\ Calm(v, u) /\ Whole(u)
  /\ u.on = TakenOver(v.on, o, t.flayer, Own(t, kind), OnCv(t))

\* InitOverlayPage, field by field.
LEMMA InitFields ==
  ASSUME NEW t \in Screens, NEW kind, NEW u, u = InitOverlayPage(t, kind),
         NEW v \in Screens, v = Cleared(t, kind), NEW o, o = NewOverlay(t)
  PROVE  InitFacts(t, kind, v, o, u)
<1> DEFINE save == [w \in Windows |-> IF w = ForWindow(t) /\ Saves(t, kind) THEN o ELSE v.save[w]]
           blocked == [w \in Windows |-> IF w = ForWindow(t) /\ First(t, kind) THEN v.blocked[w] + 1 ELSE v.blocked[w]]
           blocking == IF First(t, kind) THEN v.blocking \union {o} ELSE v.blocking
           cl == [c \in Canvases |-> IF c \in ToSet(Mine(t, kind, v)) THEN o ELSE v.cl[c]]
           on == TakenOver(v.on, o, t.flayer, Own(t, kind), OnCv(t))
           f == t.flayer
           b == Bottom(t, f)
           size == t.size[f]
<1>0. InitOverlayPage(t, kind) = Laid(t, kind, Cleared(t, kind), NewOverlay(t))
  BY Zenon DEF InitOverlayPage, With, Cleared, First, Saves, NewOverlay, ForWindow, Own, Mine, OnCv, Laid
<1>1. u = [v EXCEPT !.save = save, !.blocked = blocked, !.blocking = blocking, !.cl = cl, !.on = on,
                    !.below[o] = f, !.base[o] = b, !.kind[o] = kind, !.size[o] = size, !.flayer = o]
  <2>1. u = Laid(t, kind, v, o)
    BY <1>0
  <2>2. QED
    BY <2>1 DEF Laid, Screens
<1> HIDE DEF save, blocked, blocking, cl, on, f, b, size
<1>2. Whole(u) /\ Calm(v, u)
  <2>1. Calm(v, u)
    BY <1>1 DEF Screens, Calm
  <2>2. Whole(u)
    BY <1>1 DEF Screens, Whole
  <2>3. QED
    BY <2>1, <2>2
<1>3. /\ u.save = save /\ u.blocked = blocked /\ u.blocking = blocking /\ u.cl = cl
      /\ u.below = [v.below EXCEPT ![o] = f] /\ u.base = [v.base EXCEPT ![o] = b]
      /\ u.kind = [v.kind EXCEPT ![o] = kind] /\ u.size = [v.size EXCEPT ![o] = size]
      /\ u.flayer = o /\ u.on = on
  BY <1>1 DEF Screens
<1>4. QED
  BY <1>2, <1>3 DEF save, blocked, blocking, cl, on, f, b, size, InitFacts

ShownNowhere(cl, o) == \A c \in Canvases : cl[c] # o
TakesOver(on, o, f, own, cv, cl, cl2) ==
  \A c \in Canvases : cl2[c] = IF c \in ToSet(Taken(on, f, own, cv)) THEN o ELSE cl[c]

\* The lists of canvases agree with c_layer after the new overlay has taken some over.
LEMMA TakenIs ==
  ASSUME NEW on \in [Layers -> Seq(Canvases)], NEW cl, ListsOf(on, cl), NEW o \in Layers, NEW f \in Layers, o # f,
         ShownNowhere(cl, o), NEW own \in BOOLEAN, NEW cv \in Canvases, cl[cv] = f,
         NEW cl2, TakesOver(on, o, f, own, cv, cl, cl2)
  PROVE  /\ TakenOver(on, o, f, own, cv) \in [Layers -> Seq(Canvases)] /\ ListsOf(TakenOver(on, o, f, own, cv), cl2)
         /\ \A c \in Canvases : cl2[c] = IF cl[c] = f /\ (own => c = cv) THEN o ELSE cl[c]
<1> DEFINE q == Taken(on, f, own, cv)
           r == IF own THEN RemoveFirst(on[f], cv) ELSE <<>>
<1>0. on[f] \in Seq(Canvases) /\ IsInjective(on[f]) /\ \A c \in Canvases : c \in ToSet(on[f]) <=> cl[c] = f
  BY DEF ListsOf
<1>1. q \in Seq(Canvases) /\ IsInjective(q) /\ \A y : y \in ToSet(q) <=> y \in Canvases /\ cl[y] = f /\ (own => y = cv)
  <2>1. CASE own
    <3>1. <<cv>> \in Seq(Canvases) /\ IsInjective(<<cv>>) /\ ToSet(<<cv>>) = {cv}
      BY <2>1 DEF IsInjective, ToSet
    <3>2. QED
      BY <2>1, <3>1 DEF Taken
  <2>2. CASE ~own
    <3>1. q = on[f]
      BY <2>2 DEF Taken
    <3>2. \A y : y \in ToSet(q) <=> y \in Canvases /\ cl[y] = f
      BY <3>1 DEF ListsOf
    <3>3. QED
      BY <1>0, <2>2, <3>1, <3>2
  <2>3. QED
    BY <2>1, <2>2
<1>2. r \in Seq(Canvases) /\ IsInjective(r) /\ \A y : y \in ToSet(r) <=> y \in Canvases /\ cl[y] = f /\ own /\ y # cv
  <2>1. CASE own
    <3>1. r = RemoveFirst(on[f], cv)
      BY <2>1
    <3>2. /\ RemoveFirst(on[f], cv) \in Seq(Canvases) /\ IsInjective(RemoveFirst(on[f], cv))
          /\ \A y : y \in ToSet(RemoveFirst(on[f], cv)) <=> y \in ToSet(on[f]) /\ y # cv
      BY <1>0, RemovedIs
    <3>3. \A y : y \in ToSet(on[f]) <=> y \in Canvases /\ cl[y] = f
      BY DEF ListsOf
    <3>4. QED
      BY <2>1, <3>1, <3>2, <3>3
  <2>2. CASE ~own
    <3>1. <<>> \in Seq(Canvases) /\ IsInjective(<<>>) /\ ToSet(<<>>) = {}
      BY DEF IsInjective, ToSet
    <3>2. QED
      BY <2>2, <3>1
  <2>3. QED
    BY <2>1, <2>2
<1>3. TakenOver(on, o, f, own, cv) = [on EXCEPT ![o] = q, ![f] = r]
  BY DEF TakenOver
<1> HIDE DEF q, r
<1> DEFINE on2 == [on EXCEPT ![o] = q, ![f] = r]
<1>4. on2 \in [Layers -> Seq(Canvases)] /\ on2[o] = q /\ on2[f] = r /\ \A l \in Layers : l # o /\ l # f => on2[l] = on[l]
  BY <1>1, <1>2
<1>5. \A c \in Canvases : cl2[c] = IF cl[c] = f /\ (own => c = cv) THEN o ELSE cl[c]
  BY <1>1 DEF q, TakesOver
<1> HIDE DEF on2
<1>6. ASSUME NEW l \in Layers PROVE IsInjective(on2[l]) /\ ToSet(on2[l]) = {c \in Canvases : cl2[c] = l}
  <2>1. CASE l = o
    <3>1. \A c \in Canvases : cl2[c] = o <=> cl[c] = f /\ (own => c = cv)
      BY <1>5 DEF ShownNowhere
    <3>2. QED
      BY <1>1, <1>4, <2>1, <3>1
  <2>2. CASE l = f
    <3>1. \A c \in Canvases : cl2[c] = f <=> cl[c] = f /\ own /\ c # cv
      BY <1>5
    <3>2. QED
      BY <1>2, <1>4, <2>2, <3>1
  <2>3. CASE l # o /\ l # f
    <3>1. \A c \in Canvases : cl2[c] = l <=> cl[c] = l
      BY <1>5, <2>3
    <3>2. IsInjective(on[l]) /\ ToSet(on[l]) = {c \in Canvases : cl[c] = l}
      BY DEF ListsOf
    <3>3. QED
      BY <1>4, <2>3, <3>1, <3>2
  <2>4. QED
    BY <2>1, <2>2, <2>3
<1>7. TakenOver(on, o, f, own, cv) = on2
  BY <1>3 DEF on2
<1>8. ListsOf(on2, cl2)
  BY <1>6 DEF ListsOf
<1>9. QED
  BY <1>4, <1>5, <1>7, <1>8

\* What InitOverlayPage finds when the superseded layers went.
Ripe(t, kind, v, f, p) ==
  /\ Core(v, None) /\ Calm(t, v) /\ v.size = t.size /\ Existing(v) = Existing(t) /\ v.flayer = f
  /\ \A c \in Canvases : v.cl[c] = t.cl[c] /\ Bottom(v, v.cl[c]) = Bottom(t, t.cl[c])
  /\ f \in Alive(v) /\ f \in Layers /\ f # None /\ Bottom(v, f) = Bottom(t, f)
  /\ f \notin Windows => Top(v, f)
  /\ p # None => p \in Windows /\ p \in Existing(v) /\ Bottom(v, f) = p
  /\ p = None => Bottom(v, f) \notin Windows
  /\ Saves(t, kind) => v.save[p] = f \/ ~Bare(v, v.save[p])
  /\ First(t, kind) => f = p /\ v.blocked[p] = 0
  /\ \A w \in Windows : v.save[w] = f /\ f \notin Windows => w = p /\ Saves(t, kind)
  /\ OnOthers(v) \subseteq OnOthers(t)

\* An exception of the invariant may remain unused.
LEMMA KeptWeaker ==
  ASSUME NEW t, Core(t, None), NEW e
  PROVE  Core(t, e)
<1>1. Kept(t, e)
  BY Apart DEF Core, Kept, OnOthers
<1>2. QED
  BY <1>1 DEF Core

\* After the superseded layer is gone all is ready for the new overlay.
LEMMA InitCleared ==
  ASSUME NEW t, Core(t, None), NEW kind, NEW f, f = t.flayer, NEW p, p = ForWindow(t),
         NEW cv \in Canvases, t.cl[cv] = f, f # None, NEW v, v = Cleared(t, kind)
  PROVE  Ripe(t, kind, v, f, p)
<1>0. t \in Screens /\ LayersTyped(t) /\ f \in Alive(t) /\ f \in Layers
  <2>1. t \in Screens /\ LayersTyped(t) /\ f \in Alive(t)
    BY Types DEF Core, Homes
  <2>2. QED
    BY <2>1 DEF Alive, Existing, Owned, OnOthers, Layers
<1>1. f \notin Windows => Top(t, f)
  BY DEF Core, Covered, Top, OnOthers, Bare
<1>2. /\ p # None => p \in Windows /\ p \in Existing(t) /\ Bottom(t, f) = p
      /\ p = None => Bottom(t, f) \notin Windows
  <2>1. Layer2Window(t, f) = IF Bottom(t, f) \in Windows THEN Bottom(t, f) ELSE None
    BY DEF Layer2Window
  <2>2. ASSUME Bottom(t, f) \in Windows PROVE Bottom(t, f) \in Existing(t)
    <3>1. CASE f \in Overlays
      <4>1. f \in OnOthers(t)
        BY <1>0, <3>1, Apart DEF Alive, Existing, Owned
      <4>2. Bottom(t, f) = t.base[f]
        BY <3>1 DEF Bottom, IsOverlay
      <4>3. t.base[f] \in Existing(t) \union Owned(t)
        BY <3>1, <4>1 DEF Core, Based, OnOthers
      <4>4. QED
        BY <2>2, <4>2, <4>3, Apart DEF Owned
    <3>2. CASE f \notin Overlays
      <4>1. Bottom(t, f) = f
        BY <3>2 DEF Bottom, IsOverlay
      <4>2. QED
        BY <1>0, <2>2, <4>1, Apart DEF Alive, Owned, OnOthers
    <3>3. QED
      BY <3>1, <3>2
  <2>3. QED
    BY <2>1, <2>2, Apart DEF ForWindow
<1>3. First(t, kind) => f = p /\ p # None /\ p \in Windows /\ p \in Existing(t) /\ f \notin Overlays /\ t.blocked[p] = 0
  <2>1. First(t, kind) => f = p /\ p # None /\ p \in Windows /\ p \in Existing(t) /\ f \notin Overlays
    BY <1>2 DEF First, Bottom, IsOverlay
  <2>2. \A w \in Windows : ~Bare(t, w) => t.blocked[w] = 0
    BY DEF Core, Blocks
  <2>3. QED
    BY <2>1, <2>2 DEF Bare
<1>4. \A w \in Windows : t.save[w] = f => w = p /\ Saves(t, kind)
  <2>1. SUFFICES ASSUME NEW w \in Windows, t.save[w] = f PROVE w = p /\ Saves(t, kind)
    OBVIOUS
  <2>2. w \in Existing(t) /\ Bottom(t, f) = w
    BY <2>1 DEF Existing, Core, Saved
  <2>3. w = p
    BY <1>2, <2>2
  <2>4. QED
    BY <2>1, <2>3, Apart DEF Saves, ForWindow
<1>5. CASE ~(Saves(t, kind) /\ Superseded(t, p, f))
  <2>1. v = t
    BY <1>5 DEF Cleared, ForWindow
  <2>2. Saves(t, kind) => t.save[p] = f \/ ~Bare(t, t.save[p])
    <3>1. SUFFICES ASSUME Saves(t, kind), t.save[p] # f PROVE ~Bare(t, t.save[p])
      OBVIOUS
    <3>2. p \in Windows /\ t.save[p] # None
      BY <1>2, <3>1 DEF Saves, Existing, ForWindow
    <3>3. t.on[t.save[p]] # <<>> /\ t.save[p] \in Layers
      BY <1>0, <1>5, <3>1, <3>2 DEF Superseded, LayersTyped, Maybe
    <3>4. ToSet(t.on[t.save[p]]) # {}
      BY <1>0, <3>3, EmptyList DEF LayersTyped
    <3>5. QED
      BY <3>3, <3>4 DEF Core, Lists, ListsOf, Bare
  <2>3. Calm(t, t)
    BY DEF Calm
  <2>4. QED
    BY <1>0, <1>1, <1>2, <1>3, <1>4, <2>1, <2>2, <2>3 DEF Ripe
<1>6. CASE Saves(t, kind) /\ Superseded(t, p, f)
  <2> DEFINE l == t.save[p]
  <2>1. v = KillLayerChain(t, l)
    BY <1>6 DEF Cleared, ForWindow
  <2>2. p # None /\ p \in Windows /\ p \in Existing(t) /\ l # None /\ l # f /\ t.on[l] = <<>> /\ First(t, kind)
    BY <1>2, <1>6 DEF Saves, ForWindow, Superseded
  <2>3. f = p /\ f \in Windows /\ f \notin Overlays /\ t.blocked[p] = 0
    BY <1>3, <2>2
  <2>4. l \in Alive(t) /\ Bottom(t, l) = p
    BY <2>2 DEF Core, Saved
  <2>5. l \in OnOthers(t) /\ l \in Overlays /\ l \in Layers
    <3>1. l \in Overlays
      BY <2>2, <2>3, <2>4 DEF Bottom, IsOverlay
    <3>2. QED
      BY <2>4, <3>1, Apart DEF Alive, Existing, Owned, Layers
  <2>6. Top(t, l)
    <3>1. \A o \in Overlays : t.below[o] = l => o \in OnOthers(t) /\ t.below[o] \notin Windows
      BY <2>2, <2>5, Apart DEF OnOthers
    <3>2. QED
      BY <2>2, <3>1 DEF Core, Covered, Top
  <2>7. Bare(t, l)
    <3>1. ToSet(t.on[l]) = {}
      BY <1>0, <2>2, <2>5, EmptyList DEF LayersTyped
    <3>2. QED
      BY <2>5, <3>1 DEF Core, Lists, ListsOf, Bare
  <2>8. Core(v, None) /\ Killed(t, l, v)
    BY <2>1, <2>5, <2>6, <2>7, KeptWeaker, KillSound
  <2>9. PICK r, n : RankedBy(t.below, r, n)
    BY DEF Core, Ranked
  <2>10. Under(t.below, l) \subseteq Overlays
    BY <2>5, <2>9, UnderIs DEF Maybe
  <2>11. v.flayer = f /\ v.save[p] = f /\ Calm(t, v) /\ v.size = t.size /\ Existing(v) = Existing(t)
    BY <2>2, <2>3, <2>4, <2>8, <2>10 DEF Killed
  <2>12. f \in Alive(v) /\ f # None /\ Bottom(v, f) = f /\ Bottom(t, f) = f
    BY <1>0, <2>2, <2>3, <2>11 DEF Alive, Bottom, IsOverlay
  <2>13. OnOthers(v) \subseteq OnOthers(t)
    BY <2>8, <2>10 DEF Killed, OnOthers
  <2>14. v.blocked[p] = 0
    <3>1. ~Bare(v, p) /\ p \in Windows
      BY <2>2, <2>3, <2>8 DEF Killed, Bare
    <3>2. QED
      BY <2>8, <3>1 DEF Core, Blocks
  <2>15. ASSUME NEW c \in Canvases PROVE v.cl[c] = t.cl[c] /\ Bottom(v, v.cl[c]) = Bottom(t, t.cl[c])
    <3>1. v.cl[c] = t.cl[c]
      BY <2>8 DEF Killed
    <3>2. t.cl[c] \in Overlays => t.cl[c] \notin Under(t.below, l)
      BY <2>8 DEF Killed
    <3>3. QED
      BY <2>8, <3>1, <3>2 DEF Killed, Bottom, IsOverlay
  <2>16. QED
    BY <1>0, <2>2, <2>3, <2>8, <2>11, <2>12, <2>13, <2>14, <2>15 DEF Ripe
<1>7. QED
  BY <1>5, <1>6

\* What the operators on the layers of canvases keep.
Steady(t, u) ==
  /\ Existing(u) = Existing(t)
  /\ \A c \in Canvases : /\ t.cl[c] = None <=> u.cl[c] = None
                         /\ t.cl[c] # None => Bottom(u, u.cl[c]) = Bottom(t, t.cl[c])

\* InitOverlayPage keeps the invariant, and the focused canvas shows the overlay.
LEMMA InitSound ==
  ASSUME NEW t, Core(t, None), LayersLeft(t), NEW kind \in Kinds, t.display # None,
         NEW cv \in Canvases, cv = t.forecv[t.display], t.cl[cv] = t.flayer, t.flayer # None,
         NEW u, u = InitOverlayPage(t, kind)
  PROVE  Core(u, None) /\ Calm(t, u) /\ Steady(t, u) /\ u.flayer \in Overlays /\ u.flayer = u.cl[cv]
<1> DEFINE f == t.flayer
           p == ForWindow(t)
           own == Own(t, kind)
           first == First(t, kind)
           saves == Saves(t, kind)
<1>1. PICK o : o = NewOverlay(t)
  OBVIOUS
<1>2. PICK v : v = Cleared(t, kind)
  OBVIOUS
<1>3. Ripe(t, kind, v, f, p)
  BY <1>2, InitCleared
<1>4. o \in Overlays /\ t.below[o] = None /\ o # None /\ o \in Layers
  BY <1>1, NewLayer, Apart DEF NewOverlay, Layers
<1>5. t \in Screens /\ v \in Screens /\ LayersTyped(v) /\ LooksTyped(v) /\ OthersTyped(v) /\ LooksTyped(t)
  BY <1>3, Types DEF Ripe, Core
<1>6. OnCv(t) = cv /\ cv # None
  BY Apart DEF OnCv
<1>7. /\ u.save = [w \in Windows |-> IF w = p /\ saves THEN o ELSE v.save[w]]
      /\ u.blocked = [w \in Windows |-> IF w = p /\ first THEN v.blocked[w] + 1 ELSE v.blocked[w]]
      /\ u.blocking = IF first THEN v.blocking \union {o} ELSE v.blocking
      /\ u.cl = [c \in Canvases |-> IF c \in ToSet(Taken(v.on, f, own, cv)) THEN o ELSE v.cl[c]]
      /\ u.below = [v.below EXCEPT ![o] = f] /\ u.base = [v.base EXCEPT ![o] = Bottom(t, f)]
      /\ u.kind = [v.kind EXCEPT ![o] = kind] /\ u.size = [v.size EXCEPT ![o] = t.size[f]]
      /\ u.flayer = o /\ Calm(v, u) /\ Whole(u)
      /\ u.on = TakenOver(v.on, o, f, own, cv)
  <2>1. Mine(t, kind, v) = Taken(v.on, f, own, cv) /\ OnCv(t) = cv
    BY <1>6 DEF Mine
  <2>2. /\ u.save = [w \in Windows |-> IF w = ForWindow(t) /\ Saves(t, kind) THEN o ELSE v.save[w]]
        /\ u.blocked = [w \in Windows |-> IF w = ForWindow(t) /\ First(t, kind) THEN v.blocked[w] + 1 ELSE v.blocked[w]]
        /\ u.blocking = IF First(t, kind) THEN v.blocking \union {o} ELSE v.blocking
        /\ u.cl = [c \in Canvases |-> IF c \in ToSet(Mine(t, kind, v)) THEN o ELSE v.cl[c]]
        /\ u.below = [v.below EXCEPT ![o] = t.flayer] /\ u.base = [v.base EXCEPT ![o] = Bottom(t, t.flayer)]
        /\ u.kind = [v.kind EXCEPT ![o] = kind] /\ u.size = [v.size EXCEPT ![o] = t.size[t.flayer]]
        /\ u.flayer = o /\ Calm(v, u) /\ Whole(u)
        /\ u.on = TakenOver(v.on, o, t.flayer, Own(t, kind), OnCv(t))
    <3>1. InitFacts(t, kind, v, o, u)
      BY <1>1, <1>2, <1>5, InitFields
    <3>2. QED
      BY <3>1 DEF InitFacts
  <2>3. QED
    BY <2>1, <2>2
<1>8. own \in BOOLEAN /\ first \in BOOLEAN /\ saves \in BOOLEAN
  BY DEF Own, First, Saves
<1>9. (own => f \notin Overlays) /\ (~own => f \in Overlays \/ kind = "block")
  BY <1>6 DEF Own, IsOverlay
<1>10. first => f = p /\ p # None /\ kind = "block" /\ f \notin Overlays /\ ~own
  BY <1>3, <1>8 DEF First, Ripe, IsOverlay, Own
<1>11. ~first /\ f \in Windows => own
  BY <1>3, <1>6, Apart DEF First, Own, Ripe, Bottom, IsOverlay
<1> HIDE DEF own, first, saves, p
<1>12. f \in Layers /\ f \in Alive(v) /\ f # o /\ f # None
  <2>1. o \notin OnOthers(v) /\ o \notin Windows /\ o \notin Canvases
    BY <1>3, <1>4, Apart DEF Ripe, OnOthers
  <2>2. QED
    BY <1>3, <2>1 DEF Ripe, Alive, Existing, Owned
<1>13. v.below[o] = None /\ v.base[o] = None /\ o \notin v.blocking /\ o \notin Alive(v)
  <2>1. v.below[o] = None
    BY <1>3, <1>4 DEF Ripe, OnOthers
  <2>2. QED
    BY <1>3, <1>4, <2>1, Apart DEF Ripe, Core, Based, Alive, Existing, Owned, OnOthers
<1>14. /\ \A c \in Canvases : v.cl[c] # o
       /\ \A x \in Overlays : v.below[x] # o
       /\ \A w \in Windows : v.save[w] # o
  <2>1. Homes(v) /\ Based(v) /\ Saved(v)
    BY <1>3 DEF Ripe, Core
  <2>2. QED
    BY <1>4, <1>13, <2>1 DEF Homes, Based, Saved, Existing
<1>15. u.on \in [Layers -> Seq(Canvases)] /\ Lists(u)
       /\ \A c \in Canvases : u.cl[c] = IF v.cl[c] = f /\ (own => c = cv) THEN o ELSE v.cl[c]
  <2>1. ListsOf(v.on, v.cl) /\ v.cl[cv] = f
    BY <1>3 DEF Ripe, Core, Lists
  <2>2. \A c \in Canvases : u.cl[c] = IF c \in ToSet(Taken(v.on, f, own, cv)) THEN o ELSE v.cl[c]
    BY <1>7
  <2>3. /\ TakenOver(v.on, o, f, own, cv) \in [Layers -> Seq(Canvases)]
        /\ ListsOf(TakenOver(v.on, o, f, own, cv), u.cl)
        /\ \A c \in Canvases : u.cl[c] = IF v.cl[c] = f /\ (own => c = cv) THEN o ELSE v.cl[c]
    <3>1. v.on \in [Layers -> Seq(Canvases)]
      BY <1>5 DEF LayersTyped
    <3>2. ShownNowhere(v.cl, o) /\ TakesOver(v.on, o, f, own, cv, v.cl, u.cl)
      BY <1>14, <2>2 DEF ShownNowhere, TakesOver
    <3>3. QED
      BY <1>4, <1>8, <1>12, <2>1, <3>1, <3>2, TakenIs
  <2>4. QED
    BY <1>7, <2>3 DEF Lists
<1>16. u.cl[cv] = o
  BY <1>3, <1>15 DEF Ripe
<1>17. f \notin Windows \/ first => Bare(u, f)
  <2>1. SUFFICES ASSUME f \notin Windows \/ first, NEW c \in Canvases, u.cl[c] = f PROVE FALSE
    BY DEF Bare
  <2>2. v.cl[c] = f /\ own /\ c # cv
    BY <1>12, <1>15, <2>1
  <2>3. f \in Canvases
    BY <1>9, <1>10, <1>12, <2>1, <2>2, Apart
  <2>4. Bottom(v, f) = f
    BY <2>3, Apart DEF Bottom, IsOverlay
  <2>5. c = f /\ cv = f
    BY <1>3, <1>12, <2>2, <2>3, <2>4, Apart DEF Ripe, Core, Homes
  <2>6. QED
    BY <2>2, <2>5
<1>18. /\ u.below[o] = f /\ u.base[o] = Bottom(v, f)
       /\ \A x \in Overlays : x # o => u.below[x] = v.below[x] /\ u.base[x] = v.base[x]
  BY <1>3, <1>4, <1>5, <1>7 DEF LayersTyped, Ripe
<1>19. /\ Existing(u) = Existing(v) /\ Owned(u) = Owned(v)
       /\ \A x \in Overlays : x \in OnOthers(u) <=> x = o \/ x \in OnOthers(v)
       /\ \A x : x \in Alive(u) <=> x = o \/ x \in Alive(v)
  <2>1. Existing(u) = Existing(v)
    <3>1. \A w \in Windows : u.save[w] # None <=> v.save[w] # None
      BY <1>3, <1>4, <1>7, <1>8 DEF Ripe, Existing, Saves, ForWindow, saves, p
    <3>2. QED
      BY <3>1 DEF Existing
  <2>2. Owned(u) = Owned(v)
    BY <1>7 DEF Calm, Owned
  <2>3. \A x \in Overlays : x \in OnOthers(u) <=> x = o \/ x \in OnOthers(v)
    BY <1>12, <1>18 DEF OnOthers
  <2>4. OnOthers(u) \subseteq Overlays /\ OnOthers(v) \subseteq Overlays
    BY DEF OnOthers
  <2>5. QED
    BY <1>4, <2>1, <2>2, <2>3, <2>4 DEF Alive
<1>20. \A x \in Maybe(Layers) : x # o => Bottom(u, x) = Bottom(v, x)
  BY <1>18 DEF Bottom, IsOverlay
<1>21. Bottom(u, o) = Bottom(v, f) /\ Bottom(u, f) = Bottom(v, f)
  BY <1>4, <1>12, <1>18, <1>20 DEF Bottom, IsOverlay, Maybe
<1>22. \A c \in Canvases : v.cl[c] \in Maybe(Layers) /\ ((u.cl[c] = o /\ v.cl[c] = f) \/ (u.cl[c] = v.cl[c] /\ u.cl[c] # o))
  BY <1>5, <1>14, <1>15 DEF LayersTyped
<1>23. \A c \in Canvases : (v.cl[c] = None <=> u.cl[c] = None) /\ (v.cl[c] # None => Bottom(u, u.cl[c]) = Bottom(v, v.cl[c]))
  BY <1>4, <1>12, <1>20, <1>21, <1>22
<1>24. ASSUME NEW l, l # o, Bare(v, l) PROVE Bare(u, l)
  BY <1>22, <1>24 DEF Bare
<1>25. u \in Screens
  <2>1. u.save \in [Windows -> Maybe(Layers)]
    BY <1>4, <1>5, <1>7 DEF LayersTyped, Maybe
  <2>2. u.blocked \in [Windows -> 0 .. 2]
    <3>1. \A w \in Windows : w = p /\ first => v.blocked[w] + 1 \in 0 .. 2
      BY <1>3 DEF Ripe, first
    <3>2. \A w \in Windows : v.blocked[w] \in 0 .. 2
      BY <1>5 DEF LayersTyped
    <3>3. QED
      BY <1>7, <3>1, <3>2
  <2>3. u.blocking \in SUBSET Overlays
    BY <1>4, <1>5, <1>7 DEF LayersTyped
  <2>4. u.cl \in [Canvases -> Maybe(Layers)]
    BY <1>4, <1>5, <1>7 DEF LayersTyped, Maybe
  <2>5. u.below \in [Overlays -> Maybe(Layers)] /\ u.base \in [Overlays -> Maybe(Layers)]
    <3>1. Bottom(v, f) \in Maybe(Layers)
      BY <1>5, <1>12 DEF LayersTyped, Maybe, Bottom, IsOverlay
    <3>2. Bottom(t, f) = Bottom(v, f)
      BY <1>3 DEF Ripe
    <3>3. QED
      BY <1>4, <1>5, <1>7, <1>12, <3>1, <3>2 DEF LayersTyped, Maybe
  <2>6. u.kind \in [Overlays -> Kinds]
    BY <1>4, <1>5, <1>7 DEF LooksTyped
  <2>7. u.size \in [Layers -> Sizes]
    BY <1>4, <1>5, <1>7, <1>12 DEF LooksTyped
  <2>8. LayersTyped(u)
    BY <1>4, <1>7, <1>15, <2>1, <2>2, <2>3, <2>4, <2>5 DEF LayersTyped, Maybe
  <2>9. QED
    BY <1>5, <1>7, <2>6, <2>7, <2>8, CalmType, IsScreen DEF LooksTyped
<1>26. Homes(u)
  <2>1. SUFFICES ASSUME NEW c \in Canvases, u.cl[c] # None
                 PROVE  /\ u.cl[c] \in Alive(u) /\ u.owner[c] # None
                        /\ Bottom(u, u.cl[c]) \in Windows \/ Bottom(u, u.cl[c]) = c
    BY DEF Homes
  <2>2. v.cl[c] # None /\ Bottom(u, u.cl[c]) = Bottom(v, v.cl[c])
    BY <1>23, <2>1
  <2>3. /\ v.cl[c] \in Alive(v) /\ v.owner[c] # None
        /\ Bottom(v, v.cl[c]) \in Windows \/ Bottom(v, v.cl[c]) = c
    BY <1>3, <2>2 DEF Ripe, Core, Homes
  <2>4. u.owner = v.owner
    BY <1>7 DEF Calm
  <2>5. QED
    BY <1>19, <1>22, <2>2, <2>3, <2>4
<1>27. \E n2, r2 : RankedBy(u.below, r2, n2)
  <2>1. PICK n, r : RankedBy(v.below, r, n)
    BY <1>3 DEF Ripe, Core, Ranked
  <2> DEFINE r2 == [r EXCEPT ![o] = n + 1]
  <2>2. n \in Nat /\ r \in [Overlays -> 0 .. n] /\ \A x \in Overlays : v.below[x] \in Overlays => r[v.below[x]] < r[x]
    BY <2>1 DEF RankedBy
  <2>3. r2 \in [Overlays -> 0 .. n + 1] /\ r2[o] = n + 1 /\ \A x \in Overlays : x # o => r2[x] = r[x]
    BY <1>4, <2>2
  <2> HIDE DEF r2
  <2>4. u.below \in [Overlays -> Maybe(Layers)]
    BY <1>25, Types DEF LayersTyped
  <2>5. ASSUME NEW x \in Overlays, u.below[x] \in Overlays PROVE r2[u.below[x]] < r2[x]
    <3>1. CASE x = o
      BY <1>12, <1>18, <2>2, <2>3, <2>5, <3>1
    <3>2. CASE x # o
      BY <1>14, <1>18, <2>2, <2>3, <2>5, <3>2
    <3>3. QED
      BY <3>1, <3>2
  <2>6. RankedBy(u.below, r2, n + 1)
    BY <2>2, <2>3, <2>4, <2>5 DEF RankedBy
  <2>7. QED
    BY <2>6
<1>28. Based(u)
  <2>1. Bottom(v, f) \in Existing(v) \union Owned(v)
    <3>1. f \in Overlays => f \in OnOthers(v)
      BY <1>12, Apart DEF Alive, Existing, Owned
    <3>2. f \in Overlays => v.base[f] \in Existing(v) \union Owned(v)
      BY <1>3, <3>1 DEF Ripe, Core, Based, OnOthers
    <3>3. f \notin Overlays => f \in Existing(v) \union Owned(v)
      BY <1>12 DEF Alive, OnOthers
    <3>4. QED
      BY <3>2, <3>3 DEF Bottom, IsOverlay
  <2>2. SUFFICES ASSUME NEW x \in Overlays
                 PROVE  /\ u.below[x] = None => u.base[x] = None /\ x \notin u.blocking
                        /\ u.below[x] # None => /\ u.below[x] \in Alive(u) /\ u.base[x] = Bottom(u, u.below[x])
                                                /\ u.base[x] \in Existing(u) \union Owned(u)
    BY DEF Based
  <2>3. CASE x = o
    BY <1>12, <1>18, <1>19, <1>21, <2>1, <2>3
  <2>4. CASE x # o
    <3>1. /\ v.below[x] = None => v.base[x] = None /\ x \notin v.blocking
          /\ v.below[x] # None => /\ v.below[x] \in Alive(v) /\ v.base[x] = Bottom(v, v.below[x])
                                  /\ v.base[x] \in Existing(v) \union Owned(v)
      BY <1>3 DEF Ripe, Core, Based
    <3>2. Bottom(u, v.below[x]) = Bottom(v, v.below[x])
      BY <1>5, <1>14, <1>20 DEF LayersTyped
    <3>3. x \in u.blocking => x \in v.blocking
      BY <1>7, <2>4
    <3>4. QED
      BY <1>18, <1>19, <2>4, <3>1, <3>2, <3>3
  <2>5. QED
    BY <2>3, <2>4
<1>29. f \notin Windows => Top(v, f)
  BY <1>3 DEF Ripe
<1>30. \A w \in Windows : u.save[w] = IF w = p /\ saves THEN o ELSE v.save[w]
  BY <1>7
<1>31. Covered(u)
  <2>1. ASSUME NEW x \in OnOthers(u), u.below[x] \notin Windows
        PROVE  /\ Bare(u, u.below[x]) /\ \A w \in Windows : u.save[w] # u.below[x]
               /\ \A y \in Overlays : u.below[y] = u.below[x] => y = x
    <3>0. x \in Overlays
      BY DEF OnOthers
    <3>1. CASE x = o
      <4>1. \A w \in Windows : u.save[w] # f
        <5>1. SUFFICES ASSUME NEW w \in Windows, u.save[w] = f PROVE FALSE
          OBVIOUS
        <5>2. v.save[w] = f /\ ~(w = p /\ saves)
          BY <1>12, <1>30, <5>1
        <5>3. QED
          BY <1>3, <1>18, <2>1, <3>1, <5>2 DEF Ripe, saves
      <4>2. \A y \in Overlays : u.below[y] = f => y = o
        BY <1>18, <1>29, <2>1, <3>1 DEF Top
      <4>3. QED
        BY <1>17, <1>18, <2>1, <3>1, <4>1, <4>2
    <3>2. CASE x # o
      <4>1. x \in OnOthers(v) /\ u.below[x] = v.below[x] /\ v.below[x] # o
        BY <1>14, <1>18, <1>19, <3>0, <3>2
      <4>2. /\ Bare(v, v.below[x]) /\ \A w \in Windows : v.save[w] # v.below[x]
            /\ \A y \in Overlays : v.below[y] = v.below[x] => y = x
        BY <1>3, <2>1, <4>1 DEF Ripe, Core, Covered
      <4>3. f # v.below[x]
        BY <1>29, <2>1, <3>0, <4>1 DEF Top
      <4>4. \A w \in Windows : u.save[w] # v.below[x]
        BY <1>30, <4>1, <4>2
      <4>5. \A y \in Overlays : u.below[y] = v.below[x] => y = x
        BY <1>18, <4>2, <4>3
      <4>6. QED
        BY <1>24, <4>1, <4>2, <4>4, <4>5
    <3>3. QED
      BY <3>1, <3>2
  <2>2. QED
    BY <2>1 DEF Covered
<1>32. Kept(u, None)
  <2>1. ASSUME NEW x \in OnOthers(u), Bare(u, x), Top(u, x), \A w \in Windows : u.save[w] # x PROVE FALSE
    <3>0. x \in Overlays
      BY DEF OnOthers
    <3>1. x # o
      BY <1>16, <2>1 DEF Bare
    <3>2. x # f
      BY <1>4, <1>18, <2>1 DEF Top
    <3>3. Bare(v, x)
      BY <1>22, <2>1, <3>2 DEF Bare
    <3>4. Top(v, x)
      BY <1>13, <1>18, <2>1, <3>0, Apart DEF Top
    <3>5. \A w \in Windows : v.save[w] # x
      <4>1. SUFFICES ASSUME NEW w \in Windows, v.save[w] = x PROVE FALSE
        OBVIOUS
      <4>2. w = p /\ saves
        BY <1>30, <2>1, <4>1
      <4>3. v.save[p] = f \/ ~Bare(v, v.save[p])
        BY <1>3, <4>2 DEF Ripe, saves
      <4>4. QED
        BY <3>2, <3>3, <4>1, <4>2, <4>3
    <3>6. x \in OnOthers(v) /\ x # None
      BY <1>19, <3>0, <3>1, Apart
    <3>7. QED
      BY <1>3, <3>3, <3>4, <3>5, <3>6 DEF Ripe, Core, Kept
  <2>2. QED
    BY <2>1 DEF Kept
<1>33. Saved(u)
  <2>1. SUFFICES ASSUME NEW w \in Existing(u) PROVE u.save[w] \in Alive(u) /\ Bottom(u, u.save[w]) = w
    BY DEF Saved
  <2>2. w \in Windows /\ w \in Existing(v)
    BY <1>19 DEF Existing
  <2>3. CASE w = p /\ saves
    <3>1. Bottom(v, f) = p
      BY <1>3, <2>2, <2>3, Apart DEF Ripe
    <3>2. QED
      BY <1>19, <1>21, <1>30, <2>2, <2>3, <3>1
  <2>4. CASE ~(w = p /\ saves)
    <3>1. v.save[w] \in Alive(v) /\ Bottom(v, v.save[w]) = w /\ v.save[w] \in Maybe(Layers) /\ v.save[w] # o
      BY <1>3, <1>5, <1>14, <2>2 DEF Ripe, Core, Saved, LayersTyped
    <3>2. QED
      BY <1>19, <1>20, <1>30, <2>2, <2>4, <3>1
  <2>5. QED
    BY <2>3, <2>4
<1>34. Blocks(u)
  <2>1. SUFFICES ASSUME NEW w \in Windows
                 PROVE  /\ u.blocked[w] \in {0, 1}
                        /\ u.blocked[w] = 0 => \A x \in u.blocking : u.below[x] # w
                        /\ u.blocked[w] = 1 => \E x \in u.blocking : u.below[x] = w
                        /\ \A x \in u.blocking : u.below[x] = w =>
                             Bare(u, w) /\ x \in Under(u.below, u.save[w]) /\ \A y \in u.blocking : u.below[y] = w => y = x
    BY DEF Blocks
  <2>2. /\ v.blocked[w] \in {0, 1}
        /\ v.blocked[w] = 0 => \A x \in v.blocking : v.below[x] # w
        /\ v.blocked[w] = 1 => \E x \in v.blocking : v.below[x] = w
        /\ \A x \in v.blocking : v.below[x] = w =>
             Bare(v, w) /\ x \in Under(v.below, v.save[w]) /\ \A y \in v.blocking : v.below[y] = w => y = x
    BY <1>3 DEF Ripe, Core, Blocks
  <2>3. v.blocking \subseteq Overlays /\ w # o /\ w # None
    BY <1>4, <1>5, Apart DEF LayersTyped
  <2>4. PICK n, r : RankedBy(u.below, r, n)
    BY <1>27
  <2>5. PICK m, q : RankedBy(v.below, q, m)
    BY <1>3 DEF Ripe, Core, Ranked
  <2>6. CASE w = p /\ first
    <3>1. w = f /\ v.blocked[w] = 0 /\ saves
      BY <1>3, <1>10, <2>6 DEF Ripe, first, saves, Saves, First
    <3>2. u.blocked[w] = 1 /\ u.blocking = v.blocking \union {o} /\ u.below[o] = w /\ u.save[w] = o
      BY <1>7, <1>18, <1>30, <2>2, <2>6, <3>1
    <3>3. \A x \in u.blocking : u.below[x] = w => x = o
      BY <1>18, <2>2, <2>3, <3>1, <3>2
    <3>4. Bare(u, w) /\ o \in Under(u.below, o)
      <4>1. o \in Maybe(Layers)
        BY <1>4 DEF Maybe
      <4>2. QED
        BY <1>4, <1>17, <2>4, <2>6, <3>1, <4>1, UnderIs
    <3>5. QED
      BY <3>2, <3>3, <3>4
  <2>7. CASE ~(w = p /\ first)
    <3>1. u.blocked[w] = v.blocked[w]
      BY <1>7, <2>7
    <3>2. \A x : (x \in u.blocking /\ u.below[x] = w) <=> (x \in v.blocking /\ v.below[x] = w)
      <4>1. first => u.below[o] # w
        BY <1>10, <1>18, <2>7
      <4>2. u.blocking = IF first THEN v.blocking \union {o} ELSE v.blocking
        BY <1>7
      <4>3. \A x \in v.blocking : u.below[x] = v.below[x]
        BY <1>13, <1>18, <2>3
      <4>4. QED
        BY <1>8, <4>1, <4>2, <4>3
    <3>3. Under(v.below, v.save[w]) \subseteq Under(u.below, u.save[w])
      <4>0. v.save[w] \in Maybe(Layers) /\ u.save[w] \in Maybe(Layers)
        BY <1>5, <1>25, Types DEF LayersTyped
      <4>1. \A x \in Under(v.below, v.save[w]) : u.below[x] = v.below[x]
        <5>1. v.save[w] \in OnOthers(v) => \A x \in Under(v.below, v.save[w]) : x \in OnOthers(v)
          BY <1>3, <1>5, UnderBase DEF Ripe, Core
        <5>2. v.save[w] \notin Overlays => Under(v.below, v.save[w]) = {}
          BY <2>5, <4>0, UnderIs
        <5>3. v.save[w] \in Overlays => v.save[w] \in OnOthers(v)
          BY <1>3, Apart DEF Ripe, Core, Saved, Alive, Existing, Owned
        <5>4. \A x \in Under(v.below, v.save[w]) : x \in Overlays /\ x # o
          BY <1>13, <5>1, <5>2, <5>3 DEF OnOthers
        <5>5. QED
          BY <1>18, <5>4
      <4>2. Under(u.below, v.save[w]) = Under(v.below, v.save[w])
        BY <2>4, <2>5, <4>0, <4>1, UnderSame
      <4>3. CASE w = p /\ saves
        <5>1. ~first
          BY <2>7, <4>3
        <5>2. v = t
          BY <1>2, <5>1, <4>3 DEF Cleared, Superseded, first, saves, p, Saves
        <5>3. v.save[w] = f
          BY <4>3, <5>1, <5>2 DEF saves, Saves, first, p
        <5>4. u.save[w] = o
          BY <1>30, <4>3
        <5>5. Under(u.below, o) = {o} \union Under(u.below, f)
          BY <1>4, <1>18, <2>4, <4>0, <5>4, UnderIs
        <5>6. QED
          BY <4>2, <5>3, <5>4, <5>5
      <4>4. CASE ~(w = p /\ saves)
        BY <1>30, <4>2, <4>4
      <4>5. QED
        BY <4>3, <4>4
    <3>4. Bare(v, w) => Bare(u, w)
      BY <1>24, <2>3
    <3>5. QED
      BY <2>2, <3>1, <3>2, <3>3, <3>4
  <2>8. QED
    BY <2>6, <2>7
<1>35. Points(u) /\ Listed(u)
  <2>1. Points(v) /\ Listed(v)
    BY <1>3 DEF Ripe, Core
  <2>2. u.mru = v.mru /\ u.fore = v.fore /\ u.dfore = v.dfore /\ u.dother = v.dother
    BY <1>7 DEF Calm
  <2>3. u.flayer = o
    BY <1>7
  <2>4. QED
    BY <1>19, <2>1, <2>2, <2>3 DEF Points, Listed, Maybe
<1>36. Core(u, None)
  BY <1>15, <1>25, <1>26, <1>27, <1>28, <1>31, <1>32, <1>33, <1>34, <1>35 DEF Core, Ranked
<1>37. Calm(t, u) /\ Steady(t, u)
  <2>1. Calm(t, u)
    BY <1>3, <1>7, CalmRefl DEF Ripe
  <2>2. Existing(u) = Existing(t)
    BY <1>3, <1>19 DEF Ripe
  <2>3. \A c \in Canvases : v.cl[c] = t.cl[c] /\ Bottom(v, v.cl[c]) = Bottom(t, t.cl[c])
    BY <1>3 DEF Ripe
  <2>4. QED
    BY <1>23, <2>1, <2>2, <2>3 DEF Steady
<1>38. QED
  BY <1>4, <1>7, <1>16, <1>36, <1>37

-----------------------------------------------------------------------------
(* SetCanvasWindow.                                                          *)

\* A canvas leaves the list of what it shows.
Parted(t, d, cv, u) ==
  /\ u.on = [x \in Layers |-> IF x = t.cl[cv] THEN RemoveFirst(t.on[x], cv) ELSE t.on[x]]
  /\ u.cl = [t.cl EXCEPT ![cv] = None]
  /\ u.dother = [t.dother EXCEPT ![d] = IF cv = t.forecv[d] /\ Shows(t, cv) # None THEN t.fore ELSE @]
  /\ u.dfore = [t.dfore EXCEPT ![d] = IF cv = t.forecv[d] /\ Shows(t, cv) # None THEN None ELSE @]
  /\ u.display = d /\ u.owner = t.owner /\ u.below = t.below /\ u.base = t.base /\ u.blocking = t.blocking
  /\ u.save = t.save /\ u.blocked = t.blocked /\ u.flayer = t.flayer /\ u.fore = t.fore /\ u.mru = t.mru
  /\ u.size = t.size /\ u.kind = t.kind
\* What SetCanvasWindow leaves alone.
Framed(t, u) ==
  /\ u.owner = t.owner /\ u.start = t.start /\ u.displays = t.displays /\ u.cvs = t.cvs /\ u.forecv = t.forecv
  /\ u.dlayout = t.dlayout /\ u.layouts = t.layouts /\ u.lay = t.lay
  /\ u.last = t.last /\ u.detachwin = t.detachwin /\ u.detachotherwin = t.detachotherwin

\* OffCanvas, field by field.
LEMMA OffFields ==
  ASSUME NEW t \in Screens, NEW cv \in Canvases, NEW d \in Displays,
         None \notin Layers, NEW u, u = OffCanvas([t EXCEPT !.display = d], cv)
  PROVE  Parted(t, d, cv, u) /\ Framed(t, u) /\ Whole(u)
<1> DEFINE leaves == cv = t.forecv[d] /\ t.cl[cv] # None /\ Layer2Window(t, t.cl[cv]) # None
           on == [x \in Layers |-> IF x = t.cl[cv] THEN RemoveFirst(t.on[x], cv) ELSE t.on[x]]
           other == IF leaves THEN t.fore ELSE t.dother[d]
           focus == IF leaves THEN None ELSE t.dfore[d]
           a == [t EXCEPT !.display = d]
<1> HIDE DEF a, leaves
<1>1. a.display = d /\ a.cl = t.cl /\ a.forecv = t.forecv /\ a.base = t.base /\ a.on = t.on /\ a.fore = t.fore
      /\ a.dother = t.dother /\ a.dfore = t.dfore
  BY DEF Screens, a
<1>2. \A l : Layer2Window(a, l) = Layer2Window(t, l)
  BY <1>1, Zenon DEF Layer2Window, Bottom
<1>3. u = [a EXCEPT !.on = on, !.cl[cv] = None, !.dother[d] = other, !.dfore[d] = focus]
  <2> DEFINE leaves2 == cv = a.forecv[a.display] /\ a.cl[cv] # None /\ Layer2Window(a, a.cl[cv]) # None
             on2 == [x \in Layers |-> IF x = a.cl[cv] THEN RemoveFirst(a.on[x], cv) ELSE a.on[x]]
             other2 == IF leaves2 THEN a.fore ELSE a.dother[a.display]
             focus2 == IF leaves2 THEN None ELSE a.dfore[a.display]
  <2>1. u = [a EXCEPT !.on = on2, !.cl[cv] = None, !.dother[a.display] = other2, !.dfore[a.display] = focus2]
    BY Zenon DEF OffCanvas, a
  <2>2. leaves2 <=> leaves
    BY <1>1, <1>2 DEF leaves
  <2>3. on2 = on /\ other2 = other /\ focus2 = focus
    BY <1>1, <2>2
  <2> HIDE DEF on2, other2, focus2, leaves2, on, other, focus
  <2>4. QED
    BY <1>1, <2>1, <2>3
<1> HIDE DEF on, other, focus
<1>4. u = [t EXCEPT !.display = d, !.on = on, !.cl[cv] = None, !.dother[d] = other, !.dfore[d] = focus]
  BY <1>3 DEF a, Screens
<1>5. Whole(u) /\ Framed(t, u)
  BY <1>4, ZenonT(40) DEF Screens, Whole, Framed
<1>6. /\ u.on = on /\ u.cl = [t.cl EXCEPT ![cv] = None]
      /\ u.dother = [t.dother EXCEPT ![d] = other] /\ u.dfore = [t.dfore EXCEPT ![d] = focus]
      /\ u.display = d /\ u.owner = t.owner /\ u.below = t.below /\ u.base = t.base /\ u.blocking = t.blocking
      /\ u.save = t.save /\ u.blocked = t.blocked /\ u.flayer = t.flayer /\ u.fore = t.fore /\ u.mru = t.mru
      /\ u.size = t.size /\ u.kind = t.kind
  <2>1. u.on = on /\ u.cl = [t.cl EXCEPT ![cv] = None]
    BY <1>4 DEF Screens
  <2>2. u.dother = [t.dother EXCEPT ![d] = other] /\ u.dfore = [t.dfore EXCEPT ![d] = focus] /\ u.display = d
    BY <1>4 DEF Screens
  <2>3. u.owner = t.owner /\ u.below = t.below /\ u.base = t.base /\ u.blocking = t.blocking /\ u.save = t.save
    BY <1>4, ZenonT(40) DEF Screens
  <2>4. u.blocked = t.blocked /\ u.flayer = t.flayer /\ u.fore = t.fore /\ u.mru = t.mru /\ u.size = t.size /\ u.kind = t.kind
    BY <1>4, ZenonT(40) DEF Screens
  <2>5. QED
    BY <2>1, <2>2, <2>3, <2>4
<1>7. leaves <=> cv = t.forecv[d] /\ Shows(t, cv) # None
  <2>1. t.cl[cv] = None => Shows(t, cv) = None
    BY Apart DEF Shows, Layer2Window, Bottom, IsOverlay
  <2>2. QED
    BY <2>1 DEF Shows, leaves
<1>8. other = IF cv = t.forecv[d] /\ Shows(t, cv) # None THEN t.fore ELSE t.dother[d]
  BY <1>7 DEF other, leaves
<1>9. focus = IF cv = t.forecv[d] /\ Shows(t, cv) # None THEN None ELSE t.dfore[d]
  BY <1>7 DEF focus, leaves
<1>10. QED
  BY <1>5, <1>6, <1>8, <1>9 DEF Parted, on

\* Taking a canvas off its layer leaves at most that layer unshown and unsaved.
LEMMA OffSound ==
  ASSUME NEW t, Core(t, None), NEW cv \in Canvases, NEW d \in Displays, d = t.owner[cv], NEW l, l = t.cl[cv],
         NEW u, u = OffCanvas([t EXCEPT !.display = d], cv)
  PROVE  Core(u, l) /\ Parted(t, d, cv, u) /\ Framed(t, u)
<1>1. t \in Screens /\ LayersTyped(t) /\ LooksTyped(t) /\ OthersTyped(t) /\ None \notin Layers
  BY Types, Apart DEF Core
<1>2. Parted(t, d, cv, u) /\ Framed(t, u) /\ Whole(u)
  BY <1>1, OffFields
<1>3. /\ u.on = [x \in Layers |-> IF x = l THEN RemoveFirst(t.on[x], cv) ELSE t.on[x]]
      /\ u.cl = [t.cl EXCEPT ![cv] = None]
      /\ u.below = t.below /\ u.base = t.base /\ u.blocking = t.blocking
      /\ u.save = t.save /\ u.blocked = t.blocked /\ u.flayer = t.flayer /\ u.mru = t.mru /\ u.owner = t.owner
      /\ u.size = t.size /\ u.kind = t.kind
  BY <1>2 DEF Parted
<1>4. \A c \in Canvases : u.cl[c] = IF c = cv THEN None ELSE t.cl[c]
  BY <1>1, <1>3 DEF LayersTyped
<1>5. ASSUME NEW x \in Layers
      PROVE  u.on[x] \in Seq(Canvases) /\ IsInjective(u.on[x]) /\ ToSet(u.on[x]) = {c \in Canvases : u.cl[c] = x}
  <2>1. t.on[x] \in Seq(Canvases) /\ IsInjective(t.on[x]) /\ ToSet(t.on[x]) = {c \in Canvases : t.cl[c] = x}
    BY <1>1 DEF LayersTyped, Core, Lists, ListsOf
  <2>2. CASE x = l
    <3>1. /\ RemoveFirst(t.on[x], cv) \in Seq(Canvases) /\ IsInjective(RemoveFirst(t.on[x], cv))
          /\ \A y : y \in ToSet(RemoveFirst(t.on[x], cv)) <=> y \in ToSet(t.on[x]) /\ y # cv
      BY <2>1, RemovedIs
    <3>2. u.on[x] = RemoveFirst(t.on[x], cv)
      BY <1>3, <2>2
    <3>3. \A y : y \in ToSet(u.on[x]) <=> y \in {c \in Canvases : u.cl[c] = x}
      BY <1>1, <1>4, <2>1, <3>1, <3>2
    <3>4. QED
      BY <3>1, <3>2, <3>3
  <2>3. CASE x # l
    <3>1. u.on[x] = t.on[x]
      BY <1>3, <2>3
    <3>2. \A c \in Canvases : u.cl[c] = x <=> t.cl[c] = x
      BY <1>1, <1>4, <2>3
    <3>3. QED
      BY <2>1, <3>1, <3>2
  <2>4. QED
    BY <2>2, <2>3
<1>6. Lists(u)
  BY <1>5 DEF Lists, ListsOf
<1>7. \A x : Bare(t, x) /\ x # None => Bare(u, x)
  BY <1>4 DEF Bare
<1>8. /\ Existing(u) = Existing(t) /\ Owned(u) = Owned(t) /\ OnOthers(u) = OnOthers(t) /\ Alive(u) = Alive(t)
      /\ \A x : Bottom(u, x) = Bottom(t, x)
      /\ \A x : Top(u, x) <=> Top(t, x)
  BY <1>3 DEF Existing, Owned, OnOthers, Alive, Bottom, Top
<1>9. \A w \in Windows : t.dfore[d] \in Maybe(Existing(t)) /\ t.fore \in Maybe(Existing(t)) /\ t.dother[d] \in Maybe(Existing(t))
  BY DEF Core, Points
<1>10. Existing(t) \subseteq Windows
  BY DEF Existing
<1> DEFINE leaves == cv = t.forecv[d] /\ Shows(t, cv) # None
<1>11. /\ u.dfore \in [Displays -> Maybe(Windows)] /\ u.dother \in [Displays -> Maybe(Windows)]
  <2>1. /\ t.dfore \in [Displays -> Maybe(Windows)] /\ t.dother \in [Displays -> Maybe(Windows)]
        /\ t.fore \in Maybe(Windows) /\ None \in Maybe(Windows)
    BY <1>1 DEF OthersTyped, Maybe
  <2>2. /\ u.dother = [t.dother EXCEPT ![d] = IF leaves THEN t.fore ELSE @]
        /\ u.dfore = [t.dfore EXCEPT ![d] = IF leaves THEN None ELSE @]
    BY <1>2 DEF Parted
  <2> HIDE DEF leaves
  <2>3. QED
    BY <2>1, <2>2
<1>12. \A e \in Displays : /\ u.dfore[e] \in {t.dfore[e], None}
                          /\ u.dother[e] \in {t.dother[e], t.fore}
  <2>1. /\ t.dfore \in [Displays -> Maybe(Windows)] /\ t.dother \in [Displays -> Maybe(Windows)]
    BY <1>1 DEF OthersTyped
  <2>2. /\ u.dother = [t.dother EXCEPT ![d] = IF leaves THEN t.fore ELSE @]
        /\ u.dfore = [t.dfore EXCEPT ![d] = IF leaves THEN None ELSE @]
    BY <1>2 DEF Parted
  <2> HIDE DEF leaves
  <2>3. QED
    BY <2>1, <2>2
<1>13. u \in Screens
  <2>1. u.on \in [Layers -> Seq(Canvases)]
    <3>1. \A x \in Layers : u.on[x] \in Seq(Canvases)
      BY <1>5
    <3>2. QED
      BY <1>3, <3>1
  <2>2. u.cl \in [Canvases -> Maybe(Layers)]
    <3>1. t.cl \in [Canvases -> Maybe(Layers)] /\ None \in Maybe(Layers)
      BY <1>1 DEF LayersTyped, Maybe
    <3>2. u.cl = [t.cl EXCEPT ![cv] = None]
      BY <1>3
    <3>3. QED
      BY <3>1, <3>2
  <2>3. LayersTyped(u) /\ LooksTyped(u)
    BY <1>1, <1>3, <2>1, <2>2 DEF LayersTyped, LooksTyped
  <2>4. OthersTyped(u)
    <3>1. u.dfore \in [Displays -> Maybe(Windows)] /\ u.dother \in [Displays -> Maybe(Windows)]
      BY <1>11
    <3>2. u.display \in Maybe(Displays) /\ u.fore = t.fore
      BY <1>2 DEF Parted, Maybe
    <3>3. QED
      BY <1>1, <1>2, <1>3, <3>1, <3>2 DEF OthersTyped, Framed
  <2>5. QED
    BY <1>2, <2>3, <2>4, IsScreen
<1>14. Homes(u)
  BY <1>3, <1>4, <1>8 DEF Core, Homes
<1>15. Ranked(u) /\ Based(u)
  BY <1>3, <1>8 DEF Core, Ranked, Based
<1>16. Covered(u)
  <2>1. \A o \in OnOthers(t) : t.below[o] # None
    BY DEF OnOthers
  <2>2. QED
    BY <1>3, <1>7, <1>8, <2>1 DEF Core, Covered
<1>17. Kept(u, l)
  <2>1. ASSUME NEW o \in OnOthers(t), o # l PROVE ~Bare(u, o) \/ (\E w \in Windows : u.save[w] = o) \/ ~Top(u, o)
    <3>1. ~Bare(t, o) \/ (\E w \in Windows : t.save[w] = o) \/ ~Top(t, o)
      BY Apart DEF Core, Kept, OnOthers
    <3>2. ~Bare(t, o) => ~Bare(u, o)
      BY <1>4, <2>1 DEF Bare
    <3>3. QED
      BY <1>3, <1>8, <3>1, <3>2
  <2>2. QED
    BY <1>8, <2>1 DEF Kept
<1>18. Saved(u) /\ Listed(u)
  BY <1>3, <1>8 DEF Core, Saved, Listed
<1>19. Blocks(u)
  <2>1. \A w \in Windows : w # None
    BY Apart
  <2>2. QED
    BY <1>3, <1>7, <2>1 DEF Core, Blocks
<1>20. Points(u)
  <2>1. u.fore = t.fore /\ u.flayer = t.flayer
    BY <1>2 DEF Parted
  <2>2. \A e \in Displays : u.dfore[e] \in Maybe(Existing(t)) /\ u.dother[e] \in Maybe(Existing(t))
    <3>1. \A e \in Displays : t.dfore[e] \in Maybe(Existing(t)) /\ t.dother[e] \in Maybe(Existing(t))
      BY DEF Core, Points
    <3>2. t.fore \in Maybe(Existing(t)) /\ None \in Maybe(Existing(t))
      BY DEF Core, Points, Maybe
    <3>3. \A e \in Displays : /\ u.dfore[e] \in {t.dfore[e], None}
                              /\ u.dother[e] \in {t.dother[e], t.fore}
      BY <1>12
    <3>4. QED
      BY <3>1, <3>2, <3>3
  <2>3. QED
    BY <1>8, <2>1, <2>2 DEF Core, Points
<1>21. QED
  BY <1>2, <1>6, <1>13, <1>14, <1>15, <1>16, <1>17, <1>18, <1>19, <1>20 DEF Core

\* What is there when the layer that no canvas shows any more is freed.
LEMMA FreeSound ==
  ASSUME NEW t, Core(t, None), NEW cv \in Canvases, NEW l, l = t.cl[cv], NEW d \in Displays, d = t.owner[cv],
         NEW b, b = OffCanvas([t EXCEPT !.display = d], cv), NEW u, u = FreeUnshown(b, l)
  PROVE  /\ Core(u, None) /\ Calm(b, u) /\ Existing(u) = Existing(t)
         /\ u.cl[cv] = None /\ OnOthers(u) \subseteq OnOthers(t)
         /\ \A c \in Canvases : c # cv => u.cl[c] = t.cl[c] /\ Bottom(u, u.cl[c]) = Bottom(t, t.cl[c])
<1>1. Core(b, l) /\ Parted(t, d, cv, b) /\ b \in Screens /\ LayersTyped(b) /\ t \in Screens /\ LayersTyped(t)
  BY OffSound, Types DEF Core
<1>2. \A c \in Canvases : b.cl[c] = IF c = cv THEN None ELSE t.cl[c]
  BY <1>1 DEF Parted, LayersTyped
<1>3. /\ Existing(b) = Existing(t) /\ OnOthers(b) = OnOthers(t)
      /\ \A x : Bottom(b, x) = Bottom(t, x)
  BY <1>1 DEF Parted, Existing, OnOthers, Bottom
<1>4. l \in Maybe(Layers) /\ (l \in Overlays => l \in OnOthers(b) /\ Top(b, l))
  <2>1. l \in Overlays => l \in OnOthers(t)
    BY Apart DEF Core, Homes, Alive, Existing, Owned
  <2>2. l \in Overlays => Top(t, l)
    BY Apart DEF Core, Covered, Top, OnOthers, Bare
  <2>3. l \in Maybe(Layers)
    BY <1>1, Apart DEF LayersTyped, Maybe, Homes, Core
  <2>4. b.below = t.below
    BY <1>1 DEF Parted
  <2>5. QED
    BY <1>3, <2>1, <2>2, <2>3, <2>4 DEF Top
<1>5. Calm(b, b)
  BY DEF Calm
<1> DEFINE frees == l # None /\ b.on[l] = <<>> /\ (Layer2Window(b, l) = None \/ l # b.save[Layer2Window(b, l)])
<1>6. CASE l \notin Overlays
  <2>1. u = b
    <3>1. KillLayerChain(b, l) = b
      BY <1>1, <1>4, <1>6, KillNone DEF Core
    <3>2. QED
      BY <3>1 DEF FreeUnshown
  <2>2. Core(b, None)
    <3>1. Kept(b, None)
      BY <1>1, <1>6 DEF Core, Kept, OnOthers
    <3>2. QED
      BY <1>1, <3>1 DEF Core
  <2>3. QED
    BY <1>2, <1>3, <1>5, <2>1, <2>2
<1>7. CASE l \in Overlays /\ frees
  <2>1. u = KillLayerChain(b, l)
    BY <1>7 DEF FreeUnshown
  <2>2. Bare(b, l) /\ l \in Layers
    <3>1. l \in Layers /\ b.on[l] \in Seq(Canvases)
      BY <1>1, <1>7 DEF Layers, LayersTyped
    <3>2. ToSet(b.on[l]) = {}
      BY <1>7, <3>1, EmptyList
    <3>3. QED
      BY <1>1, <3>1, <3>2 DEF Core, Lists, ListsOf, Bare
  <2>3. Core(u, None) /\ Killed(b, l, u)
    BY <1>1, <1>4, <1>7, <2>1, <2>2, KillSound
  <2>4. ASSUME NEW c \in Canvases, c # cv PROVE u.cl[c] = t.cl[c] /\ Bottom(u, u.cl[c]) = Bottom(t, t.cl[c])
    <3>1. u.cl[c] = b.cl[c] /\ b.cl[c] = t.cl[c]
      BY <1>2, <2>3, <2>4 DEF Killed
    <3>2. b.cl[c] \in Overlays => b.cl[c] \notin Under(b.below, l)
      BY <2>3 DEF Killed
    <3>3. b.cl[c] \in Overlays => u.base[b.cl[c]] = b.base[b.cl[c]]
      BY <2>3, <3>2 DEF Killed
    <3>4. Bottom(u, b.cl[c]) = Bottom(b, b.cl[c])
      BY <3>3 DEF Bottom, IsOverlay
    <3>5. QED
      BY <1>3, <3>1, <3>4
  <2>5. u.cl[cv] = None /\ Calm(b, u) /\ Existing(u) = Existing(t)
    BY <1>2, <1>3, <2>3 DEF Killed
  <2>6. OnOthers(u) \subseteq OnOthers(b)
    <3>1. \A o \in Overlays : u.below[o] # None => b.below[o] # None
      BY <2>3 DEF Killed
    <3>2. QED
      BY <3>1 DEF OnOthers
  <2>7. QED
    BY <1>3, <2>3, <2>4, <2>5, <2>6
<1>8. CASE l \in Overlays /\ ~frees
  <2>1. u = b
    BY <1>8 DEF FreeUnshown
  <2>2. l # None /\ l \in Layers
    BY <1>8, Apart DEF Layers
  <2>3. ~Bare(b, l) \/ \E w \in Windows : b.save[w] = l
    <3>1. CASE b.on[l] # <<>>
      <4>1. ToSet(b.on[l]) # {}
        BY <1>1, <2>2, <3>1, EmptyList DEF LayersTyped
      <4>2. QED
        BY <1>1, <2>2, <4>1 DEF Core, Lists, ListsOf, Bare
    <3>2. CASE b.on[l] = <<>>
      <4>1. Layer2Window(b, l) # None /\ l = b.save[Layer2Window(b, l)]
        BY <1>8, <2>2, <3>2
      <4>2. Layer2Window(b, l) \in Windows
        BY <4>1 DEF Layer2Window
      <4>3. QED
        BY <4>1, <4>2
    <3>3. QED
      BY <3>1, <3>2
  <2>4. Core(b, None)
    <3>1. Kept(b, None)
      BY <1>1, <2>3 DEF Core, Kept
    <3>2. QED
      BY <1>1, <3>1 DEF Core
  <2>5. QED
    BY <1>2, <1>3, <1>5, <2>1, <2>4
<1>9. QED
  BY <1>6, <1>7, <1>8

\* A canvas shows a layer again.
WhereTo(t, cv, wi) ==
  IF wi = None THEN cv
  ELSE IF t.save[wi] # None /\ (t.blocked[wi] > 0 \/ t.on[t.save[wi]] = <<>>) THEN t.save[wi] ELSE wi
Landed(t, d, cv, wi, to, u) ==
  /\ u.on = [t.on EXCEPT ![to] = Cons(cv, @)] /\ u.cl = [t.cl EXCEPT ![cv] = to]
  /\ u.flayer = IF t.flayer = None THEN to ELSE t.flayer
  /\ u.dother = [t.dother EXCEPT ![d] = IF wi # None /\ @ = wi THEN After(t.mru, wi) ELSE @]
  /\ u.dfore = [t.dfore EXCEPT ![d] = IF cv = t.forecv[d] THEN wi ELSE @]
  /\ u.fore = IF cv = t.forecv[d] THEN wi ELSE t.fore
  /\ u.mru = IF cv = t.forecv[d] /\ wi # None THEN ToFront(t.mru, wi) ELSE t.mru
  /\ u.display = t.display /\ u.below = t.below /\ u.base = t.base /\ u.blocking = t.blocking
  /\ u.save = t.save /\ u.blocked = t.blocked /\ u.size = t.size /\ u.kind = t.kind

\* OnCanvas, field by field.
LEMMA OnFields ==
  ASSUME NEW t \in Screens, NEW cv \in Canvases, NEW d \in Displays, t.display = d, NEW wi,
         NEW to, to = WhereTo(t, cv, wi), NEW u, u = OnCanvas(t, cv, wi)
  PROVE  Landed(t, d, cv, wi, to, u) /\ Framed(t, u) /\ Whole(u)
<1> DEFINE focused == cv = t.forecv[t.display]
           other == IF wi # None /\ t.dother[t.display] = wi THEN After(t.mru, wi) ELSE t.dother[t.display]
           focus == IF focused THEN wi ELSE t.dfore[t.display]
           on == Cons(cv, t.on[to])
           flayer == IF t.flayer = None THEN to ELSE t.flayer
           fore == IF focused THEN wi ELSE t.fore
           mru == IF focused /\ wi # None THEN ToFront(t.mru, wi) ELSE t.mru
<1>1. OnCanvas(t, cv, wi) =
        [t EXCEPT !.on[WhereTo(t, cv, wi)] = Cons(cv, @), !.cl[cv] = WhereTo(t, cv, wi),
                  !.flayer = IF @ = None THEN WhereTo(t, cv, wi) ELSE @,
                  !.dother[t.display] = IF wi # None /\ @ = wi THEN After(t.mru, wi) ELSE @,
                  !.dfore[t.display] = IF focused THEN wi ELSE @,
                  !.fore = IF focused THEN wi ELSE @,
                  !.mru = IF focused /\ wi # None THEN ToFront(@, wi) ELSE @]
  BY Zenon DEF OnCanvas, WhereTo
<1>2. u = [t EXCEPT !.on[to] = on, !.cl[cv] = to, !.flayer = flayer, !.dother[d] = other, !.dfore[d] = focus,
                    !.fore = fore, !.mru = mru]
  BY <1>1 DEF Screens
<1> HIDE DEF other, focus, on, flayer, fore, mru
<1>3. Whole(u)
  BY <1>2 DEF Screens, Whole
<1>4. Framed(t, u)
  BY <1>2 DEF Screens, Framed
<1>5. u.on = [t.on EXCEPT ![to] = on] /\ u.cl = [t.cl EXCEPT ![cv] = to] /\ u.flayer = flayer /\ u.fore = fore /\ u.mru = mru
  BY <1>2 DEF Screens
<1>6. u.dother = [t.dother EXCEPT ![d] = other] /\ u.dfore = [t.dfore EXCEPT ![d] = focus] /\ u.display = t.display
  BY <1>2 DEF Screens
<1>7. u.below = t.below /\ u.base = t.base /\ u.blocking = t.blocking
      /\ u.save = t.save /\ u.blocked = t.blocked /\ u.size = t.size /\ u.kind = t.kind
  BY <1>2 DEF Screens
<1>8. QED
  BY <1>3, <1>4, <1>5, <1>6, <1>7 DEF Landed, other, focus, on, flayer, fore, mru

\* No overlay is left on a blank canvas that shows nothing.
LEMMA NothingOn ==
  ASSUME NEW t, Core(t, None), NEW cv \in Canvases, t.cl[cv] = None
  PROVE  \A o \in OnOthers(t) : t.base[o] # cv /\ t.below[o] # cv
<1>1. ASSUME NEW o \in OnOthers(t), t.base[o] = cv PROVE FALSE
  <2>1. PICK x \in Overlays : x \in OnOthers(t) /\ Held(t, x) /\ t.base[x] = cv
    BY <1>1, HasTop
  <2>2. Bottom(t, x) = cv /\ x # None
    BY <2>1, Apart DEF Bottom, IsOverlay
  <2>3. CASE \E c \in Canvases : t.cl[c] = x
    <3>1. PICK c \in Canvases : t.cl[c] = x
      BY <2>3
    <3>2. cv \in Windows \/ cv = c
      BY <2>2, <3>1 DEF Core, Homes
    <3>3. QED
      BY <2>2, <3>1, <3>2, Apart
  <2>4. CASE \E w \in Windows : t.save[w] = x
    <3>1. PICK w \in Windows : t.save[w] = x
      BY <2>4
    <3>2. Bottom(t, x) = w
      BY <2>2, <3>1 DEF Core, Saved, Existing
    <3>3. QED
      BY <2>2, <3>2, Apart
  <2>5. QED
    BY <2>1, <2>3, <2>4 DEF Held
<1>2. ASSUME NEW o \in OnOthers(t), t.below[o] = cv PROVE t.base[o] = cv
  <2>1. o \in Overlays /\ t.base[o] = Bottom(t, cv)
    BY <1>2 DEF Core, Based, OnOthers
  <2>2. QED
    BY <2>1, Apart DEF Bottom, IsOverlay
<1>3. QED
  BY <1>1, <1>2

\* OnCanvas lets the canvas show the window and changes no other canvas.
LEMMA OnSound ==
  ASSUME NEW t, Core(t, None), NEW cv \in Canvases, t.cl[cv] = None, NEW d \in Displays, t.owner[cv] = d, t.display = d,
         NEW wi \in Maybe(Existing(t)), NEW u, u = OnCanvas(t, cv, wi)
  PROVE  /\ Core(u, None) /\ Landed(t, d, cv, wi, WhereTo(t, cv, wi), u) /\ Framed(t, u)
         /\ u.cl[cv] # None /\ Bottom(u, u.cl[cv]) = (IF wi = None THEN cv ELSE wi)
         /\ Existing(u) = Existing(t)
         /\ \A c \in Canvases : c # cv => u.cl[c] = t.cl[c] /\ Bottom(u, u.cl[c]) = Bottom(t, t.cl[c])
<1>1. t \in Screens /\ LayersTyped(t) /\ LooksTyped(t) /\ OthersTyped(t) /\ None \notin Layers /\ None \notin Canvases
  BY Types, Apart DEF Core
<1>2. PICK to : to = WhereTo(t, cv, wi)
  OBVIOUS
<1>3. Landed(t, d, cv, wi, to, u) /\ Framed(t, u) /\ Whole(u)
  BY <1>1, <1>2, OnFields
<1>4. wi # None => wi \in Windows /\ wi \in Existing(t)
  BY DEF Maybe, Existing
<1>5. /\ to \in Alive(t) /\ to \in Layers /\ to # None
      /\ Bottom(t, to) = IF wi = None THEN cv ELSE wi
  <2>1. CASE wi = None
    <3>1. to = cv
      BY <1>2, <2>1 DEF WhereTo
    <3>2. cv \in Owned(t)
      BY Apart DEF Owned
    <3>3. QED
      BY <1>1, <2>1, <3>1, <3>2, Apart DEF Alive, Layers, Bottom, IsOverlay
  <2>2. CASE wi # None
    <3>1. t.save[wi] \in Alive(t) /\ Bottom(t, t.save[wi]) = wi
      BY <1>4, <2>2 DEF Core, Saved
    <3>2. wi \in Alive(t) /\ Bottom(t, wi) = wi
      BY <1>4, <2>2, Apart DEF Alive, Bottom, IsOverlay
    <3>3. to \in Alive(t) /\ Bottom(t, to) = wi
      BY <1>2, <2>2, <3>1, <3>2 DEF WhereTo
    <3>4. to \in Layers
      BY <3>3 DEF Alive, Existing, Owned, OnOthers, Layers
    <3>5. QED
      BY <1>1, <2>2, <3>3, <3>4
  <2>3. QED
    BY <2>1, <2>2
<1>6. /\ u.on = [t.on EXCEPT ![to] = Cons(cv, @)] /\ u.cl = [t.cl EXCEPT ![cv] = to]
      /\ u.below = t.below /\ u.base = t.base /\ u.blocking = t.blocking
      /\ u.save = t.save /\ u.blocked = t.blocked /\ u.owner = t.owner
      /\ u.size = t.size /\ u.kind = t.kind
  BY <1>3 DEF Landed, Framed
<1>7. \A c \in Canvases : u.cl[c] = IF c = cv THEN to ELSE t.cl[c]
  <2>1. t.cl \in [Canvases -> Maybe(Layers)]
    BY <1>1 DEF LayersTyped
  <2>2. QED
    BY <1>6, <2>1
<1>8. ASSUME NEW x \in Layers
      PROVE  u.on[x] \in Seq(Canvases) /\ IsInjective(u.on[x]) /\ ToSet(u.on[x]) = {c \in Canvases : u.cl[c] = x}
  <2>1. t.on[x] \in Seq(Canvases) /\ IsInjective(t.on[x]) /\ ToSet(t.on[x]) = {c \in Canvases : t.cl[c] = x}
    BY <1>1 DEF LayersTyped, Core, Lists, ListsOf
  <2>2. t.on \in [Layers -> Seq(Canvases)]
    BY <1>1 DEF LayersTyped
  <2>3. CASE x = to
    <3>1. cv \notin ToSet(t.on[x])
      BY <1>5, <2>1, <2>3
    <3>2. /\ Cons(cv, t.on[x]) \in Seq(Canvases) /\ IsInjective(Cons(cv, t.on[x]))
          /\ \A y : y \in ToSet(Cons(cv, t.on[x])) <=> y = cv \/ y \in ToSet(t.on[x])
      BY <2>1, <3>1, ConsIs
    <3>3. u.on[x] = Cons(cv, t.on[x])
      BY <1>6, <2>2, <2>3
    <3>4. \A y : y \in ToSet(u.on[x]) <=> y \in {c \in Canvases : u.cl[c] = x}
      BY <1>7, <2>1, <2>3, <3>2, <3>3
    <3>5. QED
      BY <3>2, <3>3, <3>4
  <2>4. CASE x # to
    <3>1. u.on[x] = t.on[x]
      BY <1>6, <2>2, <2>4
    <3>2. \A c \in Canvases : u.cl[c] = x <=> t.cl[c] = x
      BY <1>1, <1>7, <2>4
    <3>3. QED
      BY <2>1, <3>1, <3>2
  <2>5. QED
    BY <2>3, <2>4
<1>9. Lists(u)
  BY <1>8 DEF Lists, ListsOf
<1>10. \A x : Bare(t, x) /\ x # to => Bare(u, x)
  BY <1>7 DEF Bare
<1>11. /\ Existing(u) = Existing(t) /\ Owned(u) = Owned(t) /\ OnOthers(u) = OnOthers(t) /\ Alive(u) = Alive(t)
       /\ \A x : Bottom(u, x) = Bottom(t, x)
       /\ \A x : Top(u, x) <=> Top(t, x)
  BY <1>6 DEF Existing, Owned, OnOthers, Alive, Bottom, Top
<1>12. \A o \in OnOthers(t) : t.below[o] \notin Windows => t.below[o] # to
  <2>1. CASE wi = None
    <3>1. to = cv
      BY <1>2, <2>1 DEF WhereTo
    <3>2. QED
      BY <3>1, NothingOn
  <2>2. CASE wi # None
    <3>1. to = wi \/ to = t.save[wi]
      BY <1>2, <2>2 DEF WhereTo
    <3>2. \A o \in OnOthers(t) : t.below[o] \notin Windows => t.save[wi] # t.below[o]
      BY <1>4, <2>2 DEF Core, Covered
    <3>3. QED
      BY <1>4, <2>2, <3>1, <3>2
  <2>3. QED
    BY <2>1, <2>2
<1>13. \A w \in Windows : (\E o \in t.blocking : t.below[o] = w) => to # w
  <2>1. SUFFICES ASSUME NEW w \in Windows, NEW o \in t.blocking, t.below[o] = w, to = w PROVE FALSE
    OBVIOUS
  <2>2. w = wi /\ wi # None /\ w \in Existing(t)
    <3>1. Bottom(t, w) = w
      BY Apart DEF Bottom, IsOverlay
    <3>2. QED
      BY <1>4, <1>5, <2>1, <3>1, Apart
  <2>3. t.blocked[w] > 0 /\ o \in Under(t.below, t.save[w])
    BY <2>1 DEF Core, Blocks
  <2>4. t.save[w] \in Overlays
    <3>1. PICK r, n : RankedBy(t.below, r, n)
      BY DEF Core, Ranked
    <3>2. t.save[w] \in Maybe(Layers)
      BY <1>1 DEF LayersTyped
    <3>3. QED
      BY <2>3, <3>1, <3>2, UnderIs
  <2>5. to = t.save[w]
    BY <1>2, <2>2, <2>3, <2>4, Apart DEF WhereTo
  <2>6. QED
    BY <2>1, <2>4, <2>5, Apart
<1>14. After(t.mru, wi) \in Maybe(Existing(t)) /\ After(t.mru, wi) \in Maybe(Windows)
  <2>1. t.mru \in Seq(Windows) /\ IsInjective(t.mru) /\ ToSet(t.mru) \subseteq Existing(t)
    BY <1>1 DEF OthersTyped, Core, Listed
  <2>2. After(t.mru, wi) = None \/ After(t.mru, wi) \in ToSet(t.mru)
    BY <2>1, AfterIs
  <2>3. QED
    BY <2>1, <2>2 DEF Maybe, Existing
<1>15. u.mru \in Seq(Windows) /\ Listed(u)
  <2>1. t.mru \in Seq(Windows) /\ IsInjective(t.mru) /\ ToSet(t.mru) \subseteq Existing(t)
    BY <1>1 DEF OthersTyped, Core, Listed
  <2>2. CASE u.mru = t.mru
    BY <1>11, <2>1, <2>2 DEF Listed
  <2>3. CASE wi # None /\ u.mru = ToFront(t.mru, wi)
    <3>1. /\ ToFront(t.mru, wi) \in Seq(Windows) /\ IsInjective(ToFront(t.mru, wi))
          /\ \A y : y \in ToSet(ToFront(t.mru, wi)) <=> y = wi \/ y \in ToSet(t.mru)
      BY <1>4, <2>1, <2>3, ToFrontIs
    <3>2. QED
      BY <1>4, <1>11, <2>1, <2>3, <3>1 DEF Listed
  <2>4. QED
    BY <1>3, <2>2, <2>3 DEF Landed
<1>16. /\ u.dfore \in [Displays -> Maybe(Windows)] /\ u.dother \in [Displays -> Maybe(Windows)]
       /\ \A e \in Displays : u.dfore[e] \in {t.dfore[e], wi} /\ u.dother[e] \in {t.dother[e], After(t.mru, wi)}
  <2>1. /\ t.dfore \in [Displays -> Maybe(Windows)] /\ t.dother \in [Displays -> Maybe(Windows)]
        /\ wi \in Maybe(Windows)
    BY <1>1, <1>4 DEF OthersTyped, Maybe
  <2>2. /\ u.dother = [t.dother EXCEPT ![d] = IF wi # None /\ @ = wi THEN After(t.mru, wi) ELSE @]
        /\ u.dfore = [t.dfore EXCEPT ![d] = IF cv = t.forecv[d] THEN wi ELSE @]
    BY <1>3 DEF Landed
  <2>3. QED
    BY <1>14, <2>1, <2>2
<1>17. /\ u.fore \in {t.fore, wi} /\ u.flayer \in {t.flayer, to} /\ u.display = d
  BY <1>3 DEF Landed
<1>18. u \in Screens
  <2>1. u.on \in [Layers -> Seq(Canvases)]
    <3>1. \A x \in Layers : u.on[x] \in Seq(Canvases)
      BY <1>8
    <3>2. t.on \in [Layers -> Seq(Canvases)]
      BY <1>1 DEF LayersTyped
    <3>3. QED
      BY <1>6, <3>1, <3>2
  <2>2. u.cl \in [Canvases -> Maybe(Layers)]
    <3>1. t.cl \in [Canvases -> Maybe(Layers)] /\ to \in Maybe(Layers)
      BY <1>1, <1>5 DEF LayersTyped, Maybe
    <3>2. u.cl = [t.cl EXCEPT ![cv] = to]
      BY <1>6
    <3>3. QED
      BY <3>1, <3>2
  <2>3. u.flayer \in Maybe(Layers)
    BY <1>1, <1>5, <1>17 DEF LayersTyped, Maybe
  <2>4. LayersTyped(u) /\ LooksTyped(u)
    BY <1>1, <1>6, <2>1, <2>2, <2>3 DEF LayersTyped, LooksTyped
  <2>5. OthersTyped(u)
    <3>1. u.display \in Maybe(Displays) /\ u.fore \in Maybe(Windows)
      BY <1>1, <1>4, <1>17 DEF OthersTyped, Maybe
    <3>2. QED
      BY <1>1, <1>3, <1>15, <1>16, <3>1 DEF OthersTyped, Framed
  <2>6. QED
    BY <1>3, <2>4, <2>5, IsScreen
<1>19. Homes(u)
  <2>1. \A c \in Canvases : t.cl[c] # None => /\ t.cl[c] \in Alive(t) /\ t.owner[c] # None
                                               /\ (Bottom(t, t.cl[c]) \in Windows \/ Bottom(t, t.cl[c]) = c)
    BY DEF Core, Homes
  <2>2. t.owner[cv] # None
    BY Apart
  <2>3. QED
    <3>1. SUFFICES ASSUME NEW c \in Canvases, u.cl[c] # None
                   PROVE  /\ u.cl[c] \in Alive(u) /\ u.owner[c] # None
                          /\ (Bottom(u, u.cl[c]) \in Windows \/ Bottom(u, u.cl[c]) = c)
      BY DEF Homes
    <3>2. CASE c = cv
      BY <1>4, <1>5, <1>6, <1>7, <1>11, <2>2, <3>2
    <3>3. CASE c # cv
      BY <1>6, <1>7, <1>11, <2>1, <3>1, <3>3
    <3>4. QED
      BY <3>2, <3>3
<1>20. Ranked(u) /\ Based(u) /\ Saved(u)
  BY <1>6, <1>11 DEF Core, Ranked, Based, Saved
<1>21. Covered(u)
  BY <1>6, <1>10, <1>11, <1>12 DEF Core, Covered
<1>22. Kept(u, None)
  <2>1. ASSUME NEW o \in OnOthers(t) PROVE ~Bare(u, o) \/ (\E w \in Windows : u.save[w] = o) \/ ~Top(u, o)
    <3>1. (~Bare(t, o) \/ (\E w \in Windows : t.save[w] = o) \/ ~Top(t, o)) /\ o # None
      BY Apart DEF Core, Kept, OnOthers
    <3>2. ~Bare(t, o) => ~Bare(u, o)
      BY <1>7, <3>1 DEF Bare
    <3>3. QED
      BY <1>6, <1>11, <3>1, <3>2
  <2>2. QED
    BY <1>11, <2>1 DEF Kept
<1>23. Blocks(u)
  BY <1>6, <1>10, <1>13 DEF Core, Blocks
<1>24. Points(u)
  <2>1. /\ t.fore \in Maybe(Existing(t)) /\ t.flayer \in Maybe(Alive(t))
        /\ \A e \in Displays : t.dfore[e] \in Maybe(Existing(t)) /\ t.dother[e] \in Maybe(Existing(t))
    BY DEF Core, Points
  <2>2. to \in Maybe(Alive(t))
    BY <1>5 DEF Maybe
  <2>3. QED
    BY <1>11, <1>14, <1>16, <1>17, <2>1, <2>2 DEF Points
<1>25. Core(u, None)
  BY <1>9, <1>15, <1>18, <1>19, <1>20, <1>21, <1>22, <1>23, <1>24 DEF Core
<1>26. QED
  BY <1>2, <1>3, <1>5, <1>7, <1>11, <1>25

\* SetCanvasWindow changes what one canvas shows; the focus of its display and the
\* other window go with it.
OtherThen(t, d, cv, wi) ==
  LET z == IF cv = t.forecv[d] /\ Shows(t, cv) # None THEN t.fore ELSE t.dother[d]
  IN IF wi # None /\ z = wi THEN After(t.mru, wi) ELSE z
Placed(t, d, cv, wi, u) ==
  /\ Framed(t, u) /\ u.display = d /\ Existing(u) = Existing(t) /\ OnOthers(u) \subseteq OnOthers(t)
  /\ u.cl[cv] # None /\ Shows(u, cv) = wi
  /\ \A c \in Canvases : c # cv => u.cl[c] = t.cl[c] /\ Bottom(u, u.cl[c]) = Bottom(t, t.cl[c]) /\ Shows(u, c) = Shows(t, c)
  /\ \A e \in Displays : u.dfore[e] = IF e = d /\ cv = t.forecv[d] THEN wi ELSE t.dfore[e]
  /\ \A e \in Displays : u.dother[e] = IF e = d THEN OtherThen(t, d, cv, wi) ELSE t.dother[e]
  /\ u.fore = IF cv = t.forecv[d] THEN wi ELSE t.fore
  /\ \A y : y \in ToSet(u.mru) <=> y \in ToSet(t.mru) \/ (cv = t.forecv[d] /\ wi # None /\ y = wi)
  /\ wi = None => u.cl[cv] = cv

\* SetCanvasWindow keeps the invariant, and the canvas shows the window.
LEMMA SetSound ==
  ASSUME NEW t, Core(t, None), NEW cv \in Canvases, NEW d \in Displays, d = t.owner[cv],
         NEW wi \in Maybe(Existing(t)), NEW u, u = SetCanvasWindow(t, cv, wi)
  PROVE  Core(u, None) /\ Placed(t, d, cv, wi, u)
<1>1. PICK a : a = OffCanvas([t EXCEPT !.display = d], cv)
  OBVIOUS
<1>2. PICK b : b = FreeUnshown(a, t.cl[cv])
  OBVIOUS
<1>3. u = OnCanvas(b, cv, wi)
  BY <1>1, <1>2 DEF SetCanvasWindow
<1>4. Parted(t, d, cv, a) /\ Framed(t, a)
  BY <1>1, OffSound
<1>5. /\ Core(b, None) /\ Calm(a, b) /\ Existing(b) = Existing(t)
      /\ b.cl[cv] = None /\ OnOthers(b) \subseteq OnOthers(t)
      /\ \A c \in Canvases : c # cv => b.cl[c] = t.cl[c] /\ Bottom(b, b.cl[c]) = Bottom(t, t.cl[c])
  BY <1>1, <1>2, FreeSound
<1>6. b.owner[cv] = d /\ b.display = d /\ wi \in Maybe(Existing(b)) /\ b.forecv = t.forecv
  BY <1>4, <1>5 DEF Parted, Framed, Calm
<1>7. /\ Core(u, None) /\ Landed(b, d, cv, wi, WhereTo(b, cv, wi), u) /\ Framed(b, u)
      /\ u.cl[cv] # None /\ Bottom(u, u.cl[cv]) = (IF wi = None THEN cv ELSE wi)
      /\ Existing(u) = Existing(b)
      /\ \A c \in Canvases : c # cv => u.cl[c] = b.cl[c] /\ Bottom(u, u.cl[c]) = Bottom(b, b.cl[c])
  BY <1>3, <1>5, <1>6, OnSound
<1>8. Framed(t, u)
  BY <1>4, <1>5, <1>7 DEF Framed, Calm
<1>9. Shows(u, cv) = wi
  BY <1>7, Apart DEF Shows, Layer2Window, Maybe, Existing
<1>10. \A c \in Canvases : c # cv => u.cl[c] = t.cl[c] /\ Bottom(u, u.cl[c]) = Bottom(t, t.cl[c]) /\ Shows(u, c) = Shows(t, c)
  BY <1>5, <1>7 DEF Shows, Layer2Window
<1>11. t \in Screens /\ b \in Screens /\ OthersTyped(t) /\ OthersTyped(b)
  BY <1>5, Types DEF Core
<1>12. /\ t.dfore \in [Displays -> Maybe(Windows)] /\ t.dother \in [Displays -> Maybe(Windows)]
       /\ b.dfore \in [Displays -> Maybe(Windows)] /\ b.dother \in [Displays -> Maybe(Windows)]
       /\ b.mru \in Seq(Windows) /\ IsInjective(b.mru)
  BY <1>5, <1>11 DEF OthersTyped, Core, Listed
<1>13. /\ b.dfore = a.dfore /\ b.dother = a.dother /\ b.fore = a.fore /\ b.mru = a.mru
       /\ a.fore = t.fore /\ a.mru = t.mru
  BY <1>4, <1>5 DEF Calm, Parted
<1>14. /\ a.dother = [t.dother EXCEPT ![d] = IF cv = t.forecv[d] /\ Shows(t, cv) # None THEN t.fore ELSE @]
       /\ a.dfore = [t.dfore EXCEPT ![d] = IF cv = t.forecv[d] /\ Shows(t, cv) # None THEN None ELSE @]
  BY <1>4 DEF Parted
<1>15. /\ u.dother = [b.dother EXCEPT ![d] = IF wi # None /\ @ = wi THEN After(b.mru, wi) ELSE @]
       /\ u.dfore = [b.dfore EXCEPT ![d] = IF cv = t.forecv[d] THEN wi ELSE @]
       /\ u.fore = IF cv = t.forecv[d] THEN wi ELSE b.fore
       /\ u.mru = IF cv = t.forecv[d] /\ wi # None THEN ToFront(b.mru, wi) ELSE b.mru
       /\ u.display = d
  BY <1>6, <1>7 DEF Landed
<1>16. \A e \in Displays : u.dfore[e] = IF e = d /\ cv = t.forecv[d] THEN wi ELSE t.dfore[e]
  BY <1>12, <1>13, <1>14, <1>15
<1>17. \A e \in Displays : u.dother[e] = IF e = d THEN OtherThen(t, d, cv, wi) ELSE t.dother[e]
  BY <1>12, <1>13, <1>14, <1>15 DEF OtherThen
<1>18. \A y : y \in ToSet(u.mru) <=> y \in ToSet(t.mru) \/ (cv = t.forecv[d] /\ wi # None /\ y = wi)
  <2>1. CASE cv = t.forecv[d] /\ wi # None
    <3>1. wi \in Windows
      BY <2>1 DEF Maybe, Existing
    <3>2. \A y : y \in ToSet(ToFront(b.mru, wi)) <=> y = wi \/ y \in ToSet(b.mru)
      BY <1>12, <3>1, ToFrontIs
    <3>3. QED
      BY <1>13, <1>15, <2>1, <3>2
  <2>2. CASE ~(cv = t.forecv[d] /\ wi # None)
    BY <1>13, <1>15, <2>2
  <2>3. QED
    BY <2>1, <2>2
<1>19. u.fore = IF cv = t.forecv[d] THEN wi ELSE t.fore
  BY <1>13, <1>15
<1>20. wi = None => u.cl[cv] = cv
  <2>1. b.cl \in [Canvases -> Maybe(Layers)]
    BY <1>11, Types DEF LayersTyped
  <2>2. wi = None => u.cl = [b.cl EXCEPT ![cv] = cv]
    BY <1>7 DEF Landed, WhereTo
  <2>3. QED
    BY <2>1, <2>2
<1>21. u.display = d /\ Existing(u) = Existing(t) /\ OnOthers(u) \subseteq OnOthers(t)
  <2>1. OnOthers(u) = OnOthers(b)
    BY <1>7 DEF Landed, OnOthers
  <2>2. QED
    BY <1>5, <1>7, <1>15, <2>1
<1>22. QED
  BY <1>7, <1>8, <1>9, <1>10, <1>16, <1>17, <1>18, <1>19, <1>20, <1>21 DEF Placed

-----------------------------------------------------------------------------
(* Sizes.                                                                    *)


\* The local definitions of ResizeLayer.
Stays(t, l) == Layer2Window(t, l) = None /\ IsOverlay(l) /\ t.below[l] = Bottom(t, l) /\ t.kind[l] = "list"
OldLayer(t, l) ==
  IF t.flayer = None THEN None
  ELSE IF t.flayer = l \/ Layer2Window(t, t.flayer) = Layer2Window(t, l) THEN Bottom(t, t.flayer) ELSE t.flayer
Turns(t, l) == (IF Layer2Window(t, l) = None THEN <<>> ELSE AllJoins(t.cvs, <<>>, t.displays)) \o <<None>>
Bared(t, l) == AllBares(<<Layer2Window(t, l), l>>, t, Turns(t, l))

\* ResizeLayer, when there is something to do.
LEMMA ResizeIs ==
  ASSUME NEW t, NEW l, NEW size, t.size[l] # size
  PROVE  ResizeLayer(t, l, size) =
           [(IF Stays(t, l) THEN [t EXCEPT !.size[l] = size] ELSE Bared(t, l))
            EXCEPT !.size[Bottom(t, l)] = size, !.flayer = IF Stays(t, l) THEN t.flayer ELSE OldLayer(t, l)]
<1>1. FoldLeft(LAMBDA q, d : q \o t.cvs[d], <<>>, t.displays) = AllJoins(t.cvs, <<>>, t.displays)
  BY DEF Joins, AllJoins, FoldLeft, MapThenFoldSet, Max
<1>2. \A p, seq : FoldLeft(LAMBDA u, c : IF c # None /\ Shows(u, c) # p THEN u
                    ELSE ExitAll([u EXCEPT !.flayer = IF p = None THEN l
                                                      ELSE IF c = None THEN u.save[p] ELSE u.cl[c]]), t, seq) =
                  AllBares(<<p, l>>, t, seq)
  BY DEF Bares, AllBares, FoldLeft, MapThenFoldSet, Max
<1>3. QED
  BY <1>1, <1>2, Zenon DEF ResizeLayer, Stays, OldLayer, Turns, Bared

\* Only overlays on b went, and none that a canvas does not show in their place.
Trimmed(t, u, b) ==
  /\ OnOthers(u) \subseteq OnOthers(t)
  /\ \A o \in OnOthers(t) : t.base[o] # b => o \in OnOthers(u)
  /\ \A o \in OnOthers(u) : u.base[o] = t.base[o]
  /\ \A c \in Canvases : t.cl[c] \notin Overlays => u.cl[c] = t.cl[c]

\* What is shown or saved has no overlay on it.
LEMMA HeldTop ==
  ASSUME NEW t, Core(t, None), NEW x \in Overlays, Held(t, x)
  PROVE  Top(t, x) /\ x \in OnOthers(t)
<1>1. x # None /\ x \notin Windows
  BY Apart
<1>2. x \in Alive(t)
  BY <1>1 DEF Held, Core, Homes, Saved, Existing
<1>3. QED
  BY <1>1, <1>2, Apart DEF Held, Core, Covered, Top, OnOthers, Bare, Alive, Existing, Owned

\* The bottom of a layer in use is a window or a canvas in use.
LEMMA BottomAlive ==
  ASSUME NEW t, Core(t, None), NEW x \in Alive(t)
  PROVE  Bottom(t, x) \in Existing(t) \union Owned(t) /\ x \in Layers /\ Bottom(t, x) \in Layers /\ x # None
<1>1. CASE x \in Overlays
  <2>1. x \in OnOthers(t)
    BY <1>1, Apart DEF Alive, Existing, Owned
  <2>2. t.base[x] \in Existing(t) \union Owned(t)
    BY <1>1, <2>1 DEF Core, Based, OnOthers
  <2>3. QED
    BY <1>1, <2>2, Apart DEF Bottom, IsOverlay, Existing, Owned, Layers
<1>2. CASE x \notin Overlays
  BY <1>2, Apart DEF Bottom, IsOverlay, Existing, Owned, Layers, Alive, OnOthers
<1>3. QED
  BY <1>1, <1>2

\* All overlays of a chain go, from the one that is shown or saved.
LEMMA ExitFrom ==
  ASSUME NEW t, Core(t, None), NEW x \in Alive(t), x \in Overlays => Top(t, x), NEW u, u = ExitAll([t EXCEPT !.flayer = x])
  PROVE  /\ Core(u, None) /\ Calm(t, u) /\ Steady(t, u) /\ Trimmed(t, u, Bottom(t, x))
         /\ u.size = t.size /\ u.kind = t.kind /\ u.flayer = Bottom(t, x)
<1>1. t \in Screens /\ x \in Maybe(Layers) /\ x \in Maybe(Alive(t))
  BY BottomAlive DEF Core, Maybe
<1>2. PICK v : v = [t EXCEPT !.flayer = x]
  OBVIOUS
<1>3. /\ SameLayers(t, v) /\ Calm(t, v) /\ v.size = t.size /\ v.kind = t.kind /\ v.flayer = x /\ Core(v, None)
  BY <1>1, <1>2, FlayerSet
<1>4. /\ Existing(v) = Existing(t) /\ OnOthers(v) = OnOthers(t)
      /\ \A l : Bottom(v, l) = Bottom(t, l)
      /\ \A l : Top(v, l) <=> Top(t, l)
  BY <1>3, SameSound
<1>5. Ready(v)
  <2>1. x \in Overlays => x \in OnOthers(t)
    BY Apart DEF Alive, Existing, Owned
  <2>2. QED
    BY <1>3, <1>4, <2>1, KeptWeaker DEF Ready
<1>6. Leaving(v, u) /\ u.flayer \notin Overlays
  BY <1>2, <1>5, ExitAllSound
<1>7. Core(u, None)
  <2>1. Core(u, u.flayer)
    BY <1>6 DEF Leaving, Ready
  <2>2. Kept(u, None)
    BY <1>6, <2>1 DEF Core, Kept, OnOthers
  <2>3. QED
    BY <2>1, <2>2 DEF Core
<1>8. Exited(v, u) /\ Spared(v, u)
  BY <1>6 DEF Leaving
<1>9. Calm(t, u) /\ u.size = t.size /\ u.kind = t.kind
  BY <1>3, <1>8, CalmRefl DEF Exited
<1>10. Steady(t, u)
  BY <1>3, <1>4, <1>8 DEF Exited, Steady, SameLayers
<1>11. Trimmed(t, u, Bottom(t, x))
  BY <1>3, <1>4, <1>8 DEF Exited, Spared, Trimmed, SameLayers
<1>12. u.flayer = Bottom(t, x)
  BY <1>3, <1>4, <1>6, <1>8 DEF Spared, Bottom, IsOverlay
<1>13. QED
  BY <1>7, <1>9, <1>10, <1>11, <1>12

\* Two steps that change no view do so together.
LEMMA SteadyJoins ==
  ASSUME NEW t, NEW u, NEW v, Steady(t, u), Steady(u, v)
  PROVE  Steady(t, v)
BY DEF Steady

\* Two steps that only take overlays off b do so together.
LEMMA TrimmedJoins ==
  ASSUME NEW t, NEW u, NEW v, NEW b, Trimmed(t, u, b), Trimmed(u, v, b)
  PROVE  Trimmed(t, v, b)
<1>1. \A o \in OnOthers(t) : t.base[o] # b => o \in OnOthers(v)
  BY DEF Trimmed
<1>2. \A c \in Canvases : t.cl[c] \notin Overlays => v.cl[c] = t.cl[c]
  BY DEF Trimmed
<1>3. QED
  BY <1>1, <1>2 DEF Trimmed

\* The turns of the loop in ResizeLayer.
LEMMA TurnsType ==
  ASSUME NEW t \in Screens, NEW l
  PROVE  /\ Len(Turns(t, l)) \in Nat /\ DOMAIN Turns(t, l) = 1 .. Len(Turns(t, l))
         /\ \A k \in 1 .. Len(Turns(t, l)) : Turns(t, l)[k] \in Canvases \union {None}
         /\ Layer2Window(t, l) = None => Len(Turns(t, l)) = 1 /\ Turns(t, l)[1] = None
<1> DEFINE q == AllJoins(t.cvs, <<>>, t.displays)
           n == Len(t.displays)
           S == [k \in 0 .. n |-> Seq(Canvases)]
<1>1. t.displays \in Seq(Displays) /\ t.cvs \in [Displays -> Seq(Canvases)] /\ n \in Nat /\ DOMAIN t.displays = 1 .. n
  BY Types, LenProperties DEF OthersTyped
<1>2. <<>> \in S[0]
  BY <1>1
<1>3. ASSUME NEW k \in 1 .. n, NEW v \in S[k - 1] PROVE Joins(t.cvs, v, t.displays[k]) \in S[k]
  <2>1. t.displays[k] \in Displays /\ v \in Seq(Canvases)
    BY <1>1
  <2>2. t.cvs[t.displays[k]] \in Seq(Canvases)
    BY <1>1, <2>1
  <2>3. v \o t.cvs[t.displays[k]] \in Seq(Canvases)
    BY <2>1, <2>2
  <2>4. S[k] = Seq(Canvases)
    BY <1>1
  <2>5. QED
    BY <2>3, <2>4 DEF Joins
<1> HIDE DEF S
<1>4. q \in S[n]
  BY <1>1, <1>2, <1>3, JoinsKeep
<1>5. q \in Seq(Canvases)
  BY <1>1, <1>4 DEF S
<1> HIDE DEF q
<1> DEFINE U == Canvases \union {None}
<1>6. ASSUME NEW p \in Seq(Canvases) PROVE p \o <<None>> \in Seq(U)
  <2>1. p \in Seq(U)
    OBVIOUS
  <2>2. QED
    BY <2>1
<1>7. CASE Layer2Window(t, l) = None
  <2>1. Turns(t, l) = <<>> \o <<None>>
    BY <1>7 DEF Turns
  <2>2. <<>> \o <<None>> = <<None>>
    OBVIOUS
  <2>3. QED
    BY <2>1, <2>2
<1>8. CASE Layer2Window(t, l) # None
  <2>1. Turns(t, l) = q \o <<None>>
    BY <1>8 DEF Turns, q
  <2>2. Turns(t, l) \in Seq(U)
    BY <1>5, <1>6, <2>1
  <2> HIDE DEF U
  <2>3. Len(Turns(t, l)) \in Nat /\ DOMAIN Turns(t, l) = 1 .. Len(Turns(t, l)) /\ \A k \in 1 .. Len(Turns(t, l)) : Turns(t, l)[k] \in U
    BY <2>2
  <2>4. QED
    BY <1>8, <2>3 DEF U
<1>9. QED
  BY <1>7, <1>8

\* Taking all overlays off a window changes no view.
LEMMA BaredSound ==
  ASSUME NEW t, Core(t, None), NEW c0 \in Canvases, NEW l, l = t.cl[c0], l # None, NEW u, u = Bared(t, l)
  PROVE  /\ Core(u, None) /\ Calm(t, u) /\ Steady(t, u) /\ Trimmed(t, u, Bottom(t, l))
<1> DEFINE p == Layer2Window(t, l)
           b == Bottom(t, l)
           q == Turns(t, l)
           n == Len(q)
           S == [k \in 0 .. n |-> {v \in Screens : /\ Core(v, None) /\ Calm(t, v) /\ Steady(t, v) /\ Trimmed(t, v, b)
                                                   /\ k = 0 => v = t}]
<1>1. /\ n \in Nat /\ DOMAIN q = 1 .. n /\ \A k \in 1 .. n : q[k] \in Canvases \union {None}
      /\ p = None => n = 1 /\ q[1] = None
      /\ t \in Screens
  BY TurnsType DEF Core
<1>2. u = AllBares(<<p, l>>, t, q)
  BY DEF Bared
<1>3. /\ p # None => p = b /\ p \in Windows /\ p \in Existing(t)
      /\ l \in Alive(t) /\ (l \in Overlays => Top(t, l))
  <2>1. l \in Alive(t)
    BY DEF Core, Homes
  <2>2. b \in Existing(t) \union Owned(t)
    BY <2>1, BottomAlive
  <2>3. Owned(t) \intersect Windows = {}
    BY Apart DEF Owned
  <2>4. QED
    BY <2>1, <2>2, <2>3, HeldTop, Apart DEF Layer2Window, Held
<1>4. t \in S[0]
  <2>1. Calm(t, t) /\ Steady(t, t) /\ Trimmed(t, t, b)
    BY DEF Calm, Steady, Trimmed
  <2>2. QED
    BY <1>1, <2>1
<1> HIDE DEF p, b, q, n
<1>5. ASSUME NEW k \in 1 .. n, NEW v \in S[k - 1] PROVE Bares(<<p, l>>, v, q[k]) \in S[k]
  <2>1. /\ k - 1 \in 0 .. n /\ k \in 0 .. n /\ k # 0 /\ q[k] \in Canvases \union {None}
        /\ v \in Screens /\ Core(v, None) /\ Calm(t, v) /\ Steady(t, v) /\ Trimmed(t, v, b)
        /\ p = None => v = t /\ q[k] = None
    BY <1>1
  <2> DEFINE c == q[k]
             x == IF p = None THEN l ELSE IF c = None THEN v.save[p] ELSE v.cl[c]
  <2>2. CASE c # None /\ Shows(v, c) # p
    <3>1. Bares(<<p, l>>, v, c) = v
      BY <2>2 DEF Bares
    <3>2. QED
      BY <2>1, <3>1
  <2>3. CASE ~(c # None /\ Shows(v, c) # p)
    <3>1. PICK w : w = ExitAll([v EXCEPT !.flayer = x])
      OBVIOUS
    <3>2. Bares(<<p, l>>, v, c) = w
      BY <2>3, <3>1 DEF Bares
    <3>3. x \in Alive(v) /\ Bottom(v, x) = b /\ (x \in Overlays => Top(v, x))
      <4>1. CASE p = None
        BY <1>3, <2>1, <4>1 DEF b
      <4>2. CASE p # None /\ c = None
        <5>1. p \in Existing(v) /\ p \in Windows /\ p = b /\ x = v.save[p]
          BY <1>3, <2>1, <4>2 DEF Steady
        <5>2. x \in Alive(v) /\ Bottom(v, x) = b
          BY <2>1, <5>1 DEF Core, Saved
        <5>3. x \in Overlays => Held(v, x)
          BY <5>1 DEF Held
        <5>4. QED
          BY <2>1, <5>2, <5>3, HeldTop
      <4>3. CASE p # None /\ c # None
        <5>1. c \in Canvases /\ x = v.cl[c] /\ Shows(v, c) = p
          BY <2>1, <2>3, <4>3
        <5>2. Bottom(v, x) = p /\ x # None
          <6>1. Bottom(v, x) = p
            BY <4>3, <5>1 DEF Shows, Layer2Window
          <6>2. Bottom(v, None) \notin Windows
            BY Apart DEF Bottom, IsOverlay
          <6>3. QED
            BY <1>3, <4>3, <6>1, <6>2
        <5>3. x \in Alive(v)
          BY <2>1, <5>1, <5>2 DEF Core, Homes
        <5>4. x \in Overlays => Held(v, x)
          BY <5>1 DEF Held
        <5>5. QED
          BY <1>3, <2>1, <4>3, <5>2, <5>3, <5>4, HeldTop
      <4>4. QED
        BY <4>1, <4>2, <4>3
    <3> HIDE DEF x, c
    <3>4. Core(w, None) /\ Calm(v, w) /\ Steady(v, w) /\ Trimmed(v, w, b)
      BY <2>1, <3>1, <3>3, ExitFrom
    <3>5. Calm(t, w) /\ Steady(t, w) /\ Trimmed(t, w, b) /\ w \in Screens
      BY <2>1, <3>4, CalmRefl, SteadyJoins, TrimmedJoins DEF Core
    <3>6. QED
      BY <2>1, <3>2, <3>4, <3>5 DEF c
  <2>4. QED
    BY <2>2, <2>3
<1> HIDE DEF S
<1>6. u \in S[n]
  BY <1>1, <1>2, <1>4, <1>5, BaresKeep DEF n
<1>7. QED
  BY <1>1, <1>6 DEF S, b

\* The pointer flayer and one size are set.
Sized(t, b, size, x) == [t EXCEPT !.size[b] = size, !.flayer = x]

\* Setting sizes and flayer.
LEMMA SizeSet ==
  ASSUME NEW t \in Screens, NEW b \in Layers, NEW size \in Sizes, NEW x \in Maybe(Layers),
         NEW u, u = Sized(t, b, size, x)
  PROVE  /\ u \in Screens /\ SameLayers(t, u) /\ Calm(t, u) /\ u.flayer = x
         /\ Core(t, None) /\ x \in Maybe(Alive(t)) => Core(u, None)
<1>1. Whole(u)
  BY DEF Screens, Whole, Sized
<1>2. u.size = [t.size EXCEPT ![b] = size] /\ u.kind = t.kind /\ SameLayers(t, u) /\ u.flayer = x
  BY DEF Screens, SameLayers, Sized
<1>3. Calm(t, u)
  BY DEF Screens, Calm, Sized
<1>4. LayersTyped(t) /\ LooksTyped(t) /\ OthersTyped(t)
  BY Types
<1>5. u \in Screens
  <2>1. LayersTyped(u)
    BY <1>2, <1>4 DEF LayersTyped, SameLayers
  <2>2. LooksTyped(u)
    BY <1>2, <1>4 DEF LooksTyped
  <2>3. OthersTyped(u)
    BY <1>3, <1>4, CalmType
  <2>4. QED
    BY <1>1, <2>1, <2>2, <2>3, IsScreen
<1>6. ASSUME Core(t, None), x \in Maybe(Alive(t)) PROVE Core(u, None)
  <2>1. Points(u)
    BY <1>2, <1>3, <1>6, SameSound DEF Core, Points, Calm
  <2>2. QED
    BY <1>2, <1>5, <1>6, <2>1, SameSound
<1>7. QED
  BY <1>2, <1>3, <1>5, <1>6

\* What ResizeLayer and Activate do to the layers.
Resized(t, u) ==
  /\ Steady(t, u) /\ OnOthers(u) \subseteq OnOthers(t)
  /\ \A c \in Canvases : (t.cl[c] \notin Overlays => u.cl[c] = t.cl[c]) /\ Shows(u, c) = Shows(t, c)
  /\ t.flayer \notin Overlays => u.flayer = t.flayer

\* What a canvas shows is the same after a step that changes no view.
LEMMA ShownSame ==
  ASSUME NEW t, NEW u, Steady(t, u), NEW c \in Canvases
  PROVE  Shows(u, c) = Shows(t, c)
<1>1. Layer2Window(u, None) = None /\ Layer2Window(t, None) = None
  BY Apart DEF Layer2Window, Bottom, IsOverlay
<1>2. QED
  BY <1>1 DEF Steady, Shows, Layer2Window

\* ResizeLayer keeps the invariant and every view.
LEMMA ResizeSound ==
  ASSUME NEW t, Core(t, None), NEW c0 \in Canvases, NEW l, l = t.cl[c0], l # None, NEW size \in Sizes,
         NEW u, u = ResizeLayer(t, l, size)
  PROVE  Core(u, None) /\ Calm(t, u) /\ Resized(t, u)
<1> DEFINE b == Bottom(t, l)
<1>1. t \in Screens /\ l \in Alive(t) /\ l \in Layers /\ b \in Layers /\ t.flayer \in Maybe(Layers)
  <2>1. l \in Alive(t) /\ t \in Screens
    BY DEF Core, Homes
  <2>2. QED
    BY <2>1, BottomAlive, Types DEF LayersTyped
<1>2. Calm(t, t) /\ Steady(t, t)
  BY DEF Calm, Steady
<1>3. CASE t.size[l] = size
  <2>1. u = t
    BY <1>3 DEF ResizeLayer
  <2>2. QED
    BY <1>2, <2>1, ShownSame DEF Resized
<1>4. CASE t.size[l] # size /\ Stays(t, l)
  <2>1. u = [[t EXCEPT !.size[l] = size] EXCEPT !.size[b] = size, !.flayer = t.flayer]
    BY <1>4, ResizeIs
  <2>2. PICK v : v = Sized(t, l, size, t.flayer)
    OBVIOUS
  <2>3. t.flayer \in Maybe(Alive(t))
    BY DEF Core, Points
  <2>4. Core(v, None) /\ SameLayers(t, v) /\ Calm(t, v) /\ v.flayer = t.flayer /\ v \in Screens
    BY <1>1, <2>2, <2>3, SizeSet
  <2>5. u = Sized(v, b, size, t.flayer)
    BY <1>1, <2>1, <2>2 DEF Screens, Sized
  <2>6. Alive(v) = Alive(t)
    BY <2>4, SameSound
  <2>7. Core(u, None) /\ SameLayers(v, u) /\ Calm(v, u) /\ u.flayer = t.flayer
    BY <1>1, <2>3, <2>4, <2>5, <2>6, SizeSet
  <2>8. Steady(t, u) /\ OnOthers(u) = OnOthers(t) /\ \A c \in Canvases : u.cl[c] = t.cl[c]
    BY <2>4, <2>7 DEF SameLayers, Steady, Existing, Bottom, OnOthers
  <2>9. QED
    BY <2>4, <2>7, <2>8, ShownSame, CalmRefl DEF Resized
<1>5. CASE t.size[l] # size /\ ~Stays(t, l)
  <2>1. PICK v : v = Bared(t, l)
    OBVIOUS
  <2>2. u = Sized(v, b, size, OldLayer(t, l))
    BY <1>5, <2>1, ResizeIs DEF Sized
  <2>3. Core(v, None) /\ Calm(t, v) /\ Steady(t, v) /\ Trimmed(t, v, b)
    BY <2>1, BaredSound
  <2>4. OldLayer(t, l) \in Maybe(Alive(v)) /\ OldLayer(t, l) \in Maybe(Layers)
    <3>1. CASE t.flayer = None
      BY <3>1 DEF OldLayer, Maybe
    <3>2. CASE t.flayer # None
      <4>1. t.flayer \in Alive(t) /\ t.flayer \in Layers
        BY <1>1, <3>2 DEF Core, Points, Maybe
      <4>2. Existing(v) = Existing(t) /\ Owned(v) = Owned(t)
        BY <2>3 DEF Steady, Calm, Owned
      <4>3. CASE t.flayer = l \/ Layer2Window(t, t.flayer) = Layer2Window(t, l)
        <5>1. OldLayer(t, l) = Bottom(t, t.flayer)
          BY <3>2, <4>3 DEF OldLayer
        <5>2. Bottom(t, t.flayer) \in Existing(t) \union Owned(t) /\ Bottom(t, t.flayer) \in Layers
          BY <4>1, BottomAlive
        <5>3. QED
          BY <4>2, <5>1, <5>2 DEF Alive, Maybe
      <4>4. CASE ~(t.flayer = l \/ Layer2Window(t, t.flayer) = Layer2Window(t, l))
        <5>1. OldLayer(t, l) = t.flayer
          BY <3>2, <4>4 DEF OldLayer
        <5>2. Bottom(t, t.flayer) # b
          BY <4>4 DEF Layer2Window
        <5>3. t.flayer \in OnOthers(t) => t.flayer \in OnOthers(v)
          BY <2>3, <5>2 DEF Trimmed, Bottom, IsOverlay, OnOthers
        <5>4. QED
          BY <4>1, <4>2, <5>1, <5>3 DEF Alive, Maybe
      <4>5. QED
        BY <4>3, <4>4
    <3>3. QED
      BY <3>1, <3>2
  <2>5. v \in Screens
    BY <2>3 DEF Core
  <2>6. Core(u, None) /\ SameLayers(v, u) /\ Calm(v, u) /\ u.flayer = OldLayer(t, l)
    BY <1>1, <2>2, <2>3, <2>4, <2>5, SizeSet
  <2>7. Steady(v, u) /\ OnOthers(u) \subseteq OnOthers(t)
    <3>1. OnOthers(u) = OnOthers(v)
      BY <2>6 DEF SameLayers, OnOthers
    <3>2. QED
      BY <2>3, <2>6, <3>1 DEF SameLayers, Steady, Existing, Bottom, Trimmed
  <2>8. Steady(t, u) /\ Calm(t, u)
    BY <2>3, <2>6, <2>7, SteadyJoins, CalmRefl
  <2>9. \A c \in Canvases : t.cl[c] \notin Overlays => u.cl[c] = t.cl[c]
    BY <2>3, <2>6 DEF Trimmed, SameLayers
  <2>10. t.flayer \notin Overlays => u.flayer = t.flayer
    BY <2>6 DEF OldLayer, Bottom, IsOverlay
  <2>11. QED
    BY <2>6, <2>7, <2>8, <2>9, <2>10, ShownSame DEF Resized
<1>6. QED
  BY <1>3, <1>4, <1>5

-----------------------------------------------------------------------------
(* What every event keeps: the regions of the displays, what they show, and  *)
(* the layouts.                                                              *)

Region(t, d) ==
  /\ IsInjective(t.cvs[d]) /\ Len(t.cvs[d]) <= MaxRegions
  /\ ToSet(t.cvs[d]) = {c \in Canvases : t.owner[c] = d}
Focused(t, d) ==
  IF d \in ToSet(t.displays)
  THEN t.forecv[d] \in ToSet(t.cvs[d]) /\ t.dfore[d] = Shows(t, t.forecv[d])
  ELSE /\ t.cvs[d] = <<>> /\ t.forecv[d] = None /\ t.dfore[d] = None /\ t.dother[d] = None
       /\ t.dlayout[d] = None
Saving(lay) == Len(lay.wins) \in 1 .. MaxRegions /\ lay.focus \in DOMAIN lay.wins
LayoutsKept(t) ==
  /\ \A y \in Layouts : ToSet(t.lay[y].wins) \subseteq Maybe(Existing(t))
  /\ \A d \in Displays : t.dlayout[d] \in Maybe(ToSet(t.layouts))
  /\ t.last \in Maybe(ToSet(t.layouts))
  /\ IsInjective(t.layouts) /\ IsInjective(t.displays)

\* Every layout has something to show.
Filed(t) == \A y \in ToSet(t.layouts) : Saving(t.lay[y])

\* The focus of the display x is being changed, and a layout may be new; the
\* window w is about to go.
Settled(t, x, w) ==
  /\ Core(t, None) /\ ToSet(t.mru) = Existing(t) \ {w} /\ LayoutsKept(t)
  /\ \A d \in Displays : Region(t, d) /\ (d # x => Focused(t, d))
  /\ x = None => Filed(t)
Shown(t) == \A c \in Canvases : t.owner[c] # None => t.cl[c] # None

\* Other displays than d show what they showed.
Aside(t, u, d) == \A e \in Displays : e # d =>
  /\ u.cvs[e] = t.cvs[e]
  /\ \A c \in Canvases : t.owner[c] = e => u.owner[c] = e /\ Shows(u, c) = Shows(t, c)

\* Two steps that leave the other displays alone do so together.
LEMMA AsideJoins ==
  ASSUME NEW t, NEW u, NEW v, NEW d, Aside(t, u, d), Aside(u, v, d)
  PROVE  Aside(t, v, d)
BY DEF Aside

\* Nothing of this changes.
Still(t, u) == Framed(t, u) /\ u.mru = t.mru /\ u.dfore = t.dfore /\ u.dother = t.dother

\* Displays and layouts stay sound while they and the views are the same.
LEMMA SettledStill ==
  ASSUME NEW t, NEW x, NEW w, Settled(t, x, w), NEW u, Core(u, None), Still(t, u), Existing(u) = Existing(t),
         \A c \in Canvases : Shows(u, c) = Shows(t, c)
  PROVE  Settled(u, x, w) /\ \A d : Aside(t, u, d)
<1>1. u.cvs = t.cvs /\ u.owner = t.owner
  BY DEF Still, Framed
<1>2. LayoutsKept(u) /\ (x = None => Filed(u))
  BY DEF Settled, LayoutsKept, Filed, Still, Framed
<1>3. ASSUME NEW d \in Displays PROVE Region(u, d) /\ (d # x => Focused(u, d))
  <2>1. Region(u, d)
    BY <1>1 DEF Settled, Region
  <2>2. \A c : c \in ToSet(t.cvs[d]) => c \in Canvases
    BY DEF Settled, Region
  <2>3. ASSUME d # x PROVE Focused(u, d)
    <3>1. Focused(t, d)
      BY <2>3 DEF Settled
    <3>2. QED
      BY <2>2, <3>1 DEF Focused, Still, Framed
  <2>4. QED
    BY <2>1, <2>3
<1>4. Settled(u, x, w)
  BY <1>2, <1>3 DEF Settled, Still
<1>5. \A d : Aside(t, u, d)
  BY <1>1 DEF Aside
<1>6. QED
  BY <1>4, <1>5

\* The canvases of a display are those that belong to it.
LEMMA SettledOwner ==
  ASSUME NEW t, NEW x, NEW w, Settled(t, x, w), NEW d \in Displays
  PROVE  /\ t \in Screens /\ t.cvs[d] \in Seq(Canvases)
         /\ \A c : c \in ToSet(t.cvs[d]) <=> c \in Canvases /\ t.owner[c] = d
         /\ d \in ToSet(t.displays) /\ d # x => t.forecv[d] \in Canvases /\ t.owner[t.forecv[d]] = d
<1>1. t \in Screens /\ t.cvs \in [Displays -> Seq(Canvases)]
  BY Types DEF Settled, Core, OthersTyped
<1>2. \A c : c \in ToSet(t.cvs[d]) <=> c \in Canvases /\ t.owner[c] = d
  BY DEF Settled, Region
<1>3. QED
  BY <1>1, <1>2 DEF Settled, Focused

-----------------------------------------------------------------------------
(* The globals.                                                              *)

Pointing(t, a, x, y) == [t EXCEPT !.display = a, !.fore = x, !.flayer = y]

\* Setting the globals, in all the forms of the model.
LEMMA PointIs ==
  ASSUME NEW t \in Screens, NEW a, NEW x, NEW y
  PROVE  /\ [t EXCEPT !.display = a] = Pointing(t, a, t.fore, t.flayer)
         /\ [t EXCEPT !.fore = x] = Pointing(t, t.display, x, t.flayer)
         /\ [t EXCEPT !.flayer = y] = Pointing(t, t.display, t.fore, y)
         /\ [t EXCEPT !.fore = x, !.flayer = y] = Pointing(t, t.display, x, y)
         /\ [t EXCEPT !.display = a, !.fore = x, !.flayer = y] = Pointing(t, a, x, y)
         /\ [t EXCEPT !.display = a, !.flayer = y, !.fore = x] = Pointing(t, a, x, y)
<1>1. /\ [t EXCEPT !.display = a] = Pointing(t, a, t.fore, t.flayer)
      /\ [t EXCEPT !.fore = x] = Pointing(t, t.display, x, t.flayer)
  BY DEF Screens, Pointing
<1>2. /\ [t EXCEPT !.flayer = y] = Pointing(t, t.display, t.fore, y)
      /\ [t EXCEPT !.fore = x, !.flayer = y] = Pointing(t, t.display, x, y)
  BY DEF Screens, Pointing
<1>3. /\ [t EXCEPT !.display = a, !.fore = x, !.flayer = y] = Pointing(t, a, x, y)
      /\ [t EXCEPT !.display = a, !.flayer = y, !.fore = x] = Pointing(t, a, x, y)
  BY DEF Screens, Pointing
<1>4. QED
  BY <1>1, <1>2, <1>3

\* Only the globals changed.
Pointed(t, u) == SameLayers(t, u) /\ Still(t, u)

\* Setting the globals to something alive keeps the invariant.
LEMMA PointersSet ==
  ASSUME NEW t \in Screens, NEW a \in Maybe(Displays), NEW x \in Maybe(Existing(t)), NEW y \in Maybe(Alive(t)),
         Core(t, None), NEW u, u = Pointing(t, a, x, y)
  PROVE  /\ Core(u, None) /\ Pointed(t, u) /\ u.display = a /\ u.fore = x /\ u.flayer = y
         /\ Existing(u) = Existing(t) /\ OnOthers(u) = OnOthers(t) /\ Alive(u) = Alive(t)
         /\ \A c : Shows(u, c) = Shows(t, c)
         /\ \A l : Bottom(u, l) = Bottom(t, l) /\ Layer2Window(u, l) = Layer2Window(t, l)
         /\ u.kind = t.kind /\ u.size = t.size
<1>1. Whole(u)
  BY DEF Screens, Whole, Pointing
<1>2. u.display = a /\ u.fore = x /\ u.flayer = y /\ u.kind = t.kind /\ u.size = t.size
  BY DEF Screens, Pointing
<1>3. SameLayers(t, u)
  BY DEF Screens, Pointing, SameLayers
<1>4. Framed(t, u) /\ Still(t, u)
  BY DEF Screens, Pointing, Framed, Still
<1>5. LayersTyped(t) /\ LooksTyped(t) /\ OthersTyped(t)
  BY Types
<1>6. y \in Maybe(Layers) /\ x \in Maybe(Windows)
  BY BottomAlive DEF Maybe, Existing
<1>7. LayersTyped(u) /\ LooksTyped(u)
  BY <1>2, <1>3, <1>5, <1>6 DEF LayersTyped, LooksTyped, SameLayers
<1>8. OthersTyped(u)
  BY <1>2, <1>4, <1>5, <1>6 DEF OthersTyped, Still, Framed
<1>9. u \in Screens
  BY <1>1, <1>7, <1>8, IsScreen
<1>10. /\ Existing(u) = Existing(t) /\ OnOthers(u) = OnOthers(t) /\ Alive(u) = Alive(t)
       /\ \A l : Bottom(u, l) = Bottom(t, l) /\ Layer2Window(u, l) = Layer2Window(t, l)
  BY <1>3, SameSound
<1>11. Points(u)
  BY <1>2, <1>4, <1>10 DEF Core, Points, Still
<1>12. Core(u, None)
  BY <1>3, <1>9, <1>11, SameSound
<1>13. \A c : Shows(u, c) = Shows(t, c)
  BY <1>3, <1>10 DEF Shows, SameLayers
<1>14. QED
  BY <1>2, <1>3, <1>4, <1>10, <1>12, <1>13 DEF Pointed

-----------------------------------------------------------------------------
(* Activate and ResizeLayersToCanvases.                                      *)

Few(t) == \A d \in Displays : Len(t.cvs[d]) <= MaxRegions

\* Two steps that only resize do so together.
LEMMA ResizedJoins ==
  /\ \A t : Resized(t, t)
  /\ \A t, u, v : Resized(t, u) /\ Resized(u, v) => Resized(t, v)
<1>1. \A t : Resized(t, t)
  BY DEF Resized, Steady
<1>2. ASSUME NEW t, NEW u, NEW v, Resized(t, u), Resized(u, v) PROVE Resized(t, v)
  <2>1. Steady(t, v)
    BY <1>2, SteadyJoins DEF Resized
  <2>2. QED
    BY <1>2, <2>1 DEF Resized
<1>3. QED
  BY <1>1, <1>2

\* Refit keeps the invariant and every view.
LEMMA RefitSound ==
  ASSUME NEW t, Core(t, None), Few(t), NEW c \in Canvases, NEW u, u = Refit(t, c)
  PROVE  Core(u, None) /\ Calm(t, u) /\ Resized(t, u)
<1>1. CASE u = t
  BY <1>1, ResizedJoins DEF Calm
<1>2. CASE u # t
  <2>1. t.cl[c] # None /\ u = ResizeLayer(t, t.cl[c], CanvasSize(t, c))
    BY <1>2 DEF Refit
  <2>2. t.owner[c] \in Displays
    <3>1. t.owner \in [Canvases -> Maybe(Displays)] /\ t.owner[c] # None
      BY <2>1, Types DEF Core, Homes, OthersTyped
    <3>2. QED
      BY <3>1 DEF Maybe
  <2>3. t.cvs[t.owner[c]] \in Seq(Canvases)
    BY <2>2, Types DEF Core, OthersTyped
  <2>4. Len(t.cvs[t.owner[c]]) \in 0 .. MaxRegions
    BY <2>2, <2>3, LenProperties, WindowsAssumption DEF Few
  <2>5. CanvasSize(t, c) \in Sizes
    BY <2>2, <2>4 DEF CanvasSize, Sizes, Maybe
  <2>6. QED
    BY <2>1, <2>5, ResizeSound
<1>3. QED
  BY <1>1, <1>2

Activated(t, d, u) ==
  /\ Core(u, None) /\ Resized(t, u) /\ Still(t, u) /\ u.display = d /\ u.fore = t.dfore[d]

\* Activate keeps the invariant and every view; fore is D_fore.
LEMMA ActivateSound ==
  ASSUME NEW t, Core(t, None), Few(t), NEW d \in Displays, t.display = d, t.forecv[d] \in Canvases, NEW u, u = Activate(t)
  PROVE  Activated(t, d, u)
<1>1. PICK v : v = Refit(t, t.forecv[d])
  OBVIOUS
<1>2. Core(v, None) /\ Calm(t, v) /\ Resized(t, v)
  BY <1>1, RefitSound
<1>3. u = [v EXCEPT !.fore = v.dfore[v.display]]
  BY <1>1, Apart DEF Activate, With
<1>4. v.display = d /\ v.dfore = t.dfore
  BY <1>2 DEF Calm
<1>5. v \in Screens /\ d \in Maybe(Displays) /\ v.dfore[d] \in Maybe(Existing(v)) /\ v.flayer \in Maybe(Alive(v))
  BY <1>2 DEF Core, Points, Maybe
<1>6. u = Pointing(v, d, v.dfore[d], v.flayer)
  <2>1. u = [v EXCEPT !.fore = v.dfore[d]]
    BY <1>3, <1>4
  <2>2. u = Pointing(v, v.display, v.dfore[d], v.flayer)
    BY <1>5, <2>1, PointIs
  <2>3. QED
    BY <1>4, <2>2
<1>7. /\ Core(u, None) /\ SameLayers(v, u) /\ Still(v, u) /\ u.display = d /\ u.fore = v.dfore[d] /\ u.flayer = v.flayer
      /\ Existing(u) = Existing(v) /\ OnOthers(u) = OnOthers(v)
      /\ \A c : Shows(u, c) = Shows(v, c)
      /\ \A l : Bottom(u, l) = Bottom(v, l)
  BY <1>2, <1>5, <1>6, PointersSet DEF Pointed
<1>8. Resized(v, u)
  BY <1>7 DEF Resized, Steady, SameLayers
<1>9. Still(t, u)
  BY <1>2, <1>7 DEF Calm, Still, Framed
<1>10. QED
  BY <1>2, <1>4, <1>7, <1>8, <1>9, ResizedJoins DEF Activated


\* ResizeLayersToCanvases keeps the invariant and every view.
LEMMA RefitAll ==
  ASSUME NEW t, Core(t, None), Few(t), NEW d \in Displays, NEW u, u = ResizeLayersToCanvases(t, d)
  PROVE  Core(u, None) /\ Calm(t, u) /\ Resized(t, u)
<1> DEFINE q == t.cvs[d]
           n == Len(q)
           S == [k \in 0 .. n |-> {v \in Screens : Core(v, None) /\ Calm(t, v) /\ Resized(t, v)}]
<1>1. n \in Nat /\ DOMAIN q = 1 .. n /\ \A k \in 1 .. n : q[k] \in Canvases
  BY Types, LenProperties, ElementOfSeq DEF Core, OthersTyped
<1>2. u = AllRefits(None, t, q)
  BY DEF ResizeLayersToCanvases, Refits, AllRefits, FoldLeft, MapThenFoldSet, Max
<1> HIDE DEF q
<1>3. t \in S[0]
  BY <1>1, ResizedJoins DEF Calm, Core
<1>4. ASSUME NEW k \in 1 .. n, NEW v \in S[k - 1] PROVE Refits(None, v, q[k]) \in S[k]
  <2>1. Core(v, None) /\ Calm(t, v) /\ Resized(t, v)
    BY <1>1
  <2>2. Few(v)
    BY <2>1 DEF Few, Calm
  <2>3. PICK w : w = Refit(v, q[k])
    OBVIOUS
  <2>4. Core(w, None) /\ Calm(v, w) /\ Resized(v, w)
    BY <1>1, <2>1, <2>2, <2>3, RefitSound
  <2>5. Calm(t, w) /\ Resized(t, w) /\ w \in Screens
    BY <2>1, <2>4, CalmRefl, ResizedJoins DEF Core
  <2>6. QED
    BY <1>1, <2>3, <2>4, <2>5 DEF Refits
<1> HIDE DEF n, S
<1>5. u \in S[n]
  BY <1>1, <1>2, <1>3, <1>4, RefitsKeep DEF n
<1>6. QED
  BY <1>1, <1>5 DEF S

-----------------------------------------------------------------------------
(* SetForeWindow and SwitchWindow.                                           *)

\* Settled screens are well-formed, with few regions on each display.
LEMMA SettledFew ==
  ASSUME NEW t, NEW x, NEW w, Settled(t, x, w)
  PROVE  Few(t) /\ Core(t, None) /\ t \in Screens
BY DEF Settled, Region, Few, Core

\* SetCanvasWindow leaves the other displays alone.
LEMMA SetSettled ==
  ASSUME NEW t, NEW x, NEW w, Settled(t, x, w), NEW cv \in Canvases, NEW d \in Displays, d = t.owner[cv],
         NEW wi \in Maybe(Existing(t)), wi # None => wi # w, NEW u, u = SetCanvasWindow(t, cv, wi)
  PROVE  Settled(u, x, w) /\ Placed(t, d, cv, wi, u) /\ Aside(t, u, d) /\ (Shown(t) => Shown(u))
<1>1. Core(u, None) /\ Placed(t, d, cv, wi, u)
  BY SetSound DEF Settled
<1>2. /\ Framed(t, u) /\ Existing(u) = Existing(t) /\ Shows(u, cv) = wi
      /\ u.cl[cv] # None
      /\ \A c \in Canvases : c # cv => u.cl[c] = t.cl[c] /\ Shows(u, c) = Shows(t, c)
      /\ \A e \in Displays : u.dfore[e] = IF e = d /\ cv = t.forecv[d] THEN wi ELSE t.dfore[e]
      /\ \A e \in Displays : e # d => u.dother[e] = t.dother[e]
  BY <1>1 DEF Placed
<1>3. u.cvs = t.cvs /\ u.owner = t.owner /\ u.forecv = t.forecv /\ u.displays = t.displays /\ u.dlayout = t.dlayout
  BY <1>2 DEF Framed
<1>4. ToSet(u.mru) = Existing(u) \ {w}
  <2>1. \A y : y \in ToSet(u.mru) <=> y \in ToSet(t.mru) \/ (cv = t.forecv[d] /\ wi # None /\ y = wi)
    BY <1>1 DEF Placed
  <2>2. ToSet(t.mru) = Existing(t) \ {w}
    BY DEF Settled
  <2>3. wi # None => wi \in ToSet(t.mru)
    BY <2>2 DEF Maybe
  <2>4. ToSet(u.mru) = ToSet(t.mru)
    BY <2>1, <2>3
  <2>5. QED
    BY <1>2, <2>2, <2>4
<1>5. LayoutsKept(u) /\ (x = None => Filed(u))
  BY <1>2 DEF Settled, LayoutsKept, Filed, Framed
<1>6. ASSUME NEW e \in Displays PROVE Region(u, e) /\ (e # x => Focused(u, e))
  <2>1. Region(u, e) /\ \A c : c \in ToSet(t.cvs[e]) <=> c \in Canvases /\ t.owner[c] = e
    BY <1>3 DEF Settled, Region
  <2>2. ASSUME e # x, e \in ToSet(t.displays) PROVE Focused(u, e)
    <3>1. t.forecv[e] \in ToSet(t.cvs[e]) /\ t.dfore[e] = Shows(t, t.forecv[e])
      BY <2>2 DEF Settled, Focused
    <3>2. u.dfore[e] = Shows(u, t.forecv[e])
      <4>1. CASE t.forecv[e] = cv
        <5>1. e = d
          BY <2>1, <3>1, <4>1
        <5>2. QED
          BY <1>2, <4>1, <5>1
      <4>2. CASE t.forecv[e] # cv
        BY <1>2, <2>1, <3>1, <4>2
      <4>3. QED
        BY <4>1, <4>2
    <3>3. QED
      BY <1>3, <2>2, <3>1, <3>2 DEF Focused
  <2>3. ASSUME e # x, e \notin ToSet(t.displays) PROVE Focused(u, e)
    <3>1. t.cvs[e] = <<>> /\ t.forecv[e] = None /\ t.dfore[e] = None /\ t.dother[e] = None /\ t.dlayout[e] = None
      BY <2>3 DEF Settled, Focused
    <3>2. ToSet(t.cvs[e]) = {}
      BY <3>1 DEF ToSet
    <3>3. e # d
      BY <2>1, <3>2
    <3>4. QED
      BY <1>2, <1>3, <2>3, <3>1, <3>3 DEF Focused
  <2>4. QED
    BY <2>1, <2>2, <2>3
<1>7. Settled(u, x, w)
  BY <1>1, <1>4, <1>5, <1>6 DEF Settled
<1>8. Aside(t, u, d)
  BY <1>2, <1>3 DEF Aside
<1>9. Shown(t) => Shown(u)
  BY <1>2, <1>3 DEF Shown
<1>10. QED
  BY <1>1, <1>7, <1>8, <1>9

\* SetForeWindow on a display: the focused canvas shows wi.
Foremost(t, d, wi, u) ==
  /\ Framed(t, u) /\ u.display = d /\ Existing(u) = Existing(t) /\ OnOthers(u) \subseteq OnOthers(t)
  /\ u.fore = wi /\ u.flayer = u.cl[t.forecv[d]] /\ u.flayer # None /\ Shows(u, t.forecv[d]) = wi
  /\ \A c \in Canvases : c # t.forecv[d] => u.cl[c] = t.cl[c] /\ Shows(u, c) = Shows(t, c)
  /\ wi = None => u.cl[t.forecv[d]] = t.forecv[d]

\* SetForeWindow lets the focused canvas show the window.
LEMMA ForeSound ==
  ASSUME NEW t, NEW x, NEW w, Settled(t, x, w), Shown(t), NEW d \in Displays, t.display = d,
         t.forecv[d] \in Canvases, t.owner[t.forecv[d]] = d,
         NEW wi \in Maybe(Existing(t)), wi # None => wi # w, NEW u, u = SetForeWindow(t, wi)
  PROVE  Settled(u, x, w) /\ Shown(u) /\ Foremost(t, d, wi, u) /\ Aside(t, u, d)
<1> DEFINE cv == t.forecv[d]
<1>1. PICK v : v = SetCanvasWindow(t, cv, wi)
  OBVIOUS
<1>2. Settled(v, x, w) /\ Placed(t, d, cv, wi, v) /\ Aside(t, v, d) /\ Shown(v)
  BY <1>1, SetSettled
<1>3. v.display = d /\ v.forecv = t.forecv
  BY <1>2 DEF Placed, Framed
<1>4. u = [v EXCEPT !.flayer = v.cl[v.forecv[v.display]]]
  BY <1>1, Apart DEF SetForeWindow, With
<1>5. /\ v \in Screens /\ Core(v, None) /\ v.cl[cv] \in Alive(v) /\ v.cl[cv] # None
      /\ d \in Maybe(Displays) /\ v.fore \in Maybe(Existing(v))
  BY <1>2 DEF Settled, Core, Homes, Placed, Points, Maybe
<1>6. /\ u = Pointing(v, d, v.fore, v.cl[cv])
      /\ v.cl[cv] \in Maybe(Alive(v))
  <2>1. v.cl[cv] \in Maybe(Alive(v))
    BY <1>5 DEF Maybe
  <2>2. v.forecv[v.display] = cv
    BY <1>3
  <2>3. u = [v EXCEPT !.flayer = v.cl[cv]]
    BY <1>4, <2>2
  <2> HIDE DEF cv
  <2>4. u = Pointing(v, v.display, v.fore, v.cl[cv])
    BY <1>5, <2>3, PointIs
  <2>5. QED
    BY <1>3, <2>1, <2>4
<1>7. /\ Core(u, None) /\ SameLayers(v, u) /\ Still(v, u) /\ u.display = d /\ u.fore = v.fore /\ u.flayer = v.cl[cv]
      /\ Existing(u) = Existing(v) /\ OnOthers(u) = OnOthers(v)
      /\ \A c : Shows(u, c) = Shows(v, c)
  BY <1>5, <1>6, PointersSet DEF Pointed
<1>8. Settled(u, x, w) /\ Aside(v, u, d)
  BY <1>2, <1>7, SettledStill
<1>9. u.cl = v.cl /\ u.owner = v.owner /\ Framed(v, u)
  BY <1>7 DEF SameLayers, Still
<1>10. Shown(u)
  BY <1>2, <1>9 DEF Shown
<1>11. Framed(t, u)
  BY <1>2, <1>9 DEF Framed, Placed
<1>12. Foremost(t, d, wi, u)
  BY <1>2, <1>5, <1>7, <1>9, <1>11 DEF Foremost, Placed
<1>13. QED
  BY <1>2, <1>8, <1>10, <1>12, AsideJoins

\* What every event leaves behind.
ForeSeen(t) == t.fore = None \/ \E d \in ToSet(t.displays) : d \in Displays /\ t.dfore[d] = t.fore
Fine(t) == Settled(t, None, None) /\ Shown(t) /\ ForeSeen(t)

\* The focused canvas of an attached display.
LEMMA FineFocus ==
  ASSUME NEW t, NEW x, NEW w, Settled(t, x, w), NEW d \in Displays, d \in ToSet(t.displays), d # x
  PROVE  t.forecv[d] \in Canvases /\ t.owner[t.forecv[d]] = d /\ t.dfore[d] = Shows(t, t.forecv[d])
<1>1. t.forecv[d] \in Canvases /\ t.owner[t.forecv[d]] = d
  BY SettledOwner
<1>2. Focused(t, d)
  BY DEF Settled
<1>3. QED
  BY <1>1, <1>2 DEF Focused

\* Activate leaves settled screens settled.
LEMMA ActivateSettled ==
  ASSUME NEW t, NEW x, NEW w, Settled(t, x, w), Shown(t), NEW d \in Displays, d \in ToSet(t.displays), t.display = d, d # x,
         NEW u, u = Activate(t)
  PROVE  Settled(u, x, w) /\ Shown(u) /\ ForeSeen(u) /\ Activated(t, d, u) /\ Aside(t, u, d)
<1>1. t.forecv[d] \in Canvases /\ Few(t) /\ Core(t, None)
  BY FineFocus, SettledFew
<1>2. Activated(t, d, u)
  BY <1>1, ActivateSound
<1>3. Core(u, None) /\ Still(t, u) /\ Existing(u) = Existing(t) /\ \A c \in Canvases : Shows(u, c) = Shows(t, c)
  BY <1>2 DEF Activated, Resized, Steady
<1>4. Settled(u, x, w) /\ Aside(t, u, d)
  BY <1>3, SettledStill
<1>5. Shown(u)
  BY <1>2 DEF Activated, Resized, Steady, Shown, Still, Framed
<1>6. ForeSeen(u)
  BY <1>2 DEF Activated, Still, Framed, ForeSeen
<1>7. QED
  BY <1>2, <1>4, <1>5, <1>6

\* What an event on the display d leaves behind.
Moves(t, d, u) == Fine(u) /\ Aside(t, u, d) /\ Existing(t) \subseteq Existing(u)

\* Activate(SetForeWindow(t, wi)).
LEMMA ForeActivated ==
  ASSUME NEW t, Settled(t, None, None), Shown(t), NEW d \in Displays, d \in ToSet(t.displays), t.display = d,
         NEW wi \in Maybe(Existing(t)), NEW u, u = Activate(SetForeWindow(t, wi))
  PROVE  /\ Moves(t, d, u) /\ Framed(t, u) /\ u.display = d /\ OnOthers(u) \subseteq OnOthers(t)
         /\ Shows(u, t.forecv[d]) = wi /\ Existing(u) = Existing(t)
         /\ wi = None => u.cl[t.forecv[d]] = t.forecv[d] /\ u.flayer = t.forecv[d]
<1> DEFINE cv == t.forecv[d]
<1>1. PICK v : v = SetForeWindow(t, wi)
  OBVIOUS
<1>2. cv \in Canvases /\ t.owner[cv] = d
  BY FineFocus, Apart
<1>3. Settled(v, None, None) /\ Shown(v) /\ Foremost(t, d, wi, v) /\ Aside(t, v, d)
  BY <1>1, <1>2, ForeSound
<1>4. v.display = d /\ v.displays = t.displays /\ v.forecv = t.forecv /\ d # None
  BY <1>3, Apart DEF Foremost, Framed
<1>5. Settled(u, None, None) /\ Shown(u) /\ ForeSeen(u) /\ Activated(v, d, u) /\ Aside(v, u, d)
  BY <1>1, <1>3, <1>4, ActivateSettled
<1>6. Aside(t, u, d) /\ Framed(t, u)
  BY <1>3, <1>5, AsideJoins DEF Foremost, Activated, Still, Framed
<1>7. cv \in Canvases /\ Shows(u, cv) = wi
  BY <1>3, <1>4, <1>5, FineFocus, Apart DEF Foremost, Activated, Resized
<1>8. ASSUME wi = None PROVE u.cl[cv] = cv /\ u.flayer = cv
  <2>1. v.cl[cv] = cv /\ v.flayer = cv
    BY <1>3, <1>8 DEF Foremost
  <2>2. QED
    BY <1>5, <1>7, <2>1, Apart DEF Activated, Resized
<1>9. Existing(u) = Existing(t) /\ OnOthers(u) \subseteq OnOthers(t) /\ u.display = d
  BY <1>3, <1>5 DEF Foremost, Activated, Resized, Steady
<1>10. QED
  BY <1>5, <1>6, <1>7, <1>8, <1>9 DEF Moves, Fine

\* Doing nothing is an event on any display.
LEMMA MovesStart ==
  ASSUME NEW t, Fine(t), NEW d
  PROVE  Moves(t, d, t)
BY DEF Moves, Aside

\* A step on the display and an event on it are an event on it.
LEMMA MovesJoins ==
  ASSUME NEW t, NEW u, NEW v, NEW d, Aside(t, u, d), Existing(t) \subseteq Existing(u), Moves(u, d, v)
  PROVE  Moves(t, d, v)
BY AsideJoins DEF Moves

\* SwitchWindow is an event on one display.
LEMMA SwitchSound ==
  ASSUME NEW t, Fine(t), NEW d \in Displays, d \in ToSet(t.displays), t.display = d,
         NEW wi, NEW u, u = SwitchWindow(t, wi)
  PROVE  Moves(t, d, u)
<1>1. CASE u = t
  BY <1>1, MovesStart
<1>2. CASE u # t
  <2>1. wi \in ToSet(t.mru) /\ u = Activate(SetForeWindow(t, wi))
    BY <1>2, Apart DEF SwitchWindow
  <2>2. wi \in Maybe(Existing(t))
    BY <2>1 DEF Fine, Settled, Maybe
  <2>3. QED
    BY <2>1, <2>2, ForeActivated DEF Fine
<1>3. QED
  BY <1>1, <1>2

-----------------------------------------------------------------------------
(* FindNiceWindow and MakeWindow.                                            *)

Hidden(t) == FirstIn(t.mru, LAMBDA w : t.on[w] = <<>>)
Away(t) == FirstIn(t.mru, LAMBDA w : t.on[w] # <<>> /\ ~IsOnDisplay(t, w))

\* The least of some indices is one of them.
LEMMA FirstOfIs ==
  ASSUME NEW n \in Nat, NEW I \in SUBSET (1 .. n), I # {}
  PROVE  Min(I) \in I
<1>1. PICK m \in I : \A k \in I : m <= k
  BY LeastNumber
<1>2. \E x \in I : \A y \in I : x <= y
  BY <1>1
<1>3. QED
  BY <1>2 DEF Min

\* A window whose own layer no canvas shows, if there is one.
LEMMA HiddenIs ==
  ASSUME NEW t, t.mru \in Seq(Windows)
  PROVE  /\ Hidden(t) = None => \A w \in ToSet(t.mru) : t.on[w] # <<>>
         /\ Hidden(t) # None => Hidden(t) \in ToSet(t.mru)
<1> DEFINE q == t.mru
           n == Len(q)
           I == {i \in 1 .. n : t.on[q[i]] = <<>>}
<1>1. n \in Nat /\ DOMAIN q = 1 .. n /\ \A i \in 1 .. n : q[i] \in Windows
  BY LenProperties, ElementOfSeq
<1>2. Hidden(t) = IF (IF I # {} THEN Min(I) ELSE 0) = 0 THEN None ELSE q[IF I # {} THEN Min(I) ELSE 0]
  BY DEF Hidden, FirstIn, SelectInSeq
<1>3. I # {} => Min(I) \in I
  BY <1>1, FirstOfIs
<1>4. I # {} => Hidden(t) = q[Min(I)] /\ Min(I) \in 1 .. n
  BY <1>1, <1>2, <1>3
<1>5. I = {} => Hidden(t) = None
  BY <1>2
<1>6. ToSet(q) = {q[i] : i \in 1 .. n}
  BY <1>1 DEF ToSet
<1>7. CASE I = {}
  BY <1>5, <1>6, <1>7
<1>8. CASE I # {}
  BY <1>1, <1>4, <1>6, <1>8, Apart
<1>9. QED
  BY <1>7, <1>8

\* A window that the display does not show, if there is one.
LEMMA AwayIs ==
  ASSUME NEW t, t.mru \in Seq(Windows)
  PROVE  /\ Away(t) = None => \A w \in ToSet(t.mru) : t.on[w] = <<>> \/ IsOnDisplay(t, w)
         /\ Away(t) # None => Away(t) \in ToSet(t.mru)
<1> DEFINE q == t.mru
           n == Len(q)
           I == {i \in 1 .. n : t.on[q[i]] # <<>> /\ ~IsOnDisplay(t, q[i])}
<1>1. n \in Nat /\ DOMAIN q = 1 .. n /\ \A i \in 1 .. n : q[i] \in Windows
  BY LenProperties, ElementOfSeq
<1>2. Away(t) = IF (IF I # {} THEN Min(I) ELSE 0) = 0 THEN None ELSE q[IF I # {} THEN Min(I) ELSE 0]
  BY DEF Away, FirstIn, SelectInSeq
<1>3. I # {} => Min(I) \in I
  BY <1>1, FirstOfIs
<1>4. ASSUME I # {} PROVE Away(t) = q[Min(I)] /\ Min(I) \in 1 .. n
  <2> DEFINE k == Min(I)
  <2>1. k \in 1 .. n
    BY <1>3, <1>4
  <2> HIDE DEF I, k
  <2>2. (IF k = 0 THEN None ELSE q[k]) = q[k]
    BY <1>1, <2>1
  <2>3. Away(t) = IF (IF I # {} THEN k ELSE 0) = 0 THEN None ELSE q[IF I # {} THEN k ELSE 0]
    BY <1>2 DEF k
  <2>4. QED
    BY <1>4, <2>1, <2>2, <2>3 DEF k
<1>5. I = {} => Away(t) = None
  BY <1>2
<1>6. ToSet(q) = {q[i] : i \in 1 .. n}
  BY <1>1 DEF ToSet
<1>7. CASE I = {}
  BY <1>5, <1>6, <1>7
<1>8. CASE I # {}
  BY <1>1, <1>4, <1>6, <1>8, Apart
<1>9. QED
  BY <1>7, <1>8

\* FindNiceWindow finds a window that the display does not show, if there is one.
LEMMA NiceIs ==
  ASSUME NEW t, t.mru \in Seq(Windows), t.display # None, NEW wi, NEW w, w = FindNiceWindow(t, wi)
  PROVE  \/ w = wi /\ wi # None /\ ~IsOnDisplay(t, wi)
         \/ w \in ToSet(t.mru)
         \/ w = None /\ \A y \in ToSet(t.mru) : IsOnDisplay(t, y)
<1>1. w = IF wi # None /\ ~IsOnDisplay(t, wi) THEN wi ELSE IF Hidden(t) # None THEN Hidden(t) ELSE Away(t)
  BY Zenon DEF FindNiceWindow, Hidden, Away
<1>2. QED
  BY <1>1, HiddenIs, AwayIs

\* A new window.
NewWindow(t, w, d, size) ==
  [t EXCEPT !.mru = Cons(w, @), !.save[w] = w, !.blocked[w] = 0, !.on[w] = <<>>, !.size[w] = size,
            !.dother = [x \in Displays |-> IF x = d /\ t.dfore[x] # None THEN t.dfore[x] ELSE @[x]]]

NewFacts(t, w, d, size, u) ==
  /\ u.mru = Cons(w, t.mru) /\ u.save = [t.save EXCEPT ![w] = w] /\ u.blocked = [t.blocked EXCEPT ![w] = 0]
  /\ u.on = [t.on EXCEPT ![w] = <<>>] /\ u.size = [t.size EXCEPT ![w] = size] /\ u.kind = t.kind
  /\ u.dother = [x \in Displays |-> IF x = d /\ t.dfore[x] # None THEN t.dfore[x] ELSE t.dother[x]]
  /\ u.cl = t.cl /\ u.below = t.below /\ u.base = t.base /\ u.blocking = t.blocking
  /\ u.dfore = t.dfore /\ u.display = t.display /\ u.fore = t.fore /\ u.flayer = t.flayer
  /\ Framed(t, u) /\ Whole(u)

\* A window is made, field by field.
LEMMA NewFields ==
  ASSUME NEW t \in Screens, NEW w, NEW d, NEW size, NEW u, u = NewWindow(t, w, d, size)
  PROVE  NewFacts(t, w, d, size, u)
<1> DEFINE other == [x \in Displays |-> IF x = d /\ t.dfore[x] # None THEN t.dfore[x] ELSE t.dother[x]]
           q == Cons(w, t.mru)
<1>1. u = [t EXCEPT !.mru = q, !.save[w] = w, !.blocked[w] = 0, !.on[w] = <<>>, !.size[w] = size, !.dother = other]
  BY DEF NewWindow, Screens
<1> HIDE DEF other, q
<1>2. u.mru = q /\ u.save = [t.save EXCEPT ![w] = w] /\ u.blocked = [t.blocked EXCEPT ![w] = 0]
  BY <1>1 DEF Screens
<1>3. /\ u.on = [t.on EXCEPT ![w] = <<>>] /\ u.size = [t.size EXCEPT ![w] = size] /\ u.kind = t.kind
      /\ u.dother = other
  BY <1>1 DEF Screens
<1>4. u.cl = t.cl /\ u.below = t.below /\ u.base = t.base /\ u.blocking = t.blocking
  BY <1>1 DEF Screens
<1>5. u.dfore = t.dfore /\ u.display = t.display /\ u.fore = t.fore /\ u.flayer = t.flayer
  BY <1>1 DEF Screens
<1>6. Framed(t, u)
  BY <1>1 DEF Screens, Framed
<1>7. Whole(u)
  BY <1>1 DEF Screens, Whole
<1>8. QED
  BY <1>2, <1>3, <1>4, <1>5, <1>6, <1>7 DEF NewFacts, other, q

\* A new window is alive and nothing shows it.
LEMMA NewSound ==
  ASSUME NEW t, Core(t, None), NEW w \in Windows \ Existing(t), NEW d \in Displays, NEW size \in Sizes,
         NEW u, u = NewWindow(t, w, d, size)
  PROVE  /\ Core(u, None) /\ Framed(t, u) /\ Existing(u) = Existing(t) \union {w}
         /\ ToSet(u.mru) = ToSet(t.mru) \union {w}
         /\ OnOthers(u) = OnOthers(t) /\ u.display = t.display /\ u.dfore = t.dfore /\ u.cl = t.cl
         /\ \A e \in Displays : e # d => u.dother[e] = t.dother[e]
         /\ \A c : Shows(u, c) = Shows(t, c)
<1>1. t \in Screens /\ LayersTyped(t) /\ LooksTyped(t) /\ OthersTyped(t)
  BY Types DEF Core
<1>2. NewFacts(t, w, d, size, u)
  BY <1>1, NewFields
<1>3. /\ t.mru \in Seq(Windows) /\ t.save \in [Windows -> Maybe(Layers)] /\ t.on \in [Layers -> Seq(Canvases)]
      /\ t.blocked \in [Windows -> 0 .. 2] /\ t.size \in [Layers -> Sizes] /\ w \in Windows /\ w \in Layers
      /\ t.dfore \in [Displays -> Maybe(Windows)] /\ t.dother \in [Displays -> Maybe(Windows)]
  BY <1>1 DEF LayersTyped, LooksTyped, OthersTyped, Layers
<1>4. w \notin ToSet(t.mru) /\ IsInjective(t.mru)
  BY DEF Core, Listed
<1>5. /\ u.mru \in Seq(Windows) /\ IsInjective(u.mru) /\ ToSet(u.mru) = ToSet(t.mru) \union {w}
  <2>1. /\ Cons(w, t.mru) \in Seq(Windows) /\ IsInjective(Cons(w, t.mru))
        /\ \A y : y \in ToSet(Cons(w, t.mru)) <=> y = w \/ y \in ToSet(t.mru)
    BY <1>3, <1>4, ConsIs
  <2>2. QED
    BY <1>2, <2>1 DEF NewFacts
<1>6. u \in Screens
  <2>1. LayersTyped(u)
    <3>1. u.save \in [Windows -> Maybe(Layers)] /\ u.blocked \in [Windows -> 0 .. 2] /\ u.on \in [Layers -> Seq(Canvases)]
      BY <1>2, <1>3, EmptyList DEF NewFacts, Maybe
    <3>2. QED
      BY <1>1, <1>2, <3>1 DEF NewFacts, LayersTyped
  <2>2. LooksTyped(u)
    <3>1. u.size \in [Layers -> Sizes]
      BY <1>2, <1>3 DEF NewFacts
    <3>2. QED
      BY <1>1, <1>2, <3>1 DEF NewFacts, LooksTyped
  <2>3. OthersTyped(u)
    <3>1. u.dother \in [Displays -> Maybe(Windows)]
      BY <1>2, <1>3 DEF NewFacts
    <3>2. QED
      BY <1>1, <1>2, <1>5, <3>1 DEF NewFacts, OthersTyped, Framed
  <2>4. Whole(u)
    BY <1>2 DEF NewFacts
  <2>5. QED
    BY <2>1, <2>2, <2>3, <2>4, IsScreen
<1>7. /\ u.cl = t.cl /\ u.below = t.below /\ u.base = t.base /\ u.blocking = t.blocking /\ u.owner = t.owner
      /\ \A x \in Windows : u.save[x] = IF x = w THEN w ELSE t.save[x]
      /\ \A x \in Windows : u.blocked[x] = IF x = w THEN 0 ELSE t.blocked[x]
      /\ \A l \in Layers : u.on[l] = IF l = w THEN <<>> ELSE t.on[l]
  BY <1>2, <1>3 DEF NewFacts, Framed
<1>8. Existing(u) = Existing(t) \union {w}
  BY <1>3, <1>7, Apart DEF Existing
<1>9. /\ OnOthers(u) = OnOthers(t) /\ Owned(u) = Owned(t) /\ Alive(u) = Alive(t) \union {w}
      /\ \A l : Bottom(u, l) = Bottom(t, l)
      /\ \A l : Bare(u, l) <=> Bare(t, l)
      /\ \A l : Top(u, l) <=> Top(t, l)
  BY <1>7, <1>8 DEF OnOthers, Owned, Alive, Bottom, Bare, Top
<1>10. w \notin Alive(t)
  BY Apart DEF Alive, Owned, OnOthers
<1>11. t.save[w] = None
  BY DEF Existing
<1>12. Lists(u)
  <2>1. \A c \in Canvases : t.cl[c] # w
    BY <1>10, Apart DEF Core, Homes
  <2>2. IsInjective(<<>>) /\ ToSet(<<>>) = {}
    BY DEF IsInjective, ToSet
  <2>3. QED
    BY <1>7, <2>1, <2>2 DEF Core, Lists, ListsOf
<1>13. Homes(u)
  BY <1>7, <1>9 DEF Core, Homes
<1>14. Ranked(u)
  BY <1>7 DEF Core, Ranked
<1>15. Based(u)
  BY <1>7, <1>8, <1>9 DEF Core, Based
<1>16. Covered(u)
  BY <1>7, <1>9 DEF Core, Covered
<1>17. Kept(u, None)
  <2>1. ASSUME NEW o \in OnOthers(t), \E x \in Windows : t.save[x] = o PROVE \E x \in Windows : u.save[x] = o
    <3>1. PICK x \in Windows : t.save[x] = o
      BY <2>1
    <3>2. x # w
      BY <1>11, <3>1, Apart DEF OnOthers
    <3>3. QED
      BY <1>7, <3>1, <3>2
  <2>2. QED
    BY <1>9, <2>1 DEF Core, Kept
<1>18. Saved(u)
  <2>1. Bottom(u, w) = w /\ w \in Alive(u)
    BY <1>9, Apart DEF Bottom, IsOverlay
  <2>2. \A x \in Existing(t) : x \in Windows /\ u.save[x] = t.save[x]
    BY <1>7 DEF Existing
  <2>3. \A x \in Existing(t) : t.save[x] \in Alive(t) /\ Bottom(t, t.save[x]) = x
    BY DEF Core, Saved
  <2>4. ASSUME NEW x \in Existing(u) PROVE u.save[x] \in Alive(u) /\ Bottom(u, u.save[x]) = x
    <3>1. CASE x = w
      BY <1>7, <2>1, <3>1
    <3>2. CASE x # w
      BY <1>8, <1>9, <2>2, <2>3, <3>2
    <3>3. QED
      BY <3>1, <3>2
  <2>5. QED
    BY <2>4 DEF Saved
<1>19. Blocks(u)
  <2>1. \A o \in t.blocking : t.below[o] # w
    <3>1. t.blocking \in SUBSET Overlays
      BY <1>1 DEF LayersTyped
    <3>2. QED
      BY <1>10, <3>1, Apart DEF Core, Based
  <2>2. QED
    BY <1>7, <1>9, <2>1 DEF Core, Blocks
<1>20. Points(u)
  <2>1. /\ u.fore = t.fore /\ u.flayer = t.flayer /\ u.dfore = t.dfore
        /\ \A e \in Displays : u.dother[e] \in {t.dfore[e], t.dother[e]}
    BY <1>2 DEF NewFacts
  <2>2. QED
    BY <1>8, <1>9, <2>1 DEF Core, Points, Maybe
<1>21. Listed(u)
  BY <1>5, <1>8 DEF Core, Listed
<1>22. \A c : Shows(u, c) = Shows(t, c)
  BY <1>7, <1>9 DEF Shows, Layer2Window
<1>23. /\ u.display = t.display /\ u.dfore = t.dfore /\ Framed(t, u)
       /\ \A e \in Displays : e # d => u.dother[e] = t.dother[e]
  BY <1>2 DEF NewFacts
<1>24. Core(u, None)
  BY <1>6, <1>12, <1>13, <1>14, <1>15, <1>16, <1>17, <1>18, <1>19, <1>20, <1>21 DEF Core
<1>25. QED
  BY <1>5, <1>7, <1>8, <1>9, <1>22, <1>23, <1>24

\* A new window leaves all views as they are.
LEMMA NewSettled ==
  ASSUME NEW t, Settled(t, None, None), NEW w \in Windows \ Existing(t),
         NEW d \in Displays, d \in ToSet(t.displays), NEW size \in Sizes, NEW u, u = NewWindow(t, w, d, size)
  PROVE  /\ Settled(u, None, None) /\ (Shown(t) => Shown(u)) /\ Aside(t, u, d)
         /\ Existing(u) = Existing(t) \union {w} /\ Framed(t, u) /\ u.display = t.display
         /\ OnOthers(u) = OnOthers(t) /\ \A c : Shows(u, c) = Shows(t, c)
<1>1. /\ Core(u, None) /\ Framed(t, u) /\ Existing(u) = Existing(t) \union {w}
      /\ ToSet(u.mru) = ToSet(t.mru) \union {w}
      /\ OnOthers(u) = OnOthers(t) /\ u.display = t.display /\ u.dfore = t.dfore /\ u.cl = t.cl
      /\ \A e \in Displays : e # d => u.dother[e] = t.dother[e]
      /\ \A c : Shows(u, c) = Shows(t, c)
  BY NewSound DEF Settled
<1>2. /\ u.cvs = t.cvs /\ u.owner = t.owner /\ u.forecv = t.forecv /\ u.displays = t.displays /\ u.dlayout = t.dlayout
      /\ u.lay = t.lay /\ u.layouts = t.layouts /\ u.last = t.last
  BY <1>1 DEF Framed
<1>3. LayoutsKept(u) /\ Filed(u)
  BY <1>1, <1>2 DEF Settled, LayoutsKept, Filed, Maybe
<1>4. ToSet(u.mru) = Existing(u) \ {None}
  <2>1. ToSet(t.mru) = Existing(t) \ {None}
    BY DEF Settled
  <2>2. w # None
    BY Apart
  <2>3. QED
    BY <1>1, <2>1, <2>2
<1>5. ASSUME NEW e \in Displays PROVE Region(u, e) /\ (e # None => Focused(u, e))
  <2>1. Region(u, e)
    BY <1>2 DEF Settled, Region
  <2>2. Focused(t, e)
    BY Apart DEF Settled
  <2>3. Focused(u, e)
    BY <1>1, <1>2, <2>2 DEF Focused
  <2>4. QED
    BY <2>1, <2>3
<1>6. Settled(u, None, None)
  BY <1>1, <1>3, <1>4, <1>5 DEF Settled
<1>7. (Shown(t) => Shown(u)) /\ Aside(t, u, d)
  BY <1>1, <1>2 DEF Shown, Aside
<1>8. QED
  BY <1>1, <1>6, <1>7

\* MakeWindow takes a window that does not exist.
LEMMA UnusedWindow ==
  ASSUME NEW t, WindowsLeft(t), ToSet(t.mru) \subseteq Windows
  PROVE  Head(Unused(Wtab, ToSet(t.mru))) \in Windows \ ToSet(t.mru)
<1>1. Wtab \in Seq(Windows) /\ IsInjective(Wtab)
  BY PoolsAssumption
<1>2. /\ Unused(Wtab, ToSet(t.mru)) \in Seq(Windows)
      /\ ToSet(Unused(Wtab, ToSet(t.mru))) = Windows \ ToSet(t.mru)
  BY <1>1, UnusedIs DEF Windows
<1>3. ToSet(Unused(Wtab, ToSet(t.mru))) # {}
  BY <1>2 DEF WindowsLeft
<1>4. Head(Unused(Wtab, ToSet(t.mru))) \in ToSet(Unused(Wtab, ToSet(t.mru)))
  BY <1>2, <1>3, HeadIn
<1>5. QED
  BY <1>2, <1>4

\* MakeWindow lets the focused canvas show a window that is new.
LEMMA MakeSound ==
  ASSUME NEW t, Settled(t, None, None), Shown(t), NEW d \in Displays, d \in ToSet(t.displays), t.display = d,
         WindowsLeft(t), NEW u, u = MakeWindow(t)
  PROVE  /\ Moves(t, d, u) /\ u.display = d /\ Framed(t, u) /\ OnOthers(u) \subseteq OnOthers(t)
         /\ \E w \in Windows \ Existing(t) : Existing(u) = Existing(t) \union {w} /\ Shows(u, t.forecv[d]) = w
<1>1. PICK w : w = Head(Unused(Wtab, ToSet(t.mru)))
  OBVIOUS
<1>2. PICK size : size = IF d = None THEN t.size[w] ELSE CanvasSize(t, t.forecv[d])
  OBVIOUS
<1>3. ToSet(t.mru) = Existing(t) /\ t.forecv[d] \in Canvases /\ t.owner[t.forecv[d]] = d /\ d # None /\ t \in Screens
  <2>1. d # None /\ None \notin Existing(t)
    BY Apart DEF Existing
  <2>2. ToSet(t.mru) = Existing(t) \ {None}
    BY DEF Settled
  <2>3. QED
    BY <2>1, <2>2, FineFocus, SettledFew
<1>4. w \in Windows \ Existing(t)
  <2>1. Existing(t) \subseteq Windows
    BY DEF Existing
  <2>2. QED
    BY <1>1, <1>3, <2>1, UnusedWindow
<1>5. size \in Sizes
  <2>1. t.cvs[d] \in Seq(Canvases) /\ Len(t.cvs[d]) <= MaxRegions
    BY SettledOwner, SettledFew DEF Few
  <2>2. Len(t.cvs[d]) \in 0 .. MaxRegions
    BY <2>1, LenProperties, WindowsAssumption
  <2>3. QED
    BY <1>2, <1>3, <2>2 DEF CanvasSize, Sizes, Maybe
<1>6. PICK v : v = NewWindow(t, w, d, size)
  OBVIOUS
<1>7. u = Activate(SetForeWindow(v, w))
  <2>1. NewWindow(t, w, d, size) =
          [t EXCEPT !.mru = Cons(w, @), !.save[w] = w, !.blocked[w] = 0, !.on[w] = <<>>,
                    !.size[w] = IF d = None THEN @ ELSE CanvasSize(t, t.forecv[d]),
                    !.dother = [x \in Displays |-> IF x = d /\ t.dfore[x] # None
                                                   THEN t.dfore[x] ELSE @[x]]]
    BY <1>2, <1>3 DEF NewWindow
  <2>2. u = Activate(SetForeWindow(NewWindow(t, w, d, size), w))
    BY <1>1, <2>1 DEF MakeWindow
  <2>3. QED
    BY <1>6, <2>2
<1>8. /\ Settled(v, None, None) /\ Shown(v) /\ Aside(t, v, d)
      /\ Existing(v) = Existing(t) \union {w} /\ Framed(t, v) /\ v.display = d
      /\ OnOthers(v) = OnOthers(t)
  BY <1>4, <1>5, <1>6, NewSettled
<1>9. w \in Maybe(Existing(v)) /\ d \in ToSet(v.displays) /\ v.forecv = t.forecv
  BY <1>8 DEF Maybe, Framed
<1>10. /\ Moves(v, d, u) /\ Framed(v, u) /\ u.display = d /\ OnOthers(u) \subseteq OnOthers(v)
       /\ Shows(u, v.forecv[d]) = w /\ Existing(u) = Existing(v)
  <2>1. Settled(v, None, None) /\ Shown(v) /\ v.display = d
    BY <1>8
  <2>2. QED
    BY <1>7, <1>9, <2>1, ForeActivated
<1>11. Moves(t, d, u) /\ Framed(t, u)
  BY <1>8, <1>10, MovesJoins DEF Framed
<1>12. QED
  BY <1>4, <1>8, <1>9, <1>10, <1>11

-----------------------------------------------------------------------------
(* KillWindow: the canvases that show the window get another one.            *)

\* A window that is about to go leaves the list of windows.
LEMMA LessWindow ==
  ASSUME NEW t, Settled(t, None, None), Shown(t), ForeSeen(t), NEW w \in Existing(t),
         NEW u, u = [t EXCEPT !.mru = RemoveFirst(@, w)]
  PROVE  /\ Settled(u, None, w) /\ Shown(u) /\ ForeSeen(u) /\ Framed(t, u) /\ Existing(u) = Existing(t)
         /\ \A c : Shows(u, c) = Shows(t, c)
<1>1. t \in Screens /\ LayersTyped(t) /\ LooksTyped(t) /\ OthersTyped(t)
  BY SettledFew, Types
<1>2. Whole(u)
  BY <1>1 DEF Screens, Whole
<1>3. u.mru = RemoveFirst(t.mru, w) /\ u.kind = t.kind /\ u.size = t.size /\ u.flayer = t.flayer
  BY <1>1 DEF Screens
<1>4. /\ u.cl = t.cl /\ u.on = t.on /\ u.below = t.below /\ u.base = t.base /\ u.blocking = t.blocking
      /\ u.save = t.save /\ u.blocked = t.blocked
  BY <1>1 DEF Screens
<1>5. Framed(t, u) /\ u.dfore = t.dfore /\ u.dother = t.dother /\ u.fore = t.fore /\ u.display = t.display
  BY <1>1 DEF Screens, Framed
<1>6. /\ u.mru \in Seq(Windows) /\ IsInjective(u.mru)
      /\ \A y : y \in ToSet(u.mru) <=> y \in ToSet(t.mru) /\ y # w
  <2>1. t.mru \in Seq(Windows) /\ IsInjective(t.mru)
    BY <1>1 DEF OthersTyped, Settled, Core, Listed
  <2>2. QED
    BY <1>3, <2>1, RemovedIs
<1>7. u \in Screens
  <2>1. LayersTyped(u) /\ LooksTyped(u)
    BY <1>1, <1>3, <1>4 DEF LayersTyped, LooksTyped
  <2>2. OthersTyped(u)
    BY <1>1, <1>5, <1>6 DEF OthersTyped, Framed
  <2>3. QED
    BY <1>2, <2>1, <2>2, IsScreen
<1>8. /\ Existing(u) = Existing(t) /\ OnOthers(u) = OnOthers(t) /\ Owned(u) = Owned(t) /\ Alive(u) = Alive(t)
      /\ \A l : Bottom(u, l) = Bottom(t, l)
      /\ \A l : (Bare(u, l) <=> Bare(t, l)) /\ (Top(u, l) <=> Top(t, l))
  BY <1>4, <1>5 DEF Existing, OnOthers, Owned, Alive, Bottom, Bare, Top, Framed
<1>9. ToSet(u.mru) = Existing(u) \ {w}
  <2>1. ToSet(t.mru) = Existing(t) \ {None} /\ None \notin Existing(t)
    BY Apart DEF Settled, Existing
  <2>2. QED
    BY <1>6, <1>8, <2>1
<1>10. Core(u, None)
  <2>1. Core(t, None) /\ u.owner = t.owner
    BY <1>5 DEF Settled, Framed
  <2>2. Lists(u) /\ Ranked(u)
    BY <1>4, <2>1 DEF Core, Lists, Ranked
  <2>3. Homes(u) /\ Based(u)
    BY <1>4, <1>8, <2>1 DEF Core, Homes, Based
  <2>4. Covered(u) /\ Kept(u, None)
    BY <1>4, <1>8, <2>1 DEF Core, Covered, Kept
  <2>5. Saved(u) /\ Blocks(u)
    BY <1>4, <1>8, <2>1 DEF Core, Saved, Blocks
  <2>6. Points(u)
    BY <1>3, <1>5, <1>8, <2>1 DEF Core, Points
  <2>7. Listed(u)
    BY <1>6, <1>9 DEF Listed
  <2>8. QED
    BY <1>7, <2>2, <2>3, <2>4, <2>5, <2>6, <2>7 DEF Core
<1>11. \A c : Shows(u, c) = Shows(t, c)
  BY <1>4, <1>8 DEF Shows, Layer2Window
<1>12. LayoutsKept(u) /\ Filed(u)
  BY <1>5, <1>8 DEF Settled, LayoutsKept, Filed, Framed
<1>13. ASSUME NEW e \in Displays PROVE Region(u, e) /\ (e # None => Focused(u, e))
  <2>1. Region(u, e)
    BY <1>5 DEF Settled, Region, Framed
  <2>2. Focused(t, e)
    BY Apart DEF Settled
  <2>3. QED
    BY <1>5, <1>11, <2>1, <2>2 DEF Focused, Framed
<1>14. Settled(u, None, w)
  BY <1>9, <1>10, <1>12, <1>13 DEF Settled
<1>15. Shown(u) /\ ForeSeen(u)
  BY <1>4, <1>5 DEF Shown, ForeSeen, Framed
<1>16. QED
  BY <1>5, <1>8, <1>11, <1>14, <1>15

\* The canvases of d that showed w show another one, if d does not show all others.
Dealt(t, u, w, d) == \A c \in ToSet(t.cvs[d]) :
  /\ Shows(u, c) # w
  /\ Shows(t, c) # w => Shows(u, c) = Shows(t, c)
  /\ Shows(t, c) = w /\ Shows(u, c) = None =>
       \A y \in Existing(t) \ {w} : \E x \in ToSet(t.cvs[d]) : Shows(u, x) = y
Same(t, u, d) == \A c \in ToSet(t.cvs[d]) : Shows(u, c) = Shows(t, c)

\* Half done: the canvases in C are dealt with.
Dealing(t, u, w, d, C) ==
  /\ Settled(u, None, w) /\ Shown(u) /\ u.display = d /\ Framed(t, u) /\ Existing(u) = Existing(t) /\ Aside(t, u, d)
  /\ C \subseteq ToSet(t.cvs[d]) /\ \A c \in C : Shows(u, c) # w
  /\ \A c \in ToSet(t.cvs[d]) :
       /\ Shows(t, c) # w => Shows(u, c) = Shows(t, c)
       /\ Shows(t, c) = w /\ Shows(u, c) \notin {w} /\ Shows(u, c) = None =>
            \A y \in Existing(t) \ {w} : \E x \in ToSet(t.cvs[d]) : Shows(u, x) = y
  /\ (\A c \in ToSet(t.cvs[d]) : Shows(t, c) # w) => u = t

\* One more canvas of the display no longer shows the window.
LEMMA DealStep ==
  ASSUME NEW t, NEW v, NEW w \in Windows, NEW d \in Displays, d \in ToSet(t.displays), NEW C, Dealing(t, v, w, d, C),
         NEW c \in ToSet(t.cvs[d]), c \notin C, NEW u, u = Replace(v, w, c)
  PROVE  Dealing(t, u, w, d, C \union {c})
<1>1. v.cvs = t.cvs /\ v.displays = t.displays /\ Settled(v, None, w) /\ Shown(v) /\ v.display = d
  BY DEF Dealing, Framed
<1>2. c \in Canvases /\ v.owner[c] = d /\ v \in Screens
  BY <1>1, SettledOwner
<1>3. CASE Shows(v, c) # w
  <2>1. u = v
    BY <1>3 DEF Replace
  <2>2. QED
    BY <1>3, <2>1 DEF Dealing
<1>4. CASE Shows(v, c) = w
  <2>1. PICK wi : wi = FindNiceWindow(v, v.dother[d])
    OBVIOUS
  <2>2. u = SetCanvasWindow(v, c, wi)
    BY <1>1, <1>4, <2>1 DEF Replace
  <2>3. v.mru \in Seq(Windows) /\ d # None /\ v.dother[d] \in Maybe(Existing(v)) /\ ToSet(v.mru) = Existing(v) \ {w}
    BY <1>1, <1>2, Types, Apart DEF OthersTyped, Settled, Core, Points
  <2>4. \/ wi = v.dother[d] /\ wi # None /\ ~IsOnDisplay(v, wi)
        \/ wi \in ToSet(v.mru)
        \/ wi = None /\ \A y \in ToSet(v.mru) : IsOnDisplay(v, y)
    BY <1>1, <2>1, <2>3, NiceIs
  <2>5. IsOnDisplay(v, w)
    BY <1>1, <1>4 DEF IsOnDisplay
  <2>6. wi \in Maybe(Existing(v)) /\ (wi # None => wi # w)
    BY <2>3, <2>4, <2>5 DEF Maybe
  <2>7. Settled(u, None, w) /\ Placed(v, d, c, wi, u) /\ Aside(v, u, d) /\ Shown(u)
    BY <1>1, <1>2, <2>2, <2>6, SetSettled
  <2>8. /\ Framed(v, u) /\ u.display = d /\ Existing(u) = Existing(v) /\ Shows(u, c) = wi
        /\ \A x \in Canvases : x # c => Shows(u, x) = Shows(v, x)
    BY <2>7 DEF Placed
  <2>9. Framed(t, u) /\ Existing(u) = Existing(t) /\ Aside(t, u, d)
    BY <2>7, <2>8, AsideJoins DEF Dealing, Framed
  <2>10. wi # w /\ w # None
    BY <2>6, Apart
  <2>11. \A x \in ToSet(t.cvs[d]) : x \in Canvases
    BY <1>1, SettledOwner
  <2>12. \A x \in C \union {c} : Shows(u, x) # w
    <3>1. ASSUME NEW x \in C, x # c PROVE Shows(u, x) # w
      <4>1. x \in ToSet(t.cvs[d]) /\ Shows(v, x) # w
        BY <3>1 DEF Dealing
      <4>2. QED
        BY <2>8, <2>11, <3>1, <4>1
    <3>2. QED
      BY <2>8, <2>10, <3>1
  <2>13. ASSUME NEW y \in Existing(t) \ {w}, NEW x \in ToSet(t.cvs[d]), Shows(v, x) = y PROVE Shows(u, x) = y
    BY <1>4, <2>8, <2>11, <2>13
  <2>14. ASSUME NEW x \in ToSet(t.cvs[d]), Shows(t, x) # w PROVE Shows(u, x) = Shows(t, x)
    <3>1. Shows(v, x) = Shows(t, x)
      BY <2>14 DEF Dealing
    <3>2. x # c
      BY <1>4, <2>14, <3>1
    <3>3. QED
      BY <2>8, <2>11, <3>1, <3>2
  <2>15. ASSUME NEW x \in ToSet(t.cvs[d]), Shows(t, x) = w, Shows(u, x) = None, NEW y \in Existing(t) \ {w}
         PROVE  \E z \in ToSet(t.cvs[d]) : Shows(u, z) = y
    <3>1. CASE x = c
      <4>1. wi = None /\ y \in ToSet(v.mru)
        <5>1. Existing(v) = Existing(t)
          BY DEF Dealing
        <5>2. QED
          BY <2>3, <2>8, <2>15, <3>1, <5>1
      <4>2. IsOnDisplay(v, y)
        <5>1. None \notin ToSet(v.mru)
          BY <2>3, Apart DEF Existing
        <5>2. QED
          BY <2>4, <4>1, <5>1
      <4>3. PICK z \in ToSet(t.cvs[d]) : Shows(v, z) = y
        BY <1>1, <4>2 DEF IsOnDisplay
      <4>4. QED
        BY <2>13, <4>3
    <3>2. CASE x # c
      <4>1. Shows(v, x) = None
        BY <2>8, <2>11, <2>15, <3>2
      <4>2. PICK z \in ToSet(t.cvs[d]) : Shows(v, z) = y
        BY <2>10, <2>15, <4>1 DEF Dealing
      <4>3. QED
        BY <2>13, <4>2
    <3>3. QED
      BY <3>1, <3>2
  <2>16. ~\A x \in ToSet(t.cvs[d]) : Shows(t, x) # w
    BY <1>4 DEF Dealing
  <2>17. QED
    BY <2>7, <2>8, <2>9, <2>12, <2>14, <2>15, <2>16 DEF Dealing
<1>5. QED
  BY <1>3, <1>4


ReplacedAll(t, w, d) == FoldLeft(LAMBDA v, c : Replace(v, w, c), t, t.cvs[d])

\* The elements of a list up to the k-th.
Begins(q, k) == {q[i] : i \in 1 .. k}

\* No canvas of the display shows the window that goes.
LEMMA DealAll ==
  ASSUME NEW t, NEW w \in Windows, Settled(t, None, w), Shown(t), NEW d \in Displays, d \in ToSet(t.displays), t.display = d,
         NEW u, u = ReplacedAll(t, w, d)
  PROVE  Dealing(t, u, w, d, ToSet(t.cvs[d]))
<1> DEFINE q == t.cvs[d]
           n == Len(q)
           S == [k \in 0 .. n |-> {v \in Screens : Dealing(t, v, w, d, Begins(q, k))}]
<1>1. n \in Nat /\ DOMAIN q = 1 .. n /\ \A i, j \in 1 .. n : q[i] = q[j] => i = j
  <2>1. q \in Seq(Canvases)
    BY SettledOwner
  <2>2. IsInjective(q)
    BY DEF Settled, Region
  <2>3. QED
    BY <2>1, <2>2, LenProperties DEF IsInjective
<1>2. u = AllReplaces(w, t, q)
  BY DEF ReplacedAll, Replaces, AllReplaces, FoldLeft, MapThenFoldSet, Max
<1>3. ToSet(q) = Begins(q, n)
  BY <1>1 DEF ToSet, Begins
<1>4. t \in Screens /\ w # None
  BY SettledFew, Apart
<1> HIDE DEF q
<1>5. t \in S[0]
  <2>1. Begins(q, 0) = {}
    BY DEF Begins
  <2>2. Dealing(t, t, w, d, Begins(q, 0))
    <3>1. Framed(t, t) /\ Aside(t, t, d)
      BY DEF Framed, Aside
    <3>2. QED
      BY <1>4, <2>1, <3>1 DEF Dealing
  <2>3. QED
    BY <1>1, <1>4, <2>2
<1>6. ASSUME NEW k \in 1 .. n, NEW v \in S[k - 1] PROVE Replaces(w, v, q[k]) \in S[k]
  <2>1. Dealing(t, v, w, d, Begins(q, k - 1))
    BY <1>1
  <2>2. Begins(q, k) = Begins(q, k - 1) \union {q[k]} /\ q[k] \notin Begins(q, k - 1)
    BY <1>1 DEF Begins
  <2>3. q[k] \in ToSet(t.cvs[d])
    BY <1>1, <1>3 DEF q, Begins
  <2>4. PICK x : x = Replace(v, w, q[k])
    OBVIOUS
  <2> HIDE DEF S
  <2>5. Dealing(t, x, w, d, Begins(q, k))
    <3>1. Dealing(t, x, w, d, Begins(q, k - 1) \union {q[k]})
      BY <2>1, <2>2, <2>3, <2>4, DealStep
    <3>2. QED
      BY <2>2, <3>1, Zenon
  <2>6. x \in Screens
    BY <2>5, SettledFew DEF Dealing
  <2>7. QED
    BY <1>1, <2>4, <2>5, <2>6 DEF S, Replaces
<1> HIDE DEF n, S
<1>7. u \in S[n]
  BY <1>1, <1>2, <1>5, <1>6, ReplacesKeep DEF n
<1>8. Dealing(t, u, w, d, Begins(q, n))
  BY <1>1, <1>7 DEF S
<1>9. QED
  BY <1>3, <1>8 DEF q

\* One display is dealt with.
DealtWith(t, u, w, d) ==
  /\ Settled(u, None, w) /\ Shown(u) /\ ForeSeen(u) /\ Framed(t, u) /\ Existing(u) = Existing(t) /\ Aside(t, u, d)
  /\ Dealt(t, u, w, d)

\* KillWindow's loop over one display.
LEMMA DisplayDealt ==
  ASSUME NEW t, NEW w \in Windows, Settled(t, None, w), Shown(t), ForeSeen(t), NEW d \in Displays, d \in ToSet(t.displays),
         NEW u, u = ReplaceOnDisplay(t, w, d)
  PROVE  DealtWith(t, u, w, d)
<1>1. PICK a : a = [t EXCEPT !.display = d]
  OBVIOUS
<1>2. PICK v : v = ReplacedAll(a, w, d)
  OBVIOUS
<1>3. /\ t \in Screens /\ Core(t, None) /\ d \in Maybe(Displays) /\ t.fore \in Maybe(Existing(t)) /\ t.flayer \in Maybe(Alive(t))
  BY SettledFew DEF Settled, Core, Points, Maybe
<1>4. /\ Core(a, None) /\ Pointed(t, a) /\ a.display = d /\ a.fore = t.fore
      /\ Existing(a) = Existing(t) /\ \A c : Shows(a, c) = Shows(t, c)
  <2>1. a = Pointing(t, d, t.fore, t.flayer)
    BY <1>1, <1>3, PointIs
  <2>2. QED
    BY <1>3, <2>1, PointersSet
<1>5. Settled(a, None, w) /\ Aside(t, a, d)
  BY <1>4, SettledStill DEF Pointed
<1>6. Framed(t, a) /\ a.cvs = t.cvs /\ a.displays = t.displays /\ a.cl = t.cl /\ a.owner = t.owner /\ a.dfore = t.dfore
  BY <1>4 DEF Pointed, SameLayers, Still, Framed
<1>7. Shown(a) /\ ForeSeen(a)
  BY <1>4, <1>6 DEF Shown, ForeSeen
<1>8. Dealing(a, v, w, d, ToSet(t.cvs[d]))
  BY <1>2, <1>4, <1>5, <1>6, <1>7, DealAll
<1> DEFINE shown == \E c \in ToSet(t.cvs[d]) : Shows(t, c) = w
<1>9. u = IF shown THEN Activate(v) ELSE v
  <2>1. u = IF shown THEN Activate(FoldLeft(LAMBDA x, c : Replace(x, w, c), [t EXCEPT !.display = d], t.cvs[d]))
            ELSE FoldLeft(LAMBDA x, c : Replace(x, w, c), [t EXCEPT !.display = d], t.cvs[d])
    BY Zenon DEF ReplaceOnDisplay, With
  <2>2. v = FoldLeft(LAMBDA x, c : Replace(x, w, c), [t EXCEPT !.display = d], t.cvs[d])
    BY <1>1, <1>2, <1>6, Zenon DEF ReplacedAll
  <2>3. QED
    BY <2>1, <2>2, Zenon
<1>10. /\ Settled(v, None, w) /\ Shown(v) /\ v.display = d /\ Framed(t, v) /\ Existing(v) = Existing(t) /\ Aside(t, v, d)
       /\ v.displays = t.displays
  BY <1>4, <1>5, <1>6, <1>8, AsideJoins DEF Dealing, Framed
<1>11. Dealt(t, v, w, d)
  BY <1>4, <1>6, <1>8, Apart DEF Dealing, Dealt
<1>12. CASE ~shown
  <2>1. v = a
    BY <1>4, <1>6, <1>8, <1>12 DEF Dealing
  <2>2. QED
    BY <1>7, <1>9, <1>10, <1>11, <1>12, <2>1 DEF DealtWith
<1>13. CASE shown
  <2>1. Settled(u, None, w) /\ Shown(u) /\ ForeSeen(u) /\ Activated(v, d, u) /\ Aside(v, u, d)
    BY <1>9, <1>10, <1>13, ActivateSettled, Apart
  <2>2. /\ Framed(t, u) /\ Existing(u) = Existing(t) /\ Aside(t, u, d)
        /\ \A c \in Canvases : Shows(u, c) = Shows(v, c)
    BY <1>10, <2>1, AsideJoins DEF Activated, Resized, Steady, Still, Framed
  <2>3. Dealt(t, u, w, d)
    <3>1. \A c \in ToSet(t.cvs[d]) : Shows(u, c) = Shows(v, c)
      BY <2>2, SettledOwner
    <3>2. QED
      BY <1>11, <3>1 DEF Dealt
  <2>4. QED
    BY <2>1, <2>2, <2>3 DEF DealtWith
<1>14. QED
  BY <1>12, <1>13

ReplacedRound(t, w) == FoldLeft(LAMBDA u, d : ReplaceOnDisplay(u, w, d), t, t.displays)

\* The displays in D are dealt with.
Around(t, u, w, D) ==
  /\ Settled(u, None, w) /\ Shown(u) /\ ForeSeen(u) /\ Framed(t, u) /\ Existing(u) = Existing(t)
  /\ \A d \in Displays : IF d \in D THEN Dealt(t, u, w, d) ELSE Same(t, u, d)

\* One more display no longer shows the window.
LEMMA AroundStep ==
  ASSUME NEW t, NEW v, NEW w \in Windows, NEW D, Around(t, v, w, D), NEW d \in Displays, d \in ToSet(t.displays),
         d \notin D, NEW u, u = ReplaceOnDisplay(v, w, d)
  PROVE  Around(t, u, w, D \union {d})
<1>1. Settled(v, None, w) /\ Shown(v) /\ ForeSeen(v) /\ v.displays = t.displays /\ v.cvs = t.cvs /\ Existing(v) = Existing(t)
  BY DEF Around, Framed
<1>2. DealtWith(v, u, w, d)
  BY <1>1, DisplayDealt
<1>3. Settled(u, None, w) /\ Shown(u) /\ ForeSeen(u) /\ Framed(t, u) /\ Existing(u) = Existing(t)
  BY <1>1, <1>2 DEF DealtWith, Around, Framed
<1>4. ASSUME NEW e \in Displays, e # d, NEW c \in ToSet(t.cvs[e]) PROVE Shows(u, c) = Shows(v, c)
  <2>1. c \in Canvases /\ v.owner[c] = e
    BY <1>1, <1>4, SettledOwner
  <2>2. QED
    BY <1>2, <1>4, <2>1 DEF DealtWith, Aside
<1>5. ASSUME NEW e \in Displays, e # d, e \in D PROVE Dealt(t, u, w, e)
  <2>1. Dealt(t, v, w, e)
    BY <1>5 DEF Around
  <2>2. QED
    BY <1>4, <1>5, <2>1 DEF Dealt
<1>6. ASSUME NEW e \in Displays, e # d, e \notin D PROVE Same(t, u, e)
  <2>1. Same(t, v, e)
    BY <1>6 DEF Around
  <2>2. QED
    BY <1>4, <1>6, <2>1 DEF Same
<1>7. Dealt(t, u, w, d)
  <2>1. Same(t, v, d) /\ Dealt(v, u, w, d)
    BY <1>2 DEF Around, DealtWith
  <2>2. QED
    BY <1>1, <2>1 DEF Same, Dealt
<1>8. QED
  BY <1>3, <1>5, <1>6, <1>7 DEF Around

\* No display shows the window that goes.
LEMMA AroundAll ==
  ASSUME NEW t, NEW w \in Windows, Settled(t, None, w), Shown(t), ForeSeen(t), NEW u, u = ReplacedRound(t, w)
  PROVE  Around(t, u, w, ToSet(t.displays))
<1> DEFINE q == t.displays
           n == Len(q)
           S == [k \in 0 .. n |-> {v \in Screens : Around(t, v, w, Begins(q, k))}]
<1>1. n \in Nat /\ DOMAIN q = 1 .. n /\ (\A i, j \in 1 .. n : q[i] = q[j] => i = j) /\ \A i \in 1 .. n : q[i] \in Displays
  <2>1. q \in Seq(Displays)
    BY SettledFew, Types DEF OthersTyped
  <2>2. IsInjective(q)
    BY DEF Settled, LayoutsKept
  <2>3. QED
    BY <2>1, <2>2, LenProperties, ElementOfSeq DEF IsInjective
<1>2. u = AllRoundDisplays(w, t, q)
  BY DEF ReplacedRound, RoundDisplays, AllRoundDisplays, FoldLeft, MapThenFoldSet, Max
<1>3. ToSet(q) = Begins(q, n)
  BY <1>1 DEF ToSet, Begins
<1>4. t \in Screens /\ w # None
  BY SettledFew, Apart
<1> HIDE DEF q
<1>5. t \in S[0]
  <2>1. \A d : d \notin Begins(q, 0)
    BY DEF Begins
  <2>2. Around(t, t, w, Begins(q, 0))
    <3>1. Framed(t, t) /\ \A d : Same(t, t, d)
      BY DEF Framed, Same
    <3>2. QED
      BY <1>4, <2>1, <3>1 DEF Around
  <2>3. QED
    BY <1>1, <1>4, <2>2
<1>6. ASSUME NEW k \in 1 .. n, NEW v \in S[k - 1] PROVE RoundDisplays(w, v, q[k]) \in S[k]
  <2>1. Around(t, v, w, Begins(q, k - 1))
    BY <1>1
  <2>2. Begins(q, k) = Begins(q, k - 1) \union {q[k]} /\ q[k] \notin Begins(q, k - 1)
    BY <1>1 DEF Begins
  <2>3. q[k] \in ToSet(t.displays) /\ q[k] \in Displays
    BY <1>1, <1>3 DEF q, Begins
  <2>4. PICK x : x = ReplaceOnDisplay(v, w, q[k])
    OBVIOUS
  <2> HIDE DEF S
  <2>5. Around(t, x, w, Begins(q, k))
    <3>1. Around(t, x, w, Begins(q, k - 1) \union {q[k]})
      BY <2>1, <2>2, <2>3, <2>4, AroundStep
    <3>2. QED
      BY <2>2, <3>1, Zenon
  <2>6. x \in Screens
    BY <2>5, SettledFew DEF Around
  <2>7. QED
    BY <1>1, <2>4, <2>5, <2>6 DEF S, RoundDisplays
<1> HIDE DEF n, S
<1>7. u \in S[n]
  BY <1>1, <1>2, <1>5, <1>6, RoundDisplaysKeep DEF n
<1>8. Around(t, u, w, Begins(q, n))
  BY <1>1, <1>7 DEF S
<1>9. QED
  BY <1>3, <1>8 DEF q

\* What KillWindow hands to FreeWindow: the layouts and the window lists forget w.
Cleaned(t, w) ==
  [t EXCEPT !.display = None,
            !.lay = [y \in Layouts |-> WithoutWindow(@[y], w)],
            !.start = [o \in Overlays |-> IF @[o] = w THEN "gone" ELSE @[o]]]

\* KillWindow, in named steps.
LEMMA KillIs ==
  ASSUME NEW t \in Screens, NEW w, NEW a, a = [t EXCEPT !.mru = RemoveFirst(@, w)]
  PROVE  KillWindow(t, w) = FreeWindow(Cleaned(ReplacedRound(a, w), w), w, After(t.mru, w))
<1>1. a.displays = t.displays
  BY DEF Screens
<1>2. KillWindow(t, w) =
           FreeWindow(Cleaned(FoldLeft(LAMBDA u, d : ReplaceOnDisplay(u, w, d), [t EXCEPT !.mru = RemoveFirst(@, w)],
                                       t.displays), w),
                      w, After(t.mru, w))
  BY Zenon DEF KillWindow, Cleaned
<1>3. ReplacedRound(a, w) = FoldLeft(LAMBDA u, d : ReplaceOnDisplay(u, w, d), [t EXCEPT !.mru = RemoveFirst(@, w)],
                                     t.displays)
  BY <1>1, Zenon DEF ReplacedRound
<1>4. QED
  BY <1>2, <1>3, Zenon

CleanedFacts(t, w, u) ==
  /\ u.lay = [y \in Layouts |-> WithoutWindow(t.lay[y], w)]
  /\ u.start = [o \in Overlays |-> IF t.start[o] = w THEN "gone" ELSE t.start[o]] /\ u.display = None
  /\ SameLayers(t, u) /\ u.kind = t.kind /\ u.size = t.size /\ u.flayer = t.flayer /\ u.fore = t.fore
  /\ u.dfore = t.dfore /\ u.dother = t.dother /\ u.displays = t.displays /\ u.cvs = t.cvs /\ u.forecv = t.forecv
  /\ u.dlayout = t.dlayout /\ u.layouts = t.layouts /\ u.last = t.last /\ u.detachwin = t.detachwin
  /\ u.detachotherwin = t.detachotherwin /\ Whole(u)

\* Layouts and window lists forget the window, field by field.
LEMMA CleanedFields ==
  ASSUME NEW t \in Screens, NEW w, NEW u, u = Cleaned(t, w)
  PROVE  CleanedFacts(t, w, u)
<1> DEFINE lay == [y \in Layouts |-> WithoutWindow(t.lay[y], w)]
           start == [o \in Overlays |-> IF t.start[o] = w THEN "gone" ELSE t.start[o]]
<1>1. u = [t EXCEPT !.display = None, !.lay = lay, !.start = start]
  BY DEF Cleaned, Screens
<1> HIDE DEF lay, start
<1>2. u.lay = lay /\ u.start = start /\ u.display = None
  BY <1>1 DEF Screens
<1>3. SameLayers(t, u)
  BY <1>1 DEF Screens, SameLayers
<1>4. u.kind = t.kind /\ u.size = t.size /\ u.flayer = t.flayer /\ u.fore = t.fore /\ u.dfore = t.dfore /\ u.dother = t.dother
  BY <1>1 DEF Screens
<1>5. u.displays = t.displays /\ u.cvs = t.cvs /\ u.forecv = t.forecv /\ u.dlayout = t.dlayout
  BY <1>1 DEF Screens
<1>6. u.layouts = t.layouts /\ u.last = t.last /\ u.detachwin = t.detachwin /\ u.detachotherwin = t.detachotherwin
  BY <1>1 DEF Screens
<1>7. Whole(u)
  BY <1>1 DEF Screens, Whole
<1>8. QED
  BY <1>2, <1>3, <1>4, <1>5, <1>6, <1>7 DEF CleanedFacts, lay, start

\* A layout without w.
LEMMA LayoutCleaned ==
  ASSUME NEW lay \in [wins : Seq(Maybe(Windows)), focus : Nat], NEW w \in Windows,
         NEW y, y = WithoutWindow(lay, w)
  PROVE  /\ y \in [wins : Seq(Maybe(Windows)), focus : Nat] /\ w \notin ToSet(y.wins)
         /\ ToSet(y.wins) \subseteq ToSet(lay.wins) \union {None}
         /\ Saving(lay) => Saving(y)
<1> DEFINE q == lay.wins
           n == Len(q)
           z == [i \in 1 .. n |-> IF q[i] = w THEN None ELSE q[i]]
<1>1. q \in Seq(Maybe(Windows)) /\ lay.focus \in Nat
  OBVIOUS
<1>2. n \in Nat /\ DOMAIN q = 1 .. n /\ \A i \in 1 .. n : q[i] \in Maybe(Windows)
  BY <1>1, LenProperties, ElementOfSeq
<1>3. y.wins = z /\ y.focus = lay.focus /\ y = [wins |-> y.wins, focus |-> y.focus]
  BY <1>2 DEF WithoutWindow
<1> HIDE DEF q, n
<1>4. z \in Seq(Maybe(Windows)) /\ Len(z) = n /\ DOMAIN z = 1 .. n
  <2>1. z \in [1 .. n -> Maybe(Windows)]
    BY <1>2 DEF Maybe
  <2>2. QED
    BY <1>2, <2>1, SeqDef, LenProperties
<1>5. ToSet(z) = {z[i] : i \in 1 .. n} /\ ToSet(q) = {q[i] : i \in 1 .. n}
  BY <1>2, <1>4 DEF ToSet
<1>6. \A i \in 1 .. n : z[i] = IF q[i] = w THEN None ELSE q[i]
  OBVIOUS
<1> HIDE DEF z
<1>7. w \notin ToSet(z) /\ ToSet(z) \subseteq ToSet(q) \union {None}
  BY <1>5, <1>6, Apart
<1>8. Saving(lay) => Saving(y)
  BY <1>2, <1>3, <1>4 DEF Saving, n, q
<1>9. QED
  BY <1>1, <1>3, <1>4, <1>7, <1>8 DEF q

\* No layout points to the window that goes.
LEMMA CleanedSound ==
  ASSUME NEW t, NEW w \in Windows, Settled(t, None, w), Shown(t), NEW u, u = Cleaned(t, w)
  PROVE  /\ Settled(u, None, w) /\ Shown(u) /\ u.fore = t.fore /\ u.display = None /\ Existing(u) = Existing(t)
         /\ u.displays = t.displays /\ u.cvs = t.cvs /\ u.owner = t.owner /\ u.dfore = t.dfore
         /\ \A c : Shows(u, c) = Shows(t, c)
         /\ \A y \in Layouts : w \notin ToSet(u.lay[y].wins)
<1>1. t \in Screens /\ LayersTyped(t) /\ LooksTyped(t) /\ OthersTyped(t) /\ Core(t, None)
  BY SettledFew, Types
<1>2. CleanedFacts(t, w, u)
  BY <1>1, CleanedFields
<1>3. t.lay \in [Layouts -> [wins : Seq(Maybe(Windows)), focus : Nat]] /\ t.start \in [Overlays -> Maybe(Windows) \union {"gone"}]
  BY <1>1 DEF OthersTyped
<1>4. \A y \in Layouts : u.lay[y] = WithoutWindow(t.lay[y], w)
  BY <1>2 DEF CleanedFacts
<1>5. ASSUME NEW y \in Layouts
      PROVE  /\ u.lay[y] \in [wins : Seq(Maybe(Windows)), focus : Nat] /\ w \notin ToSet(u.lay[y].wins)
             /\ ToSet(u.lay[y].wins) \subseteq ToSet(t.lay[y].wins) \union {None}
             /\ Saving(t.lay[y]) => Saving(u.lay[y])
  <2>1. t.lay[y] \in [wins : Seq(Maybe(Windows)), focus : Nat]
    BY <1>3
  <2>2. QED
    BY <1>4, <2>1, LayoutCleaned
<1>6. u.lay \in [Layouts -> [wins : Seq(Maybe(Windows)), focus : Nat]] /\ u.start \in [Overlays -> Maybe(Windows) \union {"gone"}]
  <2>1. u.lay = [y \in Layouts |-> u.lay[y]]
    BY <1>2 DEF CleanedFacts
  <2>2. u.start \in [Overlays -> Maybe(Windows) \union {"gone"}]
    BY <1>2, <1>3 DEF CleanedFacts
  <2>3. QED
    BY <1>5, <2>1, <2>2
<1>7. SameLayers(t, u) /\ u.display = None /\ u.fore = t.fore /\ u.flayer = t.flayer /\ u.dfore = t.dfore /\ u.dother = t.dother
  BY <1>2 DEF CleanedFacts
<1>8. u \in Screens
  <2>1. LayersTyped(u) /\ LooksTyped(u)
    BY <1>1, <1>2 DEF CleanedFacts, SameLayers, LayersTyped, LooksTyped
  <2>2. OthersTyped(u)
    BY <1>1, <1>2, <1>6 DEF CleanedFacts, SameLayers, OthersTyped, Maybe
  <2>3. Whole(u)
    BY <1>2 DEF CleanedFacts
  <2>4. QED
    BY <2>1, <2>2, <2>3, IsScreen
<1>9. /\ Existing(u) = Existing(t) /\ Alive(u) = Alive(t)
      /\ \A l : Layer2Window(u, l) = Layer2Window(t, l)
  BY <1>7, SameSound
<1>10. Core(u, None)
  <2>1. Points(u)
    BY <1>1, <1>7, <1>9 DEF Core, Points
  <2>2. QED
    BY <1>1, <1>7, <1>8, <2>1, SameSound
<1>11. \A c : Shows(u, c) = Shows(t, c)
  BY <1>7, <1>9 DEF Shows, SameLayers
<1>12. u.mru = t.mru /\ u.cl = t.cl /\ u.owner = t.owner
  BY <1>7 DEF SameLayers
<1>13. /\ u.displays = t.displays /\ u.cvs = t.cvs /\ u.forecv = t.forecv /\ u.dlayout = t.dlayout
       /\ u.layouts = t.layouts /\ u.last = t.last
  BY <1>2 DEF CleanedFacts
<1>14. LayoutsKept(u) /\ Filed(u)
  <2>1. LayoutsKept(t) /\ Filed(t)
    BY DEF Settled
  <2>2. \A y \in Layouts : ToSet(u.lay[y].wins) \subseteq Maybe(Existing(u))
    BY <1>5, <1>9, <2>1 DEF LayoutsKept, Maybe
  <2>3. ToSet(t.layouts) \subseteq Layouts
    <3>1. t.layouts \in Seq(Layouts)
      BY <1>1 DEF OthersTyped
    <3>2. QED
      BY <3>1, ListsJoined, ElementOfSeq, LenProperties DEF ToSet
  <2>4. \A y \in ToSet(u.layouts) : Saving(u.lay[y])
    BY <1>5, <1>13, <2>1, <2>3 DEF Filed
  <2>5. QED
    BY <1>13, <2>1, <2>2, <2>4 DEF LayoutsKept, Filed
<1>15. ASSUME NEW e \in Displays PROVE Region(u, e) /\ (e # None => Focused(u, e))
  <2>1. Region(u, e)
    BY <1>12, <1>13 DEF Settled, Region
  <2>2. Focused(t, e)
    BY Apart DEF Settled
  <2>3. QED
    BY <1>7, <1>11, <1>13, <2>1, <2>2 DEF Focused
<1>16. Settled(u, None, w)
  <2>1. ToSet(u.mru) = Existing(u) \ {w}
    BY <1>9, <1>12 DEF Settled
  <2>2. QED
    BY <1>10, <1>14, <1>15, <2>1 DEF Settled
<1>17. Shown(u)
  BY <1>12 DEF Shown
<1>18. QED
  BY <1>5, <1>7, <1>9, <1>11, <1>12, <1>13, <1>16, <1>17

-----------------------------------------------------------------------------
(* FreeWindow: nothing points to the window any more.                        *)

ForgetFacts(t, w, next, u) ==
  /\ SameLayers(t, u) /\ Framed(t, u) /\ Whole(u) /\ u.display = t.display /\ u.fore = t.fore /\ u.flayer = t.flayer
  /\ u.kind = t.kind /\ u.size = t.size
  /\ u.dfore = [d \in Displays |-> IF t.dfore[d] = w THEN None ELSE t.dfore[d]]
  /\ u.dother = [d \in Displays |-> IF t.dother[d] # w THEN t.dother[d]
                                    ELSE IF t.dfore[d] # None THEN After(t.mru, t.dfore[d]) ELSE next]

\* Forget, field by field.
LEMMA ForgetFields ==
  ASSUME NEW t \in Screens, NEW w, NEW next, NEW u, u = Forget(t, w, next)
  PROVE  ForgetFacts(t, w, next, u)
<1> DEFINE dfore == [d \in Displays |-> IF t.dfore[d] = w THEN None ELSE t.dfore[d]]
           dother == [d \in Displays |-> IF t.dother[d] # w THEN t.dother[d]
                                         ELSE IF t.dfore[d] # None THEN After(t.mru, t.dfore[d]) ELSE next]
<1>1. u = [t EXCEPT !.dother = dother, !.dfore = dfore]
  BY Zenon DEF Forget, Screens
<1> HIDE DEF dfore, dother
<1>2. u.dfore = dfore /\ u.dother = dother
  BY <1>1 DEF Screens
<1>3. SameLayers(t, u)
  BY <1>1 DEF Screens, SameLayers
<1>4. Framed(t, u)
  BY <1>1 DEF Screens, Framed
<1>5. u.display = t.display /\ u.fore = t.fore /\ u.flayer = t.flayer /\ u.kind = t.kind /\ u.size = t.size
  BY <1>1 DEF Screens
<1>6. Whole(u)
  BY <1>1 DEF Screens, Whole
<1>7. QED
  BY <1>2, <1>3, <1>4, <1>5, <1>6 DEF ForgetFacts, dfore, dother

\* No display points to the window that goes.
LEMMA ForgetSound ==
  ASSUME NEW t, NEW w \in Existing(t), Settled(t, None, w), \A c \in Canvases : Shows(t, c) # w,
         NEW next \in Maybe(Existing(t) \ {w}), NEW u, u = Forget(t, w, next)
  PROVE  /\ Core(u, None) /\ SameLayers(t, u) /\ Framed(t, u) /\ u.dfore = t.dfore /\ u.fore = t.fore /\ u.display = t.display
         /\ u.flayer = t.flayer
         /\ \A d \in Displays : /\ u.dother[d] \in Maybe(Existing(t) \ {w}) /\ u.dfore[d] \in Maybe(Existing(t) \ {w})
                                /\ d \notin ToSet(t.displays) => u.dother[d] = None
<1>1. t \in Screens /\ LayersTyped(t) /\ LooksTyped(t) /\ OthersTyped(t) /\ Core(t, None)
  BY SettledFew, Types
<1>2. ForgetFacts(t, w, next, u)
  BY <1>1, ForgetFields
<1>3. w # None /\ None \notin Existing(t)
  BY Apart DEF Existing
<1>4. ASSUME NEW d \in Displays PROVE t.dfore[d] # w /\ t.dfore[d] \in Maybe(Existing(t)) /\ t.dother[d] \in Maybe(Existing(t))
  <2>1. Focused(t, d)
    BY Apart DEF Settled
  <2>2. d \in ToSet(t.displays) => t.forecv[d] \in Canvases
    BY SettledOwner, Apart
  <2>3. t.dfore[d] # w
    BY <1>3, <2>1, <2>2 DEF Focused
  <2>4. QED
    BY <1>1, <2>3 DEF Core, Points
<1>5. u.dfore = t.dfore
  <2>1. t.dfore \in [Displays -> Maybe(Windows)] /\ u.dfore = [d \in Displays |-> IF t.dfore[d] = w THEN None ELSE t.dfore[d]]
    BY <1>1, <1>2 DEF OthersTyped, ForgetFacts
  <2>2. QED
    BY <1>4, <2>1
<1>6. ASSUME NEW d \in Displays PROVE u.dother[d] \in Maybe(Existing(t) \ {w}) /\ (d \notin ToSet(t.displays) => u.dother[d] = None)
  <2>1. u.dother[d] = IF t.dother[d] # w THEN t.dother[d] ELSE IF t.dfore[d] # None THEN After(t.mru, t.dfore[d]) ELSE next
    BY <1>2 DEF ForgetFacts
  <2>2. After(t.mru, t.dfore[d]) \in Maybe(Existing(t) \ {w})
    <3>1. t.mru \in Seq(Windows) /\ IsInjective(t.mru) /\ ToSet(t.mru) = Existing(t) \ {w}
      BY <1>1 DEF OthersTyped, Settled, Core, Listed
    <3>2. QED
      BY <3>1, AfterIs DEF Maybe
  <2>3. d \notin ToSet(t.displays) => t.dother[d] = None
    <3>1. Focused(t, d)
      BY Apart DEF Settled
    <3>2. QED
      BY <3>1 DEF Focused
  <2>4. QED
    BY <1>3, <1>4, <2>1, <2>2, <2>3 DEF Maybe
<1>7. SameLayers(t, u) /\ Framed(t, u) /\ u.display = t.display /\ u.fore = t.fore /\ u.flayer = t.flayer
  BY <1>2 DEF ForgetFacts
<1>8. u \in Screens
  <2>1. LayersTyped(u) /\ LooksTyped(u)
    BY <1>1, <1>2 DEF ForgetFacts, SameLayers, LayersTyped, LooksTyped
  <2>2. u.dother \in [Displays -> Maybe(Windows)]
    <3>1. \E f : u.dother = [d \in Displays |-> f[d]]
      <4>1. u.dother = [d \in Displays |-> IF t.dother[d] # w THEN t.dother[d]
                                    ELSE IF t.dfore[d] # None THEN After(t.mru, t.dfore[d]) ELSE next]
        BY <1>2 DEF ForgetFacts
      <4>2. u.dother = [d \in Displays |-> u.dother[d]]
        BY <4>1
      <4>3. QED
        BY <4>2
    <3>2. \A d \in Displays : u.dother[d] \in Maybe(Windows)
      BY <1>6 DEF Existing, Maybe
    <3>3. QED
      BY <3>1, <3>2
  <2>3. OthersTyped(u)
    BY <1>1, <1>5, <1>7, <2>2 DEF SameLayers, Framed, OthersTyped
  <2>4. QED
    BY <1>2, <2>1, <2>3, IsScreen DEF ForgetFacts
<1>9. /\ Existing(u) = Existing(t) /\ Alive(u) = Alive(t)
  BY <1>7, SameSound
<1>10. Points(u)
  BY <1>1, <1>5, <1>6, <1>7, <1>9 DEF Core, Points, Maybe
<1>11. Core(u, None)
  BY <1>1, <1>7, <1>8, <1>10, SameSound
<1>12. \A d \in Displays : u.dfore[d] \in Maybe(Existing(t) \ {w})
  BY <1>4, <1>5 DEF Maybe
<1>13. QED
  BY <1>5, <1>6, <1>7, <1>11, <1>12

\* The overlays on the window went.
Uncovered(t, w, u) ==
  /\ Core(u, None) /\ Calm(t, u) /\ Existing(u) = Existing(t) /\ u.save[w] = w
  /\ \A c \in Canvases : u.cl[c] = t.cl[c] /\ Shows(u, c) = Shows(t, c)
  /\ \A o \in OnOthers(u) : u.base[o] # w /\ u.below[o] # w
Unseen(t, w) == \A c \in Canvases : Shows(t, c) # w

\* The chain that is saved with a window nobody shows is freed.
LEMMA WindowBare ==
  ASSUME NEW t, NEW w \in Existing(t), Core(t, None), Unseen(t, w), NEW u, u = KillLayerChain(t, t.save[w])
  PROVE  Uncovered(t, w, u)
<1> DEFINE l == t.save[w]
<1>1. t \in Screens /\ LayersTyped(t) /\ w \in Windows /\ l \in Alive(t) /\ Bottom(t, l) = w /\ Ranked(t)
  BY Types DEF Core, Saved, Existing
<1>2. \A c \in Canvases : t.cl[c] # None => Bottom(t, t.cl[c]) # w
  BY <1>1, Apart DEF Unseen, Shows, Layer2Window
<1>3. l \in Layers /\ l # None
  BY <1>1, BottomAlive
<1>4. ASSUME Core(u, None), Calm(t, u), Existing(u) = Existing(t), u.save[w] = w,
             \A c \in Canvases : u.cl[c] = t.cl[c] /\ Shows(u, c) = Shows(t, c)
      PROVE  \A o \in OnOthers(u) : u.base[o] # w /\ u.below[o] # w
  <2>1. ASSUME NEW o \in OnOthers(u), u.base[o] = w PROVE FALSE
    <3>1. PICK x \in Overlays : x \in OnOthers(u) /\ Held(u, x) /\ u.base[x] = w
      BY <1>4, <2>1, HasTop
    <3>2. Bottom(u, x) = w
      BY <3>1 DEF Bottom, IsOverlay
    <3>3. ASSUME NEW c \in Canvases, u.cl[c] = x PROVE FALSE
      <4>1. Shows(u, c) = w
        BY <1>1, <3>2, <3>3 DEF Shows, Layer2Window
      <4>2. QED
        BY <1>4, <4>1 DEF Unseen
    <3>4. ASSUME NEW y \in Windows, u.save[y] = x PROVE FALSE
      <4>1. y \in Existing(u)
        BY <3>1, <3>4, Apart DEF Existing
      <4>2. Bottom(u, u.save[y]) = y
        BY <1>4, <4>1 DEF Core, Saved
      <4>3. x = w
        BY <1>4, <3>2, <3>4, <4>2
      <4>4. QED
        BY <1>1, <4>3, Apart
    <3>5. QED
      BY <3>1, <3>3, <3>4 DEF Held
  <2>2. ASSUME NEW o \in OnOthers(u), u.below[o] = w PROVE u.base[o] = w
    <3>1. u.base[o] = Bottom(u, u.below[o])
      BY <1>4 DEF Core, Based, OnOthers
    <3>2. w \notin Overlays
      BY <1>1, Apart
    <3>3. QED
      BY <2>2, <3>1, <3>2 DEF Bottom, IsOverlay
  <2>3. QED
    BY <2>1, <2>2
<1>5. CASE l \notin Overlays
  <2>1. u = t
    BY <1>1, <1>3, <1>5, KillNone DEF Maybe
  <2>2. l = w
    BY <1>1, <1>5 DEF Bottom, IsOverlay
  <2>3. Calm(t, u)
    BY <2>1 DEF Calm
  <2>4. QED
    BY <1>4, <2>1, <2>2, <2>3 DEF Uncovered
<1>6. CASE l \in Overlays
  <2>1. Top(t, l) /\ l \in OnOthers(t)
    BY <1>1, <1>6, HeldTop DEF Held
  <2>2. Bare(t, l)
    BY <1>1, <1>2, <1>3 DEF Bare
  <2>3. Core(t, l)
    BY KeptWeaker
  <2>4. Core(u, None) /\ Killed(t, l, u)
    BY <2>1, <2>2, <2>3, KillSound
  <2>5. Calm(t, u) /\ Existing(u) = Existing(t) /\ u.save[w] = w /\ \A c \in Canvases : u.cl[c] = t.cl[c]
    BY <1>1, <2>4 DEF Killed
  <2>6. ASSUME NEW c \in Canvases PROVE Shows(u, c) = Shows(t, c)
    <3>1. t.cl[c] \notin Under(t.below, l)
      BY <2>4 DEF Killed
    <3>2. t.cl[c] \in Overlays => u.base[t.cl[c]] = t.base[t.cl[c]]
      BY <2>4, <3>1 DEF Killed
    <3>3. QED
      BY <2>5, <3>2 DEF Shows, Layer2Window, Bottom, IsOverlay
  <2>7. QED
    BY <1>4, <2>4, <2>5, <2>6 DEF Uncovered
<1>7. QED
  BY <1>5, <1>6

FreedFacts(t, w, u) ==
  /\ u.cl = [c \in Canvases |-> IF c \in ToSet(t.on[w]) THEN c ELSE t.cl[c]]
  /\ u.on = [l \in Layers |-> IF l \in ToSet(t.on[w]) THEN <<l>> ELSE IF l = w THEN <<>> ELSE t.on[l]]
  /\ u.flayer = (IF t.flayer = w THEN None ELSE t.flayer) /\ u.save = [t.save EXCEPT ![w] = None]
  /\ u.blocked = [t.blocked EXCEPT ![w] = 0] /\ u.below = t.below /\ u.base = t.base /\ u.blocking = t.blocking
  /\ u.kind = t.kind /\ u.size = t.size /\ Calm(t, u) /\ Whole(u)

\* FreeWindow, field by field.
LEMMA FreedFields ==
  ASSUME NEW t \in Screens, NEW w \in Windows, NEW next, NEW a \in Screens, a = Forget(t, w, next), t.save[w] # None,
         NEW k \in Screens, k = KillLayerChain(a, t.save[w]), NEW u, u = FreeWindow(t, w, next)
  PROVE  FreedFacts(k, w, u)
<1> DEFINE cl == [c \in Canvases |-> IF c \in ToSet(k.on[w]) THEN c ELSE k.cl[c]]
           on == [l \in Layers |-> IF l \in ToSet(k.on[w]) THEN <<l>> ELSE IF l = w THEN <<>> ELSE k.on[l]]
           flayer == IF k.flayer = w THEN None ELSE k.flayer
           save == [k.save EXCEPT ![w] = None]
           blocked == [k.blocked EXCEPT ![w] = 0]
<1>1. u = [k EXCEPT !.cl = cl, !.on = on, !.flayer = flayer, !.save = save, !.blocked = blocked]
  <2>1. u = [k EXCEPT !.cl = [c \in Canvases |-> IF c \in ToSet(k.on[w]) THEN c ELSE @[c]],
                 !.on = [l \in Layers |-> IF l \in ToSet(k.on[w]) THEN <<l>>
                                            ELSE IF l = w THEN <<>> ELSE @[l]],
                 !.flayer = IF @ = w THEN None ELSE @, !.save[w] = None, !.blocked[w] = 0]
    BY Zenon DEF FreeWindow, With
  <2>2. QED
    BY <2>1, Zenon DEF Screens
<1> HIDE DEF cl, on, flayer, save, blocked
<1>2. u.cl = cl /\ u.on = on /\ u.flayer = flayer /\ u.save = save /\ u.blocked = blocked
  BY <1>1 DEF Screens
<1>3. u.below = k.below /\ u.base = k.base /\ u.blocking = k.blocking /\ u.kind = k.kind /\ u.size = k.size
  BY <1>1 DEF Screens
<1>4. Calm(k, u)
  BY <1>1 DEF Screens, Calm
<1>5. Whole(u)
  BY <1>1 DEF Screens, Whole
<1>6. QED
  BY <1>2, <1>3, <1>4, <1>5 DEF FreedFacts, cl, on, flayer, save, blocked

\* A window to which nothing points can be freed.
LEMMA FreedSound ==
  ASSUME NEW t, NEW w \in Existing(t), Core(t, None), t.save[w] = w, \A c \in Canvases : Shows(t, c) # w,
         \A o \in OnOthers(t) : t.base[o] # w /\ t.below[o] # w, t.fore # w, w \notin ToSet(t.mru),
         \A d \in Displays : t.dfore[d] # w /\ t.dother[d] # w,
         NEW u, FreedFacts(t, w, u)
  PROVE  /\ Core(u, None) /\ Existing(u) = Existing(t) \ {w} /\ u.cl = t.cl /\ Calm(t, u)
         /\ \A c \in Canvases : Shows(u, c) = Shows(t, c)
<1>1. t \in Screens /\ LayersTyped(t) /\ LooksTyped(t) /\ OthersTyped(t) /\ w \in Windows /\ w \in Layers /\ w # None
  BY Types, Apart DEF Core, Existing, Layers
<1>2. t.on \in [Layers -> Seq(Canvases)] /\ t.cl \in [Canvases -> Maybe(Layers)] /\ t.save \in [Windows -> Maybe(Layers)]
      /\ t.blocked \in [Windows -> 0 .. 2]
  BY <1>1 DEF LayersTyped
<1>3. \A c \in Canvases : t.cl[c] # w
  BY <1>1, Apart DEF Shows, Layer2Window, Bottom, IsOverlay
<1>4. ToSet(t.on[w]) = {} /\ t.on[w] = <<>>
  <2>1. ToSet(t.on[w]) = {}
    BY <1>1, <1>3 DEF Core, Lists, ListsOf
  <2>2. t.on[w] \in Seq(Canvases)
    BY <1>1, <1>2
  <2>3. Len(t.on[w]) = 0
    <3>1. Len(t.on[w]) \in Nat /\ DOMAIN t.on[w] = 1 .. Len(t.on[w])
      BY <2>2, LenProperties
    <3>2. 1 \notin DOMAIN t.on[w]
      BY <2>1 DEF ToSet
    <3>3. QED
      BY <3>1, <3>2
  <2>4. QED
    BY <2>1, <2>2, <2>3, EmptySeq
<1>5. u.cl = t.cl /\ u.on = t.on
  <2>1. u.cl = [c \in Canvases |-> t.cl[c]]
    BY <1>4 DEF FreedFacts
  <2>2. u.on = [l \in Layers |-> IF l = w THEN <<>> ELSE t.on[l]]
    BY <1>4 DEF FreedFacts
  <2>3. u.on = [l \in Layers |-> t.on[l]]
    BY <1>4, <2>2
  <2>4. QED
    BY <1>2, <2>1, <2>3
<1>6. Calm(t, u) /\ u.below = t.below /\ u.base = t.base /\ u.blocking = t.blocking /\ u.owner = t.owner /\ u.mru = t.mru
  BY DEF FreedFacts, Calm
<1>7. \A y \in Windows : u.save[y] = (IF y = w THEN None ELSE t.save[y]) /\ u.blocked[y] = (IF y = w THEN 0 ELSE t.blocked[y])
  BY <1>1, <1>2 DEF FreedFacts
<1>8. u \in Screens
  <2>1. u.save \in [Windows -> Maybe(Layers)] /\ u.blocked \in [Windows -> 0 .. 2] /\ u.flayer \in Maybe(Layers)
    BY <1>1, <1>2 DEF FreedFacts, Maybe, LayersTyped
  <2>2. LayersTyped(u) /\ LooksTyped(u)
    BY <1>1, <1>5, <1>6, <2>1 DEF LayersTyped, LooksTyped, FreedFacts
  <2>3. OthersTyped(u)
    BY <1>1, <1>6, CalmType
  <2>4. QED
    BY <2>2, <2>3, IsScreen DEF FreedFacts
<1>9. /\ OnOthers(u) = OnOthers(t) /\ Owned(u) = Owned(t) /\ Existing(u) = Existing(t) \ {w}
      /\ \A l : Bottom(u, l) = Bottom(t, l)
      /\ \A l : (Bare(u, l) <=> Bare(t, l)) /\ (Top(u, l) <=> Top(t, l))
  BY <1>5, <1>6, <1>7 DEF OnOthers, Owned, Existing, Bottom, Bare, Top
<1>10. \A l \in Alive(t) : l # w => l \in Alive(u)
  BY <1>9 DEF Alive
<1>11. \A c \in Canvases : Shows(u, c) = Shows(t, c)
  BY <1>5, <1>9 DEF Shows, Layer2Window
<1>12. Lists(u) /\ Ranked(u)
  BY <1>5, <1>6 DEF Core, Lists, Ranked
<1>13. Homes(u)
  <2>1. \A c \in Canvases : t.cl[c] # None =>
           t.cl[c] \in Alive(t) /\ t.owner[c] # None /\ (Bottom(t, t.cl[c]) \in Windows \/ Bottom(t, t.cl[c]) = c)
    BY DEF Core, Homes
  <2>2. QED
    BY <1>3, <1>5, <1>6, <1>9, <1>10, <2>1 DEF Homes
<1>14. Based(u)
  <2>1. \A o \in Overlays :
          /\ t.below[o] = None => t.base[o] = None /\ o \notin t.blocking
          /\ t.below[o] # None => /\ t.below[o] \in Alive(t) /\ t.base[o] = Bottom(t, t.below[o])
                                  /\ t.base[o] \in Existing(t) \union Owned(t)
    BY DEF Core, Based
  <2>2. \A o \in Overlays : t.below[o] # None => t.below[o] # w /\ t.base[o] # w
    BY DEF OnOthers
  <2>3. QED
    BY <1>6, <1>9, <1>10, <2>1, <2>2 DEF Based
<1>15. Covered(u)
  <2>1. \A o \in OnOthers(t) : t.below[o] # None
    BY DEF OnOthers
  <2>2. Covered(t)
    BY DEF Core
  <2>3. QED
    BY <1>6, <1>7, <1>9, <2>1, <2>2 DEF Covered
<1>16. Kept(u, None)
  <2>1. \A o \in OnOthers(t) : o # w /\ o # None
    BY <1>1, Apart DEF OnOthers
  <2>2. Kept(t, None)
    BY DEF Core
  <2>3. ASSUME NEW o \in OnOthers(t), NEW y \in Windows, t.save[y] = o PROVE u.save[y] = o
    BY <1>7, <2>1, <2>3
  <2>4. QED
    BY <1>6, <1>9, <2>1, <2>2, <2>3 DEF Kept
<1>17. Saved(u)
  <2>1. ASSUME NEW y \in Existing(u) PROVE u.save[y] \in Alive(u) /\ Bottom(u, u.save[y]) = y
    <3>1. y \in Existing(t) /\ y # w /\ y \in Windows
      BY <1>9 DEF Existing
    <3>2. u.save[y] = t.save[y] /\ t.save[y] \in Alive(t) /\ Bottom(t, t.save[y]) = y
      BY <1>7, <3>1 DEF Core, Saved
    <3>3. t.save[y] # w
      BY <1>1, <3>1, <3>2, Apart DEF Bottom, IsOverlay
    <3>4. QED
      BY <1>9, <1>10, <3>2, <3>3
  <2>2. QED
    BY <2>1 DEF Saved
<1>18. Blocks(u)
  <2>1. Blocks(t) /\ Based(t)
    BY DEF Core
  <2>2. \A o \in t.blocking : t.below[o] # w
    <3>1. \A o \in t.blocking : o \in Overlays
      BY <1>1 DEF LayersTyped
    <3>2. QED
      BY <2>1, <3>1 DEF Based, OnOthers
  <2>3. ASSUME NEW y \in Windows, y = w
        PROVE  /\ u.blocked[y] \in {0, 1} /\ (u.blocked[y] = 0 => \A o \in u.blocking : u.below[o] # y) /\ u.blocked[y] # 1
               /\ \A o \in u.blocking : u.below[o] # y
    BY <1>6, <1>7, <2>2, <2>3
  <2>4. ASSUME NEW y \in Windows, y # w
        PROVE  u.blocked[y] = t.blocked[y] /\ u.save[y] = t.save[y]
    BY <1>7, <2>4
  <2>5. QED
    BY <1>6, <1>9, <2>1, <2>3, <2>4 DEF Blocks
<1>19. Points(u)
  <2>1. Points(t)
    BY DEF Core
  <2>2. u.fore = t.fore /\ u.dfore = t.dfore /\ u.dother = t.dother
    BY <1>6 DEF Calm
  <2>3. u.fore \in Maybe(Existing(u))
    BY <1>9, <2>1, <2>2 DEF Points, Maybe
  <2>4. \A d \in Displays : u.dfore[d] \in Maybe(Existing(u)) /\ u.dother[d] \in Maybe(Existing(u))
    BY <1>9, <2>1, <2>2 DEF Points, Maybe
  <2>5. u.flayer \in Maybe(Alive(u))
    <3>1. u.flayer = IF t.flayer = w THEN None ELSE t.flayer
      BY DEF FreedFacts
    <3>2. QED
      BY <1>10, <2>1, <3>1 DEF Points, Maybe
  <2>6. QED
    BY <2>3, <2>4, <2>5 DEF Points
<1>20. Listed(u)
  BY <1>6, <1>9 DEF Core, Listed
<1>21. Core(u, None)
  BY <1>8, <1>12, <1>13, <1>14, <1>15, <1>16, <1>17, <1>18, <1>19, <1>20 DEF Core
<1>22. QED
  BY <1>5, <1>6, <1>9, <1>11, <1>21

\* A window that no display shows goes.
LEMMA FreeWindowSound ==
  ASSUME NEW t, NEW w \in Existing(t), Settled(t, None, w), Shown(t), \A c \in Canvases : Shows(t, c) # w, t.fore # w,
         \A y \in Layouts : w \notin ToSet(t.lay[y].wins), NEW next \in Maybe(Existing(t) \ {w}),
         NEW u, u = FreeWindow(t, w, next)
  PROVE  /\ Settled(u, None, None) /\ Shown(u) /\ Existing(u) = Existing(t) \ {w} /\ u.fore = t.fore
         /\ u.dfore = t.dfore /\ u.displays = t.displays /\ u.cvs = t.cvs
         /\ \A c \in Canvases : Shows(u, c) = Shows(t, c)
<1>1. PICK a : a = Forget(t, w, next)
  OBVIOUS
<1>2. /\ Core(a, None) /\ SameLayers(t, a) /\ Framed(t, a) /\ a.dfore = t.dfore /\ a.fore = t.fore /\ a.display = t.display
      /\ \A d \in Displays : /\ a.dother[d] \in Maybe(Existing(t) \ {w}) /\ a.dfore[d] \in Maybe(Existing(t) \ {w})
                             /\ d \notin ToSet(t.displays) => a.dother[d] = None
  BY <1>1, ForgetSound
<1>3. PICK k : k = KillLayerChain(a, t.save[w])
  OBVIOUS
<1>4. /\ Existing(a) = Existing(t) /\ a.save = t.save /\ a.cl = t.cl /\ a.mru = t.mru /\ a.owner = t.owner
      /\ \A c : Shows(a, c) = Shows(t, c)
  <2>1. Existing(a) = Existing(t) /\ \A l : Layer2Window(a, l) = Layer2Window(t, l)
    BY <1>2, SameSound
  <2>2. QED
    BY <1>2, <2>1 DEF SameLayers, Shows
<1>5. /\ Core(k, None) /\ Calm(a, k) /\ Existing(k) = Existing(t) /\ k.save[w] = w
      /\ \A c \in Canvases : k.cl[c] = t.cl[c] /\ Shows(k, c) = Shows(t, c)
      /\ \A o \in OnOthers(k) : k.base[o] # w /\ k.below[o] # w
  <2>1. Core(a, None) /\ w \in Existing(a) /\ k = KillLayerChain(a, a.save[w]) /\ Unseen(a, w)
    BY <1>2, <1>3, <1>4 DEF Unseen
  <2>2. Uncovered(a, w, k)
    BY <2>1, WindowBare
  <2>3. QED
    BY <1>4, <2>2 DEF Uncovered
<1>6. t \in Screens /\ a \in Screens /\ k \in Screens /\ w \in Windows /\ t.save[w] # None /\ w # None
  BY <1>2, <1>5, SettledFew, Apart DEF Core, Existing
<1>7. FreedFacts(k, w, u)
  BY <1>1, <1>3, <1>4, <1>6, FreedFields
<1>8. k.fore = t.fore /\ k.dfore = t.dfore /\ k.dother = a.dother /\ k.mru = t.mru
  BY <1>2, <1>4, <1>5 DEF Calm
<1>9. w \notin ToSet(k.mru) /\ \A d \in Displays : k.dfore[d] # w /\ k.dother[d] # w
  BY <1>2, <1>6, <1>8 DEF Settled, Maybe
<1>10. /\ Core(u, None) /\ Existing(u) = Existing(t) \ {w} /\ u.cl = k.cl /\ Calm(k, u)
       /\ \A c \in Canvases : Shows(u, c) = Shows(k, c)
  BY <1>5, <1>7, <1>8, <1>9, FreedSound
<1>11. Calm(a, u) /\ u.mru = t.mru /\ u.fore = t.fore /\ u.dfore = t.dfore /\ u.dother = a.dother
  BY <1>4, <1>5, <1>8, <1>10, CalmRefl DEF Calm
<1>12. Framed(t, u)
  BY <1>2, <1>11 DEF Framed, Calm
<1>13. \A c \in Canvases : Shows(u, c) = Shows(t, c) /\ u.cl[c] = t.cl[c]
  BY <1>5, <1>10
<1>14. LayoutsKept(u) /\ Filed(u)
  <2>1. LayoutsKept(t) /\ Filed(t) /\ u.lay = t.lay
    BY <1>12 DEF Settled, Framed
  <2>2. \A y \in Layouts : ToSet(u.lay[y].wins) \subseteq Maybe(Existing(u))
    BY <1>10, <2>1 DEF LayoutsKept, Maybe
  <2>3. QED
    BY <1>12, <2>1, <2>2 DEF LayoutsKept, Filed, Framed
<1>15. ASSUME NEW e \in Displays PROVE Region(u, e) /\ (e # None => Focused(u, e))
  <2>1. Region(u, e)
    BY <1>12 DEF Settled, Region, Framed
  <2>2. Focused(t, e)
    BY Apart DEF Settled
  <2>3. e \in ToSet(t.displays) => t.forecv[e] \in Canvases
    BY SettledOwner, Apart
  <2>4. u.displays = t.displays /\ u.cvs = t.cvs /\ u.forecv = t.forecv /\ u.dlayout = t.dlayout
    BY <1>12 DEF Framed
  <2>5. QED
    BY <1>2, <1>11, <1>13, <2>1, <2>2, <2>3, <2>4 DEF Focused
<1>16. ToSet(u.mru) = Existing(u) \ {None}
  <2>1. None \notin Existing(u) /\ ToSet(t.mru) = Existing(t) \ {w}
    BY Apart DEF Existing, Settled
  <2>2. QED
    BY <1>10, <1>11, <2>1
<1>17. Settled(u, None, None)
  BY <1>10, <1>14, <1>15, <1>16 DEF Settled
<1>18. Shown(u) /\ u.displays = t.displays /\ u.cvs = t.cvs
  BY <1>12, <1>13 DEF Shown, Framed
<1>19. QED
  BY <1>10, <1>11, <1>13, <1>17, <1>18

\* What KillWindow leaves behind.
Kills(t, w, u) ==
  /\ Fine(u) /\ Existing(u) = Existing(t) \ {w} /\ u.displays = t.displays /\ u.cvs = t.cvs
  /\ \A d \in ToSet(t.displays) : Dealt(t, u, w, d)

\* KillWindow: the window goes, and who showed it shows another.
LEMMA KillWindowSound ==
  ASSUME NEW t, Fine(t), NEW w \in Existing(t), NEW u, u = KillWindow(t, w)
  PROVE  Kills(t, w, u)
<1>1. t \in Screens /\ Settled(t, None, None) /\ Shown(t) /\ ForeSeen(t) /\ w \in Windows /\ w # None
  BY SettledFew, Apart DEF Fine, Existing
<1>2. PICK a : a = [t EXCEPT !.mru = RemoveFirst(@, w)]
  OBVIOUS
<1>3. /\ Settled(a, None, w) /\ Shown(a) /\ ForeSeen(a) /\ Framed(t, a) /\ Existing(a) = Existing(t)
      /\ \A c : Shows(a, c) = Shows(t, c)
  BY <1>1, <1>2, LessWindow
<1>4. PICK b : b = ReplacedRound(a, w)
  OBVIOUS
<1>5. Around(a, b, w, ToSet(a.displays))
  BY <1>1, <1>3, <1>4, AroundAll
<1>6. PICK k : k = Cleaned(b, w)
  OBVIOUS
<1>7. Settled(b, None, w) /\ Shown(b) /\ ForeSeen(b) /\ Framed(a, b) /\ Existing(b) = Existing(t)
  BY <1>3, <1>5 DEF Around
<1>8. /\ Settled(k, None, w) /\ Shown(k) /\ k.fore = b.fore /\ Existing(k) = Existing(b)
      /\ k.displays = b.displays /\ k.cvs = b.cvs /\ k.owner = b.owner /\ k.dfore = b.dfore
      /\ \A c : Shows(k, c) = Shows(b, c)
      /\ \A y \in Layouts : w \notin ToSet(k.lay[y].wins)
  BY <1>1, <1>6, <1>7, CleanedSound
<1>9. u = FreeWindow(k, w, After(t.mru, w))
  BY <1>1, <1>2, <1>4, <1>6, KillIs
<1>10. /\ b.displays = t.displays /\ b.cvs = t.cvs /\ a.displays = t.displays /\ a.cvs = t.cvs
       /\ k.displays = t.displays /\ k.cvs = t.cvs /\ Existing(k) = Existing(t)
  BY <1>3, <1>7, <1>8 DEF Framed
<1>11. ASSUME NEW d \in ToSet(t.displays) PROVE d \in Displays /\ Dealt(a, b, w, d)
  <2>1. t.displays \in Seq(Displays)
    BY <1>1, Types DEF OthersTyped
  <2>2. d \in Displays
    BY <1>11, <2>1, ElementOfSeq, LenProperties DEF ToSet
  <2>3. QED
    BY <1>5, <1>10, <1>11, <2>2 DEF Around
<1>12. ASSUME NEW c \in Canvases PROVE Shows(k, c) # w
  <2>1. CASE k.cl[c] = None
    BY <1>1, <2>1, Apart DEF Shows, Layer2Window, Bottom, IsOverlay
  <2>2. CASE k.cl[c] # None
    <3>1. k.owner[c] # None /\ k.owner \in [Canvases -> Maybe(Displays)]
      BY <1>8, <2>2, Types DEF Settled, Core, Homes, OthersTyped
    <3>2. PICK d \in Displays : d = k.owner[c]
      BY <3>1 DEF Maybe
    <3>3. c \in ToSet(t.cvs[d])
      BY <1>8, <1>10, <3>2, SettledOwner
    <3>4. d \in ToSet(t.displays)
      <4>1. Focused(k, d)
        BY <1>8, Apart DEF Settled
      <4>2. t.cvs[d] # <<>>
        BY <3>3 DEF ToSet
      <4>3. QED
        BY <1>10, <4>1, <4>2 DEF Focused
    <3>5. Shows(b, c) # w
      BY <1>10, <1>11, <3>3, <3>4 DEF Dealt
    <3>6. QED
      BY <1>8, <3>5
  <2>3. QED
    BY <2>1, <2>2
<1>13. k.fore # w
  <2>1. CASE b.fore = None
    BY <1>1, <1>8, <2>1
  <2>2. CASE b.fore # None
    <3>1. PICK d \in ToSet(b.displays) : d \in Displays /\ b.dfore[d] = b.fore
      BY <1>7, <2>2 DEF ForeSeen
    <3>2. k.forecv[d] \in Canvases /\ k.dfore[d] = Shows(k, k.forecv[d])
      BY <1>8, <3>1, FineFocus, Apart
    <3>3. QED
      BY <1>8, <1>12, <3>1, <3>2
  <2>3. QED
    BY <2>1, <2>2
<1>14. After(t.mru, w) \in Maybe(Existing(k) \ {w})
  <2>1. t.mru \in Seq(Windows) /\ IsInjective(t.mru) /\ ToSet(t.mru) \subseteq Existing(t)
    BY <1>1, Types DEF OthersTyped, Settled, Core, Listed
  <2>2. QED
    BY <1>10, <2>1, AfterIs DEF Maybe
<1>15. /\ Settled(u, None, None) /\ Shown(u) /\ Existing(u) = Existing(t) \ {w} /\ u.fore = k.fore
       /\ u.dfore = k.dfore /\ u.displays = t.displays /\ u.cvs = t.cvs
       /\ \A c \in Canvases : Shows(u, c) = Shows(k, c)
  BY <1>8, <1>9, <1>10, <1>12, <1>13, <1>14, FreeWindowSound
<1>16. ForeSeen(u)
  BY <1>7, <1>8, <1>10, <1>15 DEF ForeSeen
<1>17. ASSUME NEW d \in ToSet(t.displays) PROVE Dealt(t, u, w, d)
  <2>1. d \in Displays /\ Dealt(a, b, w, d)
    BY <1>11
  <2>2. \A c \in ToSet(t.cvs[d]) : c \in Canvases
    BY <1>1, <2>1, SettledOwner
  <2>3. \A c \in ToSet(t.cvs[d]) : Shows(u, c) = Shows(b, c)
    BY <1>8, <1>15, <2>2
  <2>4. QED
    BY <1>3, <1>10, <2>1, <2>3 DEF Dealt
<1>18. QED
  BY <1>15, <1>16, <1>17 DEF Kills, Fine

-----------------------------------------------------------------------------
(* FreeCanvas.                                                               *)

CutOff(t, d, cv) == [t EXCEPT !.forecv[d] = IF @ = cv THEN None ELSE @, !.cvs[d] = RemoveFirst(@, cv)]
Blanked(t, cv) ==
  [t EXCEPT !.flayer = IF @ = t.cl[cv] THEN None ELSE @, !.cl[cv] = None, !.on[cv] = <<>>, !.owner[cv] = None]

\* What no canvas comes into.
Beside(t, u) ==
  /\ u.start = t.start /\ u.displays = t.displays /\ u.dlayout = t.dlayout /\ u.layouts = t.layouts /\ u.lay = t.lay
  /\ u.last = t.last /\ u.detachwin = t.detachwin /\ u.detachotherwin = t.detachotherwin
Pointers(t, u) ==
  /\ u.mru = t.mru /\ u.dfore = t.dfore /\ u.dother = t.dother /\ u.display = t.display /\ u.fore = t.fore

\* Two steps that keep to the canvases of one display do so together.
LEMMA BesideJoins ==
  ASSUME NEW t, NEW u, NEW v, Beside(t, u), Beside(u, v)
  PROVE  Beside(t, v)
BY DEF Beside

CutFacts(t, d, cv, u) ==
  /\ u.forecv = [t.forecv EXCEPT ![d] = IF t.forecv[d] = cv THEN None ELSE t.forecv[d]]
  /\ u.cvs = [t.cvs EXCEPT ![d] = RemoveFirst(t.cvs[d], cv)]
  /\ SameLayers(t, u) /\ Beside(t, u) /\ Pointers(t, u) /\ u.flayer = t.flayer /\ u.kind = t.kind /\ u.size = t.size
  /\ Whole(u)

\* A canvas leaves the list of its display, field by field.
LEMMA CutFields ==
  ASSUME NEW t \in Screens, NEW d \in Displays, NEW cv, NEW u, u = CutOff(t, d, cv)
  PROVE  CutFacts(t, d, cv, u)
<1> DEFINE forecv == [t.forecv EXCEPT ![d] = IF t.forecv[d] = cv THEN None ELSE t.forecv[d]]
           cvs == [t.cvs EXCEPT ![d] = RemoveFirst(t.cvs[d], cv)]
<1>1. u = [t EXCEPT !.forecv = forecv, !.cvs = cvs]
  BY DEF CutOff, Screens
<1> HIDE DEF forecv, cvs
<1>2. u.forecv = forecv /\ u.cvs = cvs
  BY <1>1 DEF Screens
<1>3. SameLayers(t, u)
  BY <1>1 DEF Screens, SameLayers
<1>4. Beside(t, u)
  BY <1>1 DEF Screens, Beside
<1>5. Pointers(t, u) /\ u.flayer = t.flayer /\ u.kind = t.kind /\ u.size = t.size
  BY <1>1 DEF Screens, Pointers
<1>6. Whole(u)
  BY <1>1 DEF Screens, Whole
<1>7. QED
  BY <1>2, <1>3, <1>4, <1>5, <1>6 DEF CutFacts, forecv, cvs

BlankedFacts(t, cv, u) ==
  /\ u.flayer = (IF t.flayer = t.cl[cv] THEN None ELSE t.flayer)
  /\ u.cl = [t.cl EXCEPT ![cv] = None] /\ u.on = [t.on EXCEPT ![cv] = <<>>] /\ u.owner = [t.owner EXCEPT ![cv] = None]
  /\ u.below = t.below /\ u.base = t.base /\ u.blocking = t.blocking /\ u.save = t.save /\ u.blocked = t.blocked
  /\ u.kind = t.kind /\ u.size = t.size /\ u.cvs = t.cvs /\ u.forecv = t.forecv
  /\ Beside(t, u) /\ Pointers(t, u) /\ Whole(u)

\* A canvas is freed, field by field.
LEMMA BlankedFields ==
  ASSUME NEW t \in Screens, NEW cv, NEW u, u = Blanked(t, cv)
  PROVE  BlankedFacts(t, cv, u)
<1> DEFINE flayer == IF t.flayer = t.cl[cv] THEN None ELSE t.flayer
           cl == [t.cl EXCEPT ![cv] = None]
           on == [t.on EXCEPT ![cv] = <<>>]
           owner == [t.owner EXCEPT ![cv] = None]
<1>1. u = [t EXCEPT !.flayer = flayer, !.cl = cl, !.on = on, !.owner = owner]
  BY DEF Blanked, Screens
<1> HIDE DEF flayer, cl, on, owner
<1>2. u.flayer = flayer /\ u.cl = cl /\ u.on = on /\ u.owner = owner
  BY <1>1 DEF Screens
<1>3. u.below = t.below /\ u.base = t.base /\ u.blocking = t.blocking /\ u.save = t.save /\ u.blocked = t.blocked
  BY <1>1 DEF Screens
<1>4. u.kind = t.kind /\ u.size = t.size /\ u.cvs = t.cvs /\ u.forecv = t.forecv
  BY <1>1 DEF Screens
<1>5. Beside(t, u)
  BY <1>1 DEF Screens, Beside
<1>6. Pointers(t, u)
  BY <1>1 DEF Screens, Pointers
<1>7. Whole(u)
  BY <1>1 DEF Screens, Whole
<1>8. QED
  BY <1>2, <1>3, <1>4, <1>5, <1>6, <1>7 DEF BlankedFacts, flayer, cl, on, owner

\* FreeCanvas, in named steps.
LEMMA FreeCanvasIs ==
  ASSUME NEW t, NEW d \in Displays, t.display = d, NEW cv
  PROVE  FreeCanvas(t, cv) = Blanked(SetCanvasWindow(CutOff(t, d, cv), cv, None), cv)
<1>1. d # None
  BY Apart
<1>2. [t EXCEPT !.forecv[t.display] = IF @ = cv THEN None ELSE @, !.cvs[t.display] = RemoveFirst(@, cv)] = CutOff(t, d, cv)
  BY DEF CutOff
<1>3. FreeCanvas(t, cv) =
        Blanked(SetCanvasWindow(IF t.display = None THEN t
           ELSE [t EXCEPT !.forecv[t.display] = IF @ = cv THEN None ELSE @, !.cvs[t.display] = RemoveFirst(@, cv)], cv, None), cv)
  BY Zenon DEF FreeCanvas, With, Blanked
<1>4. QED
  BY <1>1, <1>2, <1>3, Zenon

\* A canvas leaves the list of its display.
LEMMA CutSound ==
  ASSUME NEW t, Core(t, None), NEW d \in Displays, NEW cv \in Canvases, NEW u, u = CutOff(t, d, cv), IsInjective(t.cvs[d])
  PROVE  Core(u, None) /\ CutFacts(t, d, cv, u) /\ Existing(u) = Existing(t) /\ \A c : Shows(u, c) = Shows(t, c)
<1>1. t \in Screens /\ LayersTyped(t) /\ LooksTyped(t) /\ OthersTyped(t)
  BY Types DEF Core
<1>2. CutFacts(t, d, cv, u)
  BY <1>1, CutFields
<1>3. SameLayers(t, u)
  BY <1>2 DEF CutFacts
<1>4. u \in Screens
  <2>1. LayersTyped(u) /\ LooksTyped(u)
    BY <1>1, <1>2 DEF CutFacts, SameLayers, LayersTyped, LooksTyped
  <2>2. t.cvs \in [Displays -> Seq(Canvases)] /\ t.forecv \in [Displays -> Maybe(Canvases)]
    BY <1>1 DEF OthersTyped
  <2>3. RemoveFirst(t.cvs[d], cv) \in Seq(Canvases)
    BY <2>2, RemovedIs
  <2>4. u.cvs \in [Displays -> Seq(Canvases)] /\ u.forecv \in [Displays -> Maybe(Canvases)]
    <3>1. u.cvs = [t.cvs EXCEPT ![d] = RemoveFirst(t.cvs[d], cv)]
          /\ u.forecv = [t.forecv EXCEPT ![d] = IF t.forecv[d] = cv THEN None ELSE t.forecv[d]]
      BY <1>2 DEF CutFacts
    <3>2. (IF t.forecv[d] = cv THEN None ELSE t.forecv[d]) \in Maybe(Canvases)
      BY <2>2 DEF Maybe
    <3>3. QED
      BY <2>2, <2>3, <3>1, <3>2
  <2>5. OthersTyped(u)
    BY <1>1, <1>2, <2>4 DEF CutFacts, SameLayers, Beside, Pointers, OthersTyped
  <2>6. QED
    BY <1>2, <2>1, <2>5, IsScreen DEF CutFacts
<1>5. /\ Existing(u) = Existing(t) /\ Alive(u) = Alive(t)
      /\ \A l : Layer2Window(u, l) = Layer2Window(t, l)
  BY <1>3, SameSound
<1>6. Points(u)
  BY <1>2, <1>5 DEF Core, Points, CutFacts, Pointers
<1>7. Core(u, None)
  BY <1>3, <1>4, <1>6, SameSound
<1>8. \A c : Shows(u, c) = Shows(t, c)
  BY <1>3, <1>5 DEF Shows, SameLayers
<1>9. QED
  BY <1>2, <1>5, <1>7, <1>8

\* The canvas that shows only its own blank layer goes.
LEMMA BlankedSound ==
  ASSUME NEW t, Core(t, None), NEW cv \in Canvases, t.cl[cv] = cv, NEW u, BlankedFacts(t, cv, u)
  PROVE  /\ Core(u, None) /\ Existing(u) = Existing(t) /\ OnOthers(u) = OnOthers(t) /\ u.cl[cv] = None
         /\ \A c \in Canvases : u.owner[c] = IF c = cv THEN None ELSE t.owner[c]
         /\ \A c \in Canvases : c # cv => u.cl[c] = t.cl[c] /\ Shows(u, c) = Shows(t, c)
<1>1. /\ t \in Screens /\ LayersTyped(t) /\ LooksTyped(t) /\ OthersTyped(t)
      /\ cv \in Layers /\ cv # None /\ cv \notin Overlays /\ cv \notin Windows
  BY Types, Apart DEF Core, Layers
<1>2. t.on \in [Layers -> Seq(Canvases)] /\ t.cl \in [Canvases -> Maybe(Layers)] /\ t.owner \in [Canvases -> Maybe(Displays)]
  BY <1>1 DEF LayersTyped, OthersTyped
<1>3. \A c \in Canvases : t.cl[c] = cv => c = cv
  BY <1>1 DEF Core, Homes, Bottom, IsOverlay
<1>4. /\ \A c \in Canvases : u.cl[c] = IF c = cv THEN None ELSE t.cl[c]
      /\ \A c \in Canvases : u.owner[c] = IF c = cv THEN None ELSE t.owner[c]
      /\ \A l \in Layers : u.on[l] = IF l = cv THEN <<>> ELSE t.on[l]
  BY <1>1, <1>2 DEF BlankedFacts
<1>5. /\ u.below = t.below /\ u.base = t.base /\ u.blocking = t.blocking /\ u.save = t.save /\ u.blocked = t.blocked
      /\ u.mru = t.mru /\ u.fore = t.fore /\ u.dfore = t.dfore /\ u.dother = t.dother
  BY DEF BlankedFacts, Pointers
<1>6. u \in Screens
  <2>1. u.cl \in [Canvases -> Maybe(Layers)] /\ u.owner \in [Canvases -> Maybe(Displays)]
    BY <1>2 DEF BlankedFacts, Maybe
  <2>2. u.on \in [Layers -> Seq(Canvases)]
    <3>1. <<>> \in Seq(Canvases)
      BY EmptySeq
    <3>2. QED
      BY <1>2, <3>1 DEF BlankedFacts
  <2>3. u.flayer \in Maybe(Layers)
    BY <1>1 DEF BlankedFacts, LayersTyped, Maybe
  <2>4. LayersTyped(u)
    BY <1>1, <1>5, <2>1, <2>2, <2>3 DEF LayersTyped
  <2>5. LooksTyped(u) /\ OthersTyped(u) /\ Whole(u)
    BY <1>1, <2>1 DEF LooksTyped, OthersTyped, BlankedFacts, Beside, Pointers
  <2>6. QED
    BY <2>4, <2>5, IsScreen
<1>7. /\ Existing(u) = Existing(t) /\ OnOthers(u) = OnOthers(t) /\ Owned(u) = Owned(t) \ {cv}
      /\ \A l : Bottom(u, l) = Bottom(t, l) /\ Layer2Window(u, l) = Layer2Window(t, l)
      /\ \A l : Top(u, l) <=> Top(t, l)
  BY <1>4, <1>5 DEF Existing, OnOthers, Owned, Bottom, Layer2Window, Top
<1>8. \A l : l # cv /\ l \in Alive(t) => l \in Alive(u)
  BY <1>7 DEF Alive
<1>9. \A l : l # cv /\ l # None => (Bare(u, l) <=> Bare(t, l))
  BY <1>3, <1>4 DEF Bare
<1>10. ASSUME NEW o \in OnOthers(t) PROVE t.base[o] # cv /\ t.below[o] # cv
  <2>1. ASSUME t.base[o] = cv PROVE FALSE
    <3>1. PICK x \in Overlays : x \in OnOthers(t) /\ Held(t, x) /\ t.base[x] = cv
      BY <1>10, <2>1, HasTop
    <3>2. Bottom(t, x) = cv /\ x # None
      BY <1>1, <3>1, Apart DEF Bottom, IsOverlay
    <3>3. ASSUME NEW c \in Canvases, t.cl[c] = x PROVE FALSE
      <4>1. c = cv
        BY <1>1, <3>2, <3>3 DEF Core, Homes
      <4>2. QED
        BY <1>1, <3>1, <3>3, <4>1
    <3>4. ASSUME NEW y \in Windows, t.save[y] = x PROVE FALSE
      BY <1>1, <3>2, <3>4 DEF Core, Saved, Existing
    <3>5. QED
      BY <3>1, <3>3, <3>4 DEF Held
  <2>2. t.base[o] = Bottom(t, t.below[o])
    BY <1>10 DEF Core, Based, OnOthers
  <2>3. QED
    BY <1>1, <2>1, <2>2 DEF Bottom, IsOverlay
<1>11. Lists(u)
  <2>1. \A l \in Layers : IsInjective(t.on[l]) /\ ToSet(t.on[l]) = {c \in Canvases : t.cl[c] = l}
    BY DEF Core, Lists, ListsOf
  <2>2. ASSUME NEW l \in Layers, l # cv PROVE IsInjective(u.on[l]) /\ ToSet(u.on[l]) = {c \in Canvases : u.cl[c] = l}
    <3>1. l # None
      BY Apart
    <3>2. \A c \in Canvases : u.cl[c] = l <=> t.cl[c] = l
      BY <1>4, <2>2, <3>1
    <3>3. u.on[l] = t.on[l]
      BY <1>4, <2>2
    <3>4. QED
      BY <2>1, <3>2, <3>3
  <2>3. IsInjective(u.on[cv]) /\ ToSet(u.on[cv]) = {c \in Canvases : u.cl[c] = cv}
    <3>1. u.on[cv] = <<>>
      BY <1>1, <1>4
    <3>2. IsInjective(<<>>) /\ ToSet(<<>>) = {}
      BY DEF IsInjective, ToSet
    <3>3. \A c \in Canvases : u.cl[c] # cv
      BY <1>1, <1>3, <1>4
    <3>4. QED
      BY <3>1, <3>2, <3>3
  <2>4. QED
    BY <2>2, <2>3 DEF Lists, ListsOf
<1>12. Homes(u)
  <2>1. ASSUME NEW c \in Canvases, u.cl[c] # None
        PROVE  u.cl[c] \in Alive(u) /\ u.owner[c] # None /\ (Bottom(u, u.cl[c]) \in Windows \/ Bottom(u, u.cl[c]) = c)
    <3>1. c # cv /\ u.cl[c] = t.cl[c] /\ u.owner[c] = t.owner[c] /\ t.cl[c] # cv
      BY <1>3, <1>4, <2>1
    <3>2. t.cl[c] \in Alive(t) /\ t.owner[c] # None /\ (Bottom(t, t.cl[c]) \in Windows \/ Bottom(t, t.cl[c]) = c)
      BY <2>1, <3>1 DEF Core, Homes
    <3>3. QED
      BY <1>7, <1>8, <3>1, <3>2
  <2>2. QED
    BY <2>1 DEF Homes
<1>13. Ranked(u)
  BY <1>5 DEF Core, Ranked
<1>14. Based(u)
  <2>1. \A o \in Overlays :
          /\ t.below[o] = None => t.base[o] = None /\ o \notin t.blocking
          /\ t.below[o] # None => /\ t.below[o] \in Alive(t) /\ t.base[o] = Bottom(t, t.below[o])
                                  /\ t.base[o] \in Existing(t) \union Owned(t)
    BY DEF Core, Based
  <2>2. \A o \in Overlays : t.below[o] # None => t.below[o] # cv /\ t.base[o] # cv
    BY <1>10 DEF OnOthers
  <2>3. QED
    BY <1>5, <1>7, <1>8, <2>1, <2>2 DEF Based
<1>15. Covered(u)
  <2>1. \A o \in OnOthers(t) : t.below[o] # None /\ t.below[o] # cv
    BY <1>10 DEF OnOthers
  <2>2. Covered(t)
    BY DEF Core
  <2>3. QED
    BY <1>5, <1>7, <1>9, <2>1, <2>2 DEF Covered
<1>16. Kept(u, None)
  <2>1. \A o \in OnOthers(t) : o # cv /\ o # None
    BY <1>1, Apart DEF OnOthers
  <2>2. Kept(t, None)
    BY DEF Core
  <2>3. QED
    BY <1>5, <1>7, <1>9, <2>1, <2>2 DEF Kept
<1>17. Saved(u)
  <2>1. ASSUME NEW y \in Existing(u) PROVE u.save[y] \in Alive(u) /\ Bottom(u, u.save[y]) = y
    <3>1. y \in Existing(t) /\ y \in Windows
      BY <1>7, <2>1 DEF Existing
    <3>2. u.save[y] = t.save[y] /\ t.save[y] \in Alive(t) /\ Bottom(t, t.save[y]) = y
      BY <1>5, <3>1 DEF Core, Saved
    <3>3. t.save[y] # cv
      BY <1>1, <3>1, <3>2 DEF Bottom, IsOverlay
    <3>4. QED
      BY <1>7, <1>8, <3>2, <3>3
  <2>2. QED
    BY <2>1 DEF Saved
<1>18. Blocks(u)
  <2>1. Blocks(t)
    BY DEF Core
  <2>2. \A y \in Windows : y # cv /\ y # None /\ (Bare(u, y) <=> Bare(t, y))
    BY <1>1, <1>9, Apart
  <2>3. QED
    BY <1>5, <2>1, <2>2 DEF Blocks
<1>19. Points(u)
  <2>1. Points(t)
    BY DEF Core
  <2>2. u.flayer \in Maybe(Alive(u))
    <3>1. u.flayer = IF t.flayer = cv THEN None ELSE t.flayer
      BY DEF BlankedFacts
    <3>2. QED
      BY <1>8, <2>1, <3>1 DEF Points, Maybe
  <2>3. QED
    BY <1>5, <1>7, <2>1, <2>2 DEF Points
<1>20. Listed(u)
  BY <1>5, <1>7 DEF Core, Listed
<1>21. Core(u, None)
  BY <1>6, <1>11, <1>12, <1>13, <1>14, <1>15, <1>16, <1>17, <1>18, <1>19, <1>20 DEF Core
<1>22. \A c \in Canvases : c # cv => u.cl[c] = t.cl[c] /\ Shows(u, c) = Shows(t, c)
  BY <1>4, <1>7 DEF Shows
<1>23. u.cl[cv] = None
  BY <1>4
<1>24. QED
  BY <1>4, <1>7, <1>21, <1>22, <1>23

\* Removing an element does not make a list longer.
LEMMA ShorterIs ==
  ASSUME NEW S, NEW q \in Seq(S), IsInjective(q), NEW x
  PROVE  Len(RemoveFirst(q, x)) <= Len(q)
<1>1. Len(q) \in Nat
  BY LenProperties
<1>2. CASE x \in ToSet(q)
  BY <1>1, <1>2, ListRemoved
<1>3. CASE x \notin ToSet(q)
  <2>1. \A i \in 1 .. Len(q) : q[i] # x
    BY <1>3, LenProperties DEF ToSet
  <2>2. QED
    BY <1>1, <2>1, ListUnchanged
<1>4. QED
  BY <1>2, <1>3

\* A canvas of the display d goes; what other canvases show stays.
FreedCanvas(t, d, cv, u) ==
  /\ Settled(u, d, None) /\ (Shown(t) => Shown(u)) /\ Aside(t, u, d) /\ Beside(t, u)
  /\ u.display = d /\ u.fore = t.fore /\ Existing(u) = Existing(t) /\ OnOthers(u) \subseteq OnOthers(t)
  /\ u.cvs[d] = RemoveFirst(t.cvs[d], cv) /\ u.forecv[d] = (IF t.forecv[d] = cv THEN None ELSE t.forecv[d])
  /\ \A c \in Canvases : u.owner[c] = IF c = cv THEN None ELSE t.owner[c]
  /\ \A c \in Canvases : c # cv => u.cl[c] = t.cl[c] /\ Shows(u, c) = Shows(t, c)
  /\ \A e \in Displays : u.dfore[e] = t.dfore[e]

\* FreeCanvas frees the canvas, and no other display changes.
LEMMA FreeCanvasSound ==
  ASSUME NEW t, NEW d \in Displays, Settled(t, d, None), t.display = d, NEW cv \in Canvases, t.owner[cv] = d,
         NEW u, u = FreeCanvas(t, cv)
  PROVE  FreedCanvas(t, d, cv, u)
<1>1. /\ t \in Screens /\ OthersTyped(t) /\ Core(t, None) /\ d # None /\ cv # None /\ IsInjective(t.cvs[d])
      /\ t.cvs \in [Displays -> Seq(Canvases)] /\ t.forecv \in [Displays -> Maybe(Canvases)]
  <2>1. t \in Screens /\ Core(t, None)
    BY SettledFew
  <2>2. OthersTyped(t)
    BY <2>1, Types
  <2>3. IsInjective(t.cvs[d])
    BY DEF Settled, Region
  <2>4. t.cvs \in [Displays -> Seq(Canvases)] /\ t.forecv \in [Displays -> Maybe(Canvases)]
    BY <2>2 DEF OthersTyped
  <2>5. QED
    BY <2>1, <2>2, <2>3, <2>4, Apart
<1>2. PICK a : a = CutOff(t, d, cv)
  OBVIOUS
<1>3. Core(a, None) /\ CutFacts(t, d, cv, a) /\ Existing(a) = Existing(t) /\ \A c : Shows(a, c) = Shows(t, c)
  BY <1>1, <1>2, CutSound
<1>4. /\ a.forecv = [t.forecv EXCEPT ![d] = IF t.forecv[d] = cv THEN None ELSE t.forecv[d]]
      /\ a.cvs = [t.cvs EXCEPT ![d] = RemoveFirst(t.cvs[d], cv)]
      /\ SameLayers(t, a) /\ Beside(t, a) /\ Pointers(t, a)
  BY <1>3 DEF CutFacts
<1>5. PICK v : v = SetCanvasWindow(a, cv, None)
  OBVIOUS
<1>6. a.owner = t.owner /\ a.cl = t.cl /\ a.mru = t.mru /\ OnOthers(a) = OnOthers(t)
  BY <1>4, SameSound DEF SameLayers
<1>7. Core(v, None) /\ Placed(a, d, cv, None, v)
  <2>1. d = a.owner[cv] /\ None \in Maybe(Existing(a))
    BY <1>6 DEF Maybe
  <2>2. QED
    BY <1>3, <1>5, <2>1, SetSound
<1>8. a.forecv[d] # cv
  BY <1>1, <1>4
<1>9. /\ Framed(a, v) /\ v.display = d /\ Existing(v) = Existing(t) /\ OnOthers(v) \subseteq OnOthers(t)
      /\ v.cl[cv] = cv /\ v.fore = t.fore
      /\ \A c \in Canvases : c # cv => v.cl[c] = t.cl[c] /\ Shows(v, c) = Shows(t, c)
      /\ \A e \in Displays : v.dfore[e] = t.dfore[e]
      /\ \A y : y \in ToSet(v.mru) <=> y \in ToSet(t.mru)
  BY <1>3, <1>4, <1>6, <1>7, <1>8 DEF Placed, Pointers
<1>10. \A e \in Displays : v.dother[e] = t.dother[e]
  <2>1. \A e \in Displays : v.dother[e] = IF e = d THEN OtherThen(a, d, cv, None) ELSE a.dother[e]
    BY <1>7 DEF Placed
  <2>2. OtherThen(a, d, cv, None) = a.dother[d]
    BY <1>8 DEF OtherThen
  <2>3. QED
    BY <1>4, <2>1, <2>2 DEF Pointers
<1>11. u = Blanked(v, cv) /\ v \in Screens
  BY <1>2, <1>5, <1>7, FreeCanvasIs DEF Core
<1>12. BlankedFacts(v, cv, u)
  BY <1>11, BlankedFields
<1>13. /\ Core(u, None) /\ Existing(u) = Existing(v) /\ OnOthers(u) = OnOthers(v)
       /\ \A c \in Canvases : u.owner[c] = IF c = cv THEN None ELSE v.owner[c]
       /\ \A c \in Canvases : c # cv => u.cl[c] = v.cl[c] /\ Shows(u, c) = Shows(v, c)
  BY <1>7, <1>9, <1>12, BlankedSound
<1>14. /\ Pointers(v, u) /\ u.cvs = v.cvs /\ u.forecv = v.forecv /\ Beside(v, u)
  BY <1>12 DEF BlankedFacts
<1>15. v.owner = t.owner /\ v.cvs = a.cvs /\ v.forecv = a.forecv /\ Beside(a, v)
  BY <1>6, <1>9 DEF Framed, Beside
<1>16. Beside(t, u)
  BY <1>4, <1>14, <1>15, BesideJoins
<1>17. /\ u.cvs[d] = RemoveFirst(t.cvs[d], cv) /\ u.forecv[d] = (IF t.forecv[d] = cv THEN None ELSE t.forecv[d])
       /\ \A e \in Displays : e # d => u.cvs[e] = t.cvs[e] /\ u.forecv[e] = t.forecv[e]
  BY <1>1, <1>4, <1>14, <1>15
<1>18. /\ \A c \in Canvases : u.owner[c] = IF c = cv THEN None ELSE t.owner[c]
       /\ \A c \in Canvases : c # cv => u.cl[c] = t.cl[c] /\ Shows(u, c) = Shows(t, c)
  BY <1>9, <1>13, <1>15
<1>19. /\ u.display = d /\ u.fore = t.fore /\ Existing(u) = Existing(t) /\ OnOthers(u) \subseteq OnOthers(t)
       /\ \A e \in Displays : u.dfore[e] = t.dfore[e] /\ u.dother[e] = t.dother[e]
  BY <1>9, <1>10, <1>13, <1>14 DEF Pointers
<1>20. Aside(t, u, d)
  BY <1>17, <1>18 DEF Aside
<1>21. ASSUME Shown(t) PROVE Shown(u)
  BY <1>18, <1>21 DEF Shown
<1>22. LayoutsKept(u)
  BY <1>16, <1>19 DEF Settled, LayoutsKept, Beside
<1>23. ToSet(u.mru) = Existing(u) \ {None}
  <2>1. ToSet(t.mru) = Existing(t) \ {None} /\ u.mru = v.mru
    BY <1>14 DEF Settled, Pointers
  <2>2. QED
    BY <1>9, <1>19, <2>1
<1>24. ASSUME NEW e \in Displays PROVE Region(u, e)
  <2>1. Region(t, e)
    BY DEF Settled
  <2>2. CASE e # d
    <3>1. ToSet(t.cvs[e]) = {c \in Canvases : t.owner[c] = e}
      BY <2>1 DEF Region
    <3>2. \A c \in Canvases : u.owner[c] = e <=> t.owner[c] = e
      BY <1>18, <2>2, Apart
    <3>3. QED
      BY <1>17, <2>1, <2>2, <3>1, <3>2 DEF Region
  <2>3. CASE e = d
    <3>1. t.cvs[d] \in Seq(Canvases)
      BY <1>1
    <3>2. /\ RemoveFirst(t.cvs[d], cv) \in Seq(Canvases) /\ IsInjective(RemoveFirst(t.cvs[d], cv))
          /\ \A y : y \in ToSet(RemoveFirst(t.cvs[d], cv)) <=> y \in ToSet(t.cvs[d]) /\ y # cv
      BY <1>1, <3>1, RemovedIs
    <3>3. Len(RemoveFirst(t.cvs[d], cv)) <= Len(t.cvs[d])
      BY <1>1, <3>1, ShorterIs
    <3>4. Len(t.cvs[d]) \in Nat /\ Len(RemoveFirst(t.cvs[d], cv)) \in Nat /\ MaxRegions \in Nat /\ Len(t.cvs[d]) <= MaxRegions
      BY <2>1, <2>3, <3>1, <3>2, LenProperties, WindowsAssumption DEF Region
    <3>5. \A y : y \in ToSet(t.cvs[d]) <=> y \in Canvases /\ t.owner[y] = d
      BY SettledOwner
    <3>6. ToSet(u.cvs[d]) = {c \in Canvases : u.owner[c] = d}
      <4>1. \A y : y \in ToSet(u.cvs[d]) <=> y \in ToSet(t.cvs[d]) /\ y # cv
        BY <1>17, <3>2
      <4>2. \A y \in Canvases : u.owner[y] = d <=> t.owner[y] = d /\ y # cv
        BY <1>1, <1>18
      <4>3. QED
        BY <3>5, <4>1, <4>2
    <3>7. QED
      BY <1>17, <2>3, <3>2, <3>3, <3>4, <3>6 DEF Region
  <2>4. QED
    BY <2>2, <2>3
<1>25. ASSUME NEW e \in Displays, e # d PROVE Focused(u, e)
  <2>1. Focused(t, e) /\ u.displays = t.displays /\ u.dlayout = t.dlayout
    BY <1>16, <1>25 DEF Settled, Beside
  <2>2. e \in ToSet(t.displays) => t.forecv[e] \in Canvases /\ t.owner[t.forecv[e]] = e
    BY <1>25, SettledOwner
  <2>3. e \in ToSet(t.displays) => Shows(u, t.forecv[e]) = Shows(t, t.forecv[e])
    BY <1>18, <1>25, <2>2
  <2>4. QED
    BY <1>17, <1>19, <1>25, <2>1, <2>3 DEF Focused
<1>26. Settled(u, d, None)
  BY <1>1, <1>13, <1>22, <1>23, <1>24, <1>25 DEF Settled
<1>27. QED
  BY <1>16, <1>17, <1>18, <1>19, <1>20, <1>21, <1>26 DEF FreedCanvas


\* The canvases in C went.
FreedSome(t, d, u, C) ==
  /\ Settled(u, d, None) /\ (Shown(t) => Shown(u)) /\ Aside(t, u, d) /\ Beside(t, u)
  /\ u.display = d /\ u.fore = t.fore /\ Existing(u) = Existing(t) /\ OnOthers(u) \subseteq OnOthers(t)
  /\ t.forecv[d] \notin C => u.forecv[d] = t.forecv[d]
  /\ \A c \in Canvases : u.owner[c] = IF c \in C THEN None ELSE t.owner[c]
  /\ \A c \in Canvases : c \notin C => u.cl[c] = t.cl[c] /\ Shows(u, c) = Shows(t, c)
  /\ \A e \in Displays : u.dfore[e] = t.dfore[e]

\* One more canvas is freed.
LEMMA FreeStep ==
  ASSUME NEW t, NEW d \in Displays, NEW C, NEW v, FreedSome(t, d, v, C), NEW c \in Canvases, c \notin C, t.owner[c] = d,
         NEW u, u = FreeCanvas(v, c)
  PROVE  FreedSome(t, d, u, C \union {c})
<1>1. /\ Settled(v, d, None) /\ (Shown(t) => Shown(v)) /\ Aside(t, v, d) /\ Beside(t, v) /\ v.display = d /\ v.fore = t.fore
      /\ Existing(v) = Existing(t) /\ OnOthers(v) \subseteq OnOthers(t) /\ v.owner[c] = d
  BY DEF FreedSome
<1>2. FreedCanvas(v, d, c, u)
  BY <1>1, FreeCanvasSound
<1>3. /\ Settled(u, d, None) /\ (Shown(t) => Shown(u)) /\ u.display = d /\ u.fore = t.fore /\ Existing(u) = Existing(t)
      /\ OnOthers(u) \subseteq OnOthers(t)
  BY <1>1, <1>2 DEF FreedCanvas
<1>4. Aside(t, u, d) /\ Beside(t, u)
  BY <1>1, <1>2, AsideJoins, BesideJoins DEF FreedCanvas
<1>5. t.forecv[d] \notin C \union {c} => u.forecv[d] = t.forecv[d]
  BY <1>2 DEF FreedCanvas, FreedSome
<1>6. \A x \in Canvases : u.owner[x] = IF x \in C \union {c} THEN None ELSE t.owner[x]
  BY <1>2 DEF FreedCanvas, FreedSome
<1>7. \A x \in Canvases : x \notin C \union {c} => u.cl[x] = t.cl[x] /\ Shows(u, x) = Shows(t, x)
  BY <1>2 DEF FreedCanvas, FreedSome
<1>8. \A e \in Displays : u.dfore[e] = t.dfore[e]
  BY <1>2 DEF FreedCanvas, FreedSome
<1>9. QED
  BY <1>3, <1>4, <1>5, <1>6, <1>7, <1>8 DEF FreedSome

\* All canvases of d went, but for one.
Others(t, d, keep) == {c \in Canvases : t.owner[c] = d /\ c # keep}

\* All canvases of a display but one are freed.
LEMMA FreeOthersSound ==
  ASSUME NEW t, NEW d \in Displays, Settled(t, d, None), t.display = d, NEW keep, NEW u, u = FreeOthers(t, d, keep)
  PROVE  FreedSome(t, d, u, Others(t, d, keep))
<1> DEFINE q == t.cvs[d]
           n == Len(q)
           S == [k \in 0 .. n |-> {v \in Screens : FreedSome(t, d, v, Begins(q, k) \ {keep})}]
<1>1. n \in Nat /\ DOMAIN q = 1 .. n /\ \A i, j \in 1 .. n : q[i] = q[j] => i = j
  <2>1. q \in Seq(Canvases)
    BY SettledOwner
  <2>2. IsInjective(q)
    BY DEF Settled, Region
  <2>3. QED
    BY <2>1, <2>2, LenProperties DEF IsInjective
<1>2. u = AllFrees(keep, t, q)
  BY DEF FreeOthers, Frees, AllFrees, FoldLeft, MapThenFoldSet, Max
<1>3. Others(t, d, keep) = Begins(q, n) \ {keep}
  <2>1. ToSet(q) = Begins(q, n)
    BY <1>1 DEF ToSet, Begins
  <2>2. \A c : c \in ToSet(q) <=> c \in Canvases /\ t.owner[c] = d
    BY SettledOwner
  <2>3. QED
    BY <2>1, <2>2 DEF Others
<1>4. t \in Screens
  BY SettledFew
<1> HIDE DEF q
<1>5. t \in S[0]
  <2>1. Begins(q, 0) = {}
    BY DEF Begins
  <2>2. FreedSome(t, d, t, {})
    BY DEF FreedSome, Aside, Beside
  <2>3. FreedSome(t, d, t, Begins(q, 0) \ {keep})
    BY <2>1, <2>2
  <2>4. QED
    BY <1>1, <1>4, <2>3
<1>6. ASSUME NEW k \in 1 .. n, NEW v \in S[k - 1] PROVE Frees(keep, v, q[k]) \in S[k]
  <2>1. FreedSome(t, d, v, Begins(q, k - 1) \ {keep}) /\ v \in Screens
    BY <1>1
  <2>2. Begins(q, k) = Begins(q, k - 1) \union {q[k]} /\ q[k] \notin Begins(q, k - 1)
    BY <1>1 DEF Begins
  <2>3. q[k] \in Canvases /\ t.owner[q[k]] = d
    <3>1. q[k] \in ToSet(t.cvs[d])
      BY <1>1 DEF q, ToSet
    <3>2. QED
      BY <3>1, SettledOwner
  <2> HIDE DEF S
  <2>4. CASE q[k] = keep
    <3>1. Begins(q, k) \ {keep} = Begins(q, k - 1) \ {keep}
      BY <2>2, <2>4
    <3>2. FreedSome(t, d, v, Begins(q, k) \ {keep})
      BY <2>1, <3>1, Zenon
    <3>3. QED
      BY <1>1, <2>1, <2>4, <3>2 DEF S, Frees
  <2>5. CASE q[k] # keep
    <3>1. Begins(q, k) \ {keep} = (Begins(q, k - 1) \ {keep}) \union {q[k]} /\ q[k] \notin Begins(q, k - 1) \ {keep}
      BY <2>2, <2>5
    <3>2. PICK x : x = FreeCanvas(v, q[k])
      OBVIOUS
    <3>3. FreedSome(t, d, x, (Begins(q, k - 1) \ {keep}) \union {q[k]})
      BY <2>1, <2>3, <3>1, <3>2, FreeStep
    <3>4. FreedSome(t, d, x, Begins(q, k) \ {keep})
      BY <3>1, <3>3, Zenon
    <3>5. x \in Screens
      BY <3>4, SettledFew DEF FreedSome
    <3>6. QED
      BY <1>1, <2>5, <3>2, <3>4, <3>5 DEF S, Frees
  <2>6. QED
    BY <2>4, <2>5
<1> HIDE DEF n, S
<1>7. u \in S[n]
  BY <1>1, <1>2, <1>5, <1>6, FreesKeep DEF n
<1>8. FreedSome(t, d, u, Begins(q, n) \ {keep})
  BY <1>1, <1>7 DEF S
<1>9. QED
  BY <1>3, <1>8, Zenon
=============================================================================
