----------------------------- MODULE Combining -----------------------------
(***************************************************************************)
(* The table of combined characters (utf8_handle_comb of encoding.c).  A   *)
(* cell holds 16 bits, so a character with a combining mark is an entry of *)
(* a table: the character before (which may be an entry as well) and the   *)
(* mark.  Part of the table is for characters of two cells.  The entries   *)
(* of each part that are in use form a list, the freshest one first; when  *)
(* the part is full the last entry of its list is used again.              *)
(***************************************************************************)
EXTENDS Naturals, Sequences, SequencesExt

CONSTANTS
  Wide,     \* characters of two cells (no entry is: utf8_isdouble does not know them)
  Singles,  \* the entries for other characters, in the order of their codes
  Doubles,  \* the entries for characters of two cells
  Unknown   \* "?"

Roots == {"single", "double"}
Entries == ToSet(Singles) \union ToSet(Doubles)

\* assumed of the constants where the table is used
CombiningAssumption ==
  /\ Singles \in Seq(Entries) \ {<<>>} /\ Doubles \in Seq(Entries)
  /\ ToSet(Singles) \intersect ToSet(Doubles) = {}
  /\ Entries \intersect (Wide \union Roots \union {Unknown}) = {}

Part(root) == IF root = "double" THEN Doubles ELSE Singles
Free == <<>>
NoCombinations ==
  [cc |-> [i \in Entries \union Roots |-> Free],  \* <<c1, c2>>
   lru |-> [root \in Roots |-> <<>>]]

IsEntry(c) == c \in Entries
InUse(t, c) == IsEntry(c) => t.cc[c] # Free

ToFront(list, i) == <<i>> \o RemoveFirst(list, i)
Relink(t, root, i) ==
  [t EXCEPT !.lru = [r \in Roots |-> IF r = root THEN ToFront(@[r], i) ELSE RemoveFirst(@[r], i)]]

\* the entry goes to the front of the list, then what it combines, and so on
\* down; v.i is the one whose turn it is
Bring(v, k) ==
  IF IsEntry(v.i)
  THEN [v EXCEPT !.table = Relink(@, v.root, v.i), !.i = v.table.cc[v.i][1]] ELSE v
ToFrontAlone(t, root, i) == Relink(t, root, i)  \* what it combines stays behind
comb_tofront(t, root, i) ==
  FoldLeft(Bring, [table |-> t, root |-> root, i |-> i], Singles \o Doubles).table

\* the entry to use: one that is free or the same, or else the last one of the
\* list.  The list has a head (the root), which follows its last entry
Fitting(t, root, pair) == SelectInSeq(Part(root), LAMBDA i : t.cc[i] \in {Free, pair})
Oldest(t, root) == IF t.lru[root] = <<>> THEN root ELSE Last(t.lru[root])

\* the table and the cell after mark c was combined with what is in cell c1
Combined(t, root, i, pair) ==  \* in entry i
  LET set == [t EXCEPT !.cc[i] = pair]
  IN [table |-> IF IsEntry(i) THEN comb_tofront(set, root, i) ELSE set, cell |-> i]
Recycled(t, root, i, pair) ==  \* the entry used is not the one that is combined
  IF i = pair[1] THEN [table |-> t, cell |-> Unknown] ELSE Combined(t, root, i, pair)
Recycle(t, root, pair) == Recycled(t, root, Oldest(t, root), pair)
utf8_handle_comb(t, c, c1) ==
  LET root == IF c1 \in Wide THEN "double" ELSE "single"
      fitting == Fitting(t, root, <<c1, c>>)
  IN IF fitting # 0 THEN Combined(t, root, Part(root)[fitting], <<c1, c>>)
     ELSE Recycle(IF IsEntry(c1) THEN comb_tofront(t, root, c1) ELSE t, root, <<c1, c>>)

\* Every combined character is made of a character and of marks: no entries are
\* made of each other only.  AddUtf8 and ToUtf8_comb, which follow the table
\* down, come to an end
Grounded(t) == \A S \in SUBSET Entries :
  S # {} => \E i \in S : t.cc[i] = Free \/ t.cc[i][1] \notin S
\* The head of a list is no entry: it keeps the bounds of its part
\* ("completely full, can't recycle" is noticed before the head is reached)
HeadKept(t, root) == t.cc[root] = Free
=============================================================================
