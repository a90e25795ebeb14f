------------------------------- MODULE Lines -------------------------------
(***************************************************************************)
(* The text of a window: the lines of its screen and of its scrollback,    *)
(* what is written to them (the M... functions of ansi.c), and how they    *)
(* are wrapped anew when the window changes its size (resize.c).           *)
(*                                                                         *)
(* A window is a record here; the functions that change one are operators  *)
(* from records to records.  Only what is in a cell matters: renditions    *)
(* and fonts are left out, and the encoding is UTF-8.  Columns and rows    *)
(* count from 0, as they do in the code.                                   *)
(***************************************************************************)
EXTENDS Integers, Sequences, FiniteSets, SequencesExt

CONSTANTS
  Wide,   \* characters that take two cells
  Right,  \* the right half of such a character
  Blank

Least(a, b) == IF a < b THEN a ELSE b
Most(a, b) == IF a > b THEN a ELSE b
Tuple(f) == <<>> \o f  \* f itself, evaluated: TLC loses updates of a function it has not evaluated
\* LET y == x IN F(y); TLC's coverage expands a LET at each of its uses
With(x, F(_)) == F(x)
Blanks(n) == Tuple([i \in 1 .. n |-> Blank])

-----------------------------------------------------------------------------
(* A line: its cells, and whether the next line continues it               *)

BlankLine(n) == [c |-> Blanks(n), soft |-> FALSE]
BlankLines(n, width) == Tuple([i \in 1 .. n |-> BlankLine(width)])
Put(l, x, ch) == [l EXCEPT !.c[x + 1] = ch]
Erase(l, xs, xe) ==  \* clear_mline
  [l EXCEPT !.c = Tuple([i \in DOMAIN @ |-> IF i \in xs + 1 .. xe + 1 THEN Blank ELSE @[i]])]
InsertBlanks(l, x, n) ==
  [l EXCEPT !.c = SubSeq(@, 1, x) \o Blanks(n) \o SubSeq(@, x + 1, Len(@) - n)]
DeleteCells(l, x, n) ==
  [l EXCEPT !.c = SubSeq(@, 1, x) \o SubSeq(@, x + n + 1, Len(@)) \o Blanks(n)]

\* dw_left, dw_right
IsRight(l, x) == l.c[x + 1] = Right
IsLeft(l, x) == x + 1 < Len(l.c) /\ l.c[x + 2] = Right

\* MKillDwRight, MKillDwLeft: half of a character is overwritten
KillDwRight(l, x) == IF IsRight(l, x) THEN Erase(l, x - 1, x) ELSE l
KillDwLeft(l, x) == IF IsLeft(l, x) THEN Erase(l, x, x + 1) ELSE l

-----------------------------------------------------------------------------
(* Writing into a window                                                   *)

Line(t, y) == t.ml[y + 1]

MPutChar(t, ch, x, y) ==
  LET written(l) == IF ch \in Wide THEN Put(KillDwLeft(l, x + 1), x + 1, Right) ELSE l
  IN [t EXCEPT !.ml[y + 1] = written(Put(KillDwLeft(KillDwRight(@, x), x), x, ch))]

MInsChar(t, ch, x, y) ==
  LET last == t.width - 1
      shift(l, at, c) == Put(InsertBlanks(KillDwRight(l, last), at, 1), at, c)
      right(l) == IF ch \notin Wide THEN l
                  ELSE IF x + 1 < last THEN shift(l, x + 1, Right) ELSE Put(l, x + 1, Right)
  IN [t EXCEPT !.ml[y + 1] = With(shift(KillDwRight(@, x), x, ch), right)]

\* WAddLineToHist, for the lines lost at the top
ToHistory(t, lines) ==
  LET h == t.hist \o lines
  IN [t EXCEPT !.hist = SubSeq(h, Len(h) - Len(@) + 1, Len(h))]

\* n > 0: up; n < 0: down
MScrollV(t, n, ys, ye) ==
  LET m == Least(IF n < 0 THEN -n ELSE n, ye - ys + 1)
      region == SubSeq(t.ml, ys + 1, ye + 1)
      new == BlankLines(m, t.width)
      moved == IF n > 0 THEN SubSeq(region, m + 1, Len(region)) \o new
                        ELSE new \o SubSeq(region, 1, Len(region) - m)
  IN [(IF n > 0 /\ ys = t.top THEN ToHistory(t, SubSeq(region, 1, m)) ELSE t)
      EXCEPT !.ml = SubSeq(@, 1, ys) \o moved \o SubSeq(@, ye + 2, Len(@))]

\* n > 0: to the left; n < 0: to the right
MScrollH(t, n, y, xs) ==
  LET last == t.width - 1
      m == Least(IF n < 0 THEN -n ELSE n, last - xs + 1)
      edge(l) == IF m > last - xs THEN l ELSE IF n > 0 THEN KillDwRight(l, xs + m) ELSE KillDwLeft(l, last - m)
      moved(l) == IF n > 0 THEN DeleteCells(l, xs, m) ELSE InsertBlanks(l, xs, m)
  IN [t EXCEPT !.ml[y + 1] = moved(edge(KillDwRight(@, xs)))]

MClearArea(t, xs, ys, xe, ye) ==
  LET from == Least(xs, t.width - 1)
      to == Least(xe, t.width - 1)
      cleared(l, y) ==
        LET first == IF y = ys THEN KillDwRight(l, from) ELSE l
            both == IF y = ye THEN KillDwLeft(first, to) ELSE first
        IN Erase(both, IF y = ys THEN from ELSE 0, IF y = ye THEN to ELSE t.width - 1)
  IN [t EXCEPT !.ml = Tuple([i \in DOMAIN @ |->
        IF i - 1 \in ys .. ye THEN cleared(@[i], i - 1) ELSE @[i]])]

\* the line is full: the character goes to the next one, which continues it
MWrapChar(t, ch, y) ==
  LET soft == [t EXCEPT !.ml[y + 1].soft = TRUE]
      to == IF y # t.bot /\ y < t.height - 1 THEN y + 1 ELSE y
  IN With(IF y = t.bot THEN MScrollV(soft, 1, t.top, t.bot) ELSE soft, LAMBDA u :
          IF t.insert THEN MInsChar(u, ch, 0, to) ELSE MPutChar(u, ch, 0, to))

-----------------------------------------------------------------------------
(* ChangeWindowSize                                                        *)

Rows(t) == t.hist \o t.ml
CursorRow(t) == Len(t.hist) + t.y + 1
CursorColumn(t) == IF t.x = t.width THEN t.x - 1 ELSE t.x  \* the "addone" case

\* the rows that a line of text takes, by the number of its first row
StartRow(rows, i) ==
  CHOOSE a \in 1 .. i : (a = 1 \/ ~rows[a - 1].soft) /\ \A j \in a .. i - 1 : rows[j].soft
EndRow(rows, i) ==
  CHOOSE b \in i .. Len(rows) : (b = Len(rows) \/ ~rows[b].soft) /\ \A j \in i .. b - 1 : rows[j].soft
Starts(rows) ==  \* the first rows, in their order
  FoldLeft(LAMBDA found, i : IF i = 1 \/ ~rows[i - 1].soft THEN Append(found, i) ELSE found,
           <<>>, [i \in DOMAIN rows |-> i])

\* how much of row i is text: all of it when it goes on, and the cursor is text
InkLen(c) == CHOOSE n \in DOMAIN c : (n = 1 \/ c[n] # Blank) /\ \A j \in n + 1 .. Len(c) : c[j] = Blank
TextLen(t, i) ==
  IF i # EndRow(Rows(t), i) THEN t.width
  ELSE Most(InkLen(Rows(t)[i].c), IF i = CursorRow(t) THEN CursorColumn(t) + 1 ELSE 0)
Text(t, a) ==  \* of the line of text that starts in row a
  FlattenSeq([i \in 1 .. EndRow(Rows(t), a) - a + 1 |->
    SubSeq(Rows(t)[a + i - 1].c, 1, TextLen(t, a + i - 1))])

RowsNeeded(n, wi) == (n + wi - 1) \div wi
WrapHard(text, wi) ==  \* every row a line of its own
  LET n == RowsNeeded(Len(text), wi)
  IN [k \in 1 .. n |-> [c |-> SubSeq(text \o Blanks(n * wi - Len(text)), (k - 1) * wi + 1, k * wi),
                        soft |-> FALSE]]
Wrap(text, wi) ==  \* the text in rows of wi cells
  LET n == RowsNeeded(Len(text), wi)
      full == text \o Blanks(n * wi - Len(text))
  IN [k \in 1 .. n |-> [c |-> SubSeq(full, (k - 1) * wi + 1, k * wi), soft |-> k < n]]

\* the cursor in its line of text: cells before it
Offset(t) == (CursorRow(t) - StartRow(Rows(t), CursorRow(t))) * t.width + CursorColumn(t)

\* the last n of rows, with blank lines before them if there are fewer
LastRows(rows, n, wi) ==
  BlankLines(Most(0, n - Len(rows)), wi) \o SubSeq(rows, Most(0, Len(rows) - n) + 1, Len(rows))
ButLast(rows, n) == SubSeq(rows, 1, Len(rows) - n)

\* the same width: rows are kept, and enough of the last ones dropped for the
\* start of the cursor's line to stay on the screen
KeepRows(t, wi, he, hi) ==
  LET above == Least(CursorRow(t) - StartRow(Rows(t), CursorRow(t)), he)
      ncy == t.y + he - t.height
      shift == Most(0, above - ncy)
      same == he = t.height  \* the screen is not copied, see nmlines
  IN With(LastRows(ButLast(IF same THEN t.hist ELSE Rows(t), shift), IF same THEN hi ELSE hi + he, wi),
       LAMBDA rows :
         [hist |-> SubSeq(rows, 1, hi), ml |-> IF same THEN t.ml ELSE SubSeq(rows, hi + 1, hi + he),
          x |-> t.x, y |-> ncy + shift])

\* another width: every line of text is wrapped anew, the last one first, as
\* long as there are rows
Wrapped(t, wi) ==  \* the rows of every line of text
  With(Starts(Rows(t)), LAMBDA starts : [k \in DOMAIN starts |-> Wrap(Text(t, starts[k]), wi)])
\* below: how many rows come after the one of the cursor; all rows from that one
\* on are moved down if it would be above the screen
Shift(t, wi, he, below) == Least(Most(0, Offset(t) \div wi - (he - 1 - below)), below)
\* oty stays where it is then, and the next row of the cursor's line that is
\* allocated in its place ends a line
BrokenAt(rows, cursor, shift) ==
  [k \in DOMAIN rows |->
    [rows[k] EXCEPT !.soft = @ /\ ~(k = Len(rows) - shift /\ k < cursor)]]
Placed(t, wi, he, hi, all, below) ==
  LET shift == Shift(t, wi, he, below)
      copied == t.width # 0 /\ below < hi + he
  IN With(LastRows(IF copied THEN ButLast(all, shift) ELSE all, hi + he, wi), LAMBDA rows :
       [hist |-> SubSeq(rows, 1, hi), ml |-> SubSeq(rows, hi + 1, hi + he),
        x |-> IF copied THEN (Offset(t) % wi) + t.x - CursorColumn(t) ELSE 0,
        y |-> IF copied THEN he - 1 - below + shift ELSE 0])
Rewrap(t, wi, he, hi) ==
  LET at == CHOOSE k \in DOMAIN Starts(Rows(t)) : Starts(Rows(t))[k] = StartRow(Rows(t), CursorRow(t))
      row == Offset(t) \div wi + 1  \* of the cursor, in its line
  IN With(Wrapped(t, wi), LAMBDA w :
     With(Len(FlattenSeq(SubSeq(w, at, Len(w)))) - row, LAMBDA below :
       Placed(t, wi, he, hi,
              FlattenSeq([k \in DOMAIN w |->
                IF k = at THEN BrokenAt(w[k], row, Shift(t, wi, he, below)) ELSE w[k]]), below)))

TabsAfter(t, wi) ==
  IF wi = t.width THEN t.tabs
  ELSE {i \in t.tabs : i < Least(wi, t.width)} \union {i \in t.width .. wi - 1 : i > 0 /\ i % 8 = 0}

ChangeWindowSize(t, wi, he, hi) ==
  IF wi = t.width /\ he = t.height /\ hi = Len(t.hist) THEN t
  ELSE With(IF wi = t.width THEN KeepRows(t, wi, he, hi) ELSE Rewrap(t, wi, he, hi), LAMBDA new :
         [t EXCEPT !.hist = new.hist, !.ml = new.ml, !.width = wi, !.height = he,
                   !.x = Least(new.x, wi), !.y = Least(new.y, he - 1),
                   !.sx = Least(@, wi), !.sy = Least(Most(0, @ + new.y - t.y), he - 1),
                   !.top = 0, !.bot = he - 1, !.tabs = TabsAfter(t, wi)])

-----------------------------------------------------------------------------
(* The alternate screen                                                    *)

NoScreen == [ml |-> <<>>, hist |-> <<>>, width |-> 0, height |-> 0, x |-> 0, y |-> 0]
FreeAltScreen(t) == [t EXCEPT !.alt = NoScreen]
SwapAltScreen(t) ==
  [t EXCEPT !.ml = t.alt.ml, !.hist = t.alt.hist, !.width = t.alt.width, !.height = t.alt.height,
            !.x = t.alt.x, !.y = t.alt.y,
            !.alt = [ml |-> t.ml, hist |-> t.hist, width |-> t.width, height |-> t.height,
                     x |-> t.x, y |-> t.y]]
Refitted(t) == ChangeWindowSize(t, t.alt.width, t.alt.height, Len(t.alt.hist))

EnterAltScreen(t) == [Refitted(SwapAltScreen(FreeAltScreen(t))) EXCEPT !.x = t.x, !.y = t.y]
LeaveAltScreen(t) == IF t.alt = NoScreen THEN t ELSE FreeAltScreen(Refitted(SwapAltScreen(t)))
=============================================================================
