------------------------------ MODULE Drawing ------------------------------
(***************************************************************************)
(* How a display draws the windows it shows (display.c, layer.c): what a   *)
(* program writes changes the window's lines (Lines) and is then sent to   *)
(* the terminal, clipped to the canvases of the window, with the commands  *)
(* the terminal has and as few of them as possible.  The display never     *)
(* asks the terminal anything: it relies on what it believes of the cursor *)
(* (D_x, D_y), the scrolling region (D_top, D_bot), insert mode and the    *)
(* rendition (D_rend), and on the lines of the windows for what the        *)
(* terminal shows.                                                         *)
(*                                                                         *)
(* The record s holds the windows, the display and the terminal itself,    *)
(* which is not part of the repository; a function of the code is an       *)
(* operator from records to records, and an action is one control          *)
(* sequence.  A cell is a character with its rendition: "a" is plain, "A"  *)
(* stands out.                                                             *)
(***************************************************************************)
EXTENDS Lines

CONSTANTS
  Standout,   \* the characters that stand out
  Setups,     \* pairs of a terminal, a record of capabilities, and of a display:
              \* size, canvases and windows
  Starts0,    \* what was written before: sequences of <<layer, operation, argument>>
  Operations, \* of the programs: <<operation, argument>>
  MaxEvents   \* bound

VARIABLES s, events
vars == <<s, events>>

\* am: a character in the last column goes on in the next line; lp: a character
\* can be written in the last position (D_CLP); cs: scrolling regions; ce, cb,
\* cd, cl: to clear; ic, im: to insert characters; dc; al: to insert and delete
\* lines; sr: reverse scrolling; many: insertions and deletions take a number;
\* ut: clearing depends on the rendition; ms: the cursor moves in any rendition;
\* moves: what is cheapest, to go there ("cm"), step by step ("steps") or to
\* write the text in between once more ("rewrite")
Flags == {"am", "lp", "cs", "ce", "cb", "cd", "cl", "ic", "im", "dc", "al", "sr", "many", "ut", "ms"}
ASSUME KindsHaveCapabilities == \A setup \in Setups : LET k == setup[1] IN
  /\ \A f \in Flags : k[f] \in BOOLEAN
  /\ k.moves \in {"cm", "steps", "rewrite"} /\ (k.am \/ k.lp)  \* D_CLP |= !D_AM
ASSUME EventsBounded == MaxEvents \in Nat

Pen(c) == IF c \in Standout THEN "so" ELSE "plain"
Garbage == "garbage"
Unknown == -1

-----------------------------------------------------------------------------
(* The terminal                                                            *)

K(u) == u.kind
BlankRow(u) == Blanks(u.width)
TRows(u, a, b, n) ==  \* rows a to b move n up (n < 0: down)
  LET moves(y) == y \in a + 1 .. b + 1
  IN [u EXCEPT !.scr = Tuple([y \in DOMAIN @ |->
        IF ~moves(y) THEN @[y] ELSE IF moves(y + n) THEN @[y + n] ELSE BlankRow(u)])]
TDown(u) ==
  IF u.ty = u.tbot THEN TRows(u, u.ttop, u.tbot, 1) ELSE [u EXCEPT !.ty = Least(@ + 1, u.height - 1)]
TReverse(u) ==
  IF u.ty = u.ttop THEN TRows(u, u.ttop, u.tbot, -1) ELSE [u EXCEPT !.ty = Most(@ - 1, 0)]
TUp(u) == IF u.ty = u.ttop THEN u ELSE [u EXCEPT !.ty = Most(@ - 1, 0)]
Interval(a, b) == Tuple([i \in 1 .. b - a + 1 |-> a + i - 1])
Times(u, F(_), n) == FoldLeft(LAMBDA v, i : F(v), u, [i \in 1 .. n |-> i])

TColumn(u) == Least(u.tx, u.width - 1)
TInsert(u, n) ==  \* at the cursor (n < 0: characters are deleted)
  [u EXCEPT !.scr[u.ty + 1] = Tuple([i \in DOMAIN @ |->
     IF i <= TColumn(u) THEN @[i] ELSE IF i - n \in TColumn(u) + 1 .. u.width THEN @[i - n] ELSE Blank])]
\* with am and lp the cursor waits after the last column for the next character
TNext(u) ==
  IF u.tx + 1 < u.width \/ (K(u).am /\ K(u).lp) THEN [u EXCEPT !.tx = @ + 1]
  ELSE IF K(u).am THEN TDown([u EXCEPT !.tx = 0]) ELSE u
TPut(u, c) ==
  With(IF u.tx = u.width THEN TDown([u EXCEPT !.tx = 0]) ELSE u, LAMBDA v :
    TNext([(IF v.tins THEN TInsert(v, 1) ELSE v)
           EXCEPT !.scr[v.ty + 1][v.tx + 1] = IF v.tpen = Pen(c) THEN c ELSE Garbage]))

TClear(u, y, a, b) ==
  [u EXCEPT !.scr[y + 1] = Tuple([i \in DOMAIN @ |-> IF i \in a + 1 .. b + 1 THEN Blank ELSE @[i]])]
TClearToEnd(u) == TClear(u, u.ty, TColumn(u), u.width - 1)  \* D_CE
TClearFromStart(u) == TClear(u, u.ty, 0, TColumn(u))        \* D_CB
TClearBelow(u) ==                                           \* D_CD
  [TClearToEnd(u) EXCEPT !.scr = Tuple([i \in DOMAIN @ |-> IF i > u.ty + 1 THEN BlankRow(u) ELSE @[i]])]
TClearAll(u) == [u EXCEPT !.scr = Tuple([i \in DOMAIN @ |-> BlankRow(u)]), !.tx = 0, !.ty = 0]
TLines(u, n) ==  \* D_DL; n < 0: D_AL
  IF u.ty \in u.ttop .. u.tbot THEN TRows(u, u.ty, u.tbot, n) ELSE u
TRegion(u, top, bot) == [u EXCEPT !.ttop = top, !.tbot = bot, !.tx = 0, !.ty = 0]  \* D_CS

-----------------------------------------------------------------------------
(* Renditions, modes, the characters                                       *)

SetRendition(u, pen) == IF u.pen = pen THEN u ELSE [u EXCEPT !.pen = pen, !.tpen = pen]
\* variant: relied on although the terminal has no insert mode
InsertModeAny(u, on) == IF on = u.ins THEN u ELSE [u EXCEPT !.ins = on, !.tins = on /\ K(u).im]
InsertMode(u, on) == IF on = u.ins \/ ~K(u).im THEN u ELSE [u EXCEPT !.ins = on, !.tins = on]
Cautious(u) == IF K(u).ut THEN SetRendition(u, "plain") ELSE u  \* before clearing

ChangeScrollRegion(u, top, bot) ==
  IF top = bot THEN u
  ELSE IF ~K(u).cs THEN [u EXCEPT !.top = 0, !.bot = u.height - 1]
  ELSE IF u.top = top /\ u.bot = bot THEN u
  ELSE [TRegion(u, top, bot) EXCEPT !.top = top, !.bot = bot, !.x = Unknown, !.y = Unknown]

\* where RAW_PUTCHAR believes the cursor to be
Advance(u) ==
  LET x == u.x + 1
  IN IF x < u.width \/ (x = u.width /\ K(u).am /\ K(u).lp) THEN [u EXCEPT !.x = x]
     ELSE IF ~K(u).am THEN [u EXCEPT !.x = u.width - 1]
     ELSE [u EXCEPT !.x = x - u.width, !.y = IF @ < u.height - 1 /\ @ # u.bot THEN @ + 1 ELSE @]
RAW_PUTCHAR(u, c) == Advance(TPut(u, c))
\* variant: writes in insert mode
PUTCHARInserting(u, c) == RAW_PUTCHAR(u, c)
PUTCHAR(u, c) == RAW_PUTCHAR(IF u.ins /\ u.x < u.width - 1 THEN InsertMode(u, FALSE) ELSE u, c)
INSERTCHAR(u, c) ==  \* where the terminal has ic or im
  IF u.ins \/ u.x >= u.width - 1 THEN RAW_PUTCHAR(u, c)
  ELSE RAW_PUTCHAR(IF K(u).ic THEN TInsert(u, 1) ELSE InsertMode(u, TRUE), c)

-----------------------------------------------------------------------------
(* Canvases; a canvas is its viewport                                      *)

Layer(u, v) == u.win[v.layer]
On(v, x, y) == x \in v.xs .. v.xe /\ y \in v.ys .. v.ye
\* the canvases that row y, columns a to b, cross, the first one first
Crossed(u, y, a, b) ==
  SelectSeq(u.canvases, LAMBDA v : y \in v.ys .. v.ye /\ b >= v.xs /\ a <= v.xe)
ShowingLayer(u, l) == SelectSeq(u.canvases, LAMBDA v : v.layer = l)
OnLayer(u, v, a, b, y) ==  \* row y, columns a to b are cells of the layer
  y - v.yoff \in 0 .. Layer(u, v).height - 1 /\ a - v.xoff >= 0 /\ b - v.xoff < Layer(u, v).width

\* what the row y of the layer is, seen from the display
Through(u, v, l, row) ==
  [c |-> [x \in 0 .. u.width - 1 |->
           IF x - v.xoff \in 0 .. Layer(u, v).width - 1 THEN l.c[x - v.xoff + 1] ELSE Blank],
   soft |-> l.soft /\ Layer(u, v).width + v.xoff = u.width]
RowOf(u, v, y) == LET l == Line(Layer(u, v), y - v.yoff) IN Through(u, v, l, y)
NullRow(u) == [c |-> [x \in 0 .. u.width - 1 |-> "null"], soft |-> FALSE]  \* mline_null
EmptyRow(u) == [c |-> [x \in 0 .. u.width - 1 |-> Blank], soft |-> FALSE]  \* mline_blank
Assumed(u, isblank) == IF isblank THEN EmptyRow(u) ELSE NullRow(u)

-----------------------------------------------------------------------------
(* GotoPos                                                                 *)

\* CallRewrite: the cells from a to b are cells of one window, in the rendition
\* the terminal is in
MayRewrite(u, y, a, b) ==
  With(Crossed(u, y, a, b), LAMBDA hit :
    hit # <<>> /\ With(hit[1], LAMBDA v :
      /\ a >= v.xs /\ b <= v.xe /\ OnLayer(u, v, a, b, y)
      /\ With(RowOf(u, v, y), LAMBDA row : \A x \in a .. b : Pen(row.c[x]) = u.pen)))
Rewrite(u, y, a, b) ==
  With(Crossed(u, y, a, b), LAMBDA hit :
    FoldLeft(LAMBDA v, x : PUTCHAR(v, RowOf(v, hit[1], y).c[x]), u, Interval(a, b)))

\* where writing the text once more may begin: here, or after a D_CR
RewriteFrom(u, x1, x2) ==
  With({x \in {x1, 0} : K(u).moves = "rewrite" /\ 0 <= x /\ x < x2 /\ MayRewrite(u, u.y, x, x2 - 1)}, LAMBDA may :
    IF x1 \in may THEN x1 ELSE IF x2 = 0 \/ 0 \in may THEN 0 ELSE Unknown)
\* ways to get to column x2 of the row; to give up: <<>>
Across(u, x1, x2) ==
  IF x1 = x2 THEN <<u>>
  ELSE IF K(u).moves = "steps" /\ x1 >= 0 THEN <<[u EXCEPT !.tx = @ + x2 - x1]>>
  ELSE With(RewriteFrom(u, x1, x2), LAMBDA from :
         IF from = Unknown THEN <<>>
         ELSE <<Rewrite(IF from = x1 THEN u ELSE [u EXCEPT !.tx = 0, !.x = 0], u.y, from, x2 - 1)>>)
MoveTo(u, x, y) == [u EXCEPT !.tx = x, !.ty = y, !.x = x, !.y = y]  \* D_CM
Vertically(u, n) == Times(u, LAMBDA v : IF n > 0 THEN TDown(v) ELSE TUp(v), IF n > 0 THEN n ELSE -n)

GotoPos(u, x, y2) ==
  LET x1 == IF u.x < u.width THEN u.x ELSE IF K(u).lp /\ K(u).am THEN Unknown ELSE u.x - 1
      x2 == Least(x, u.width - 1)
      y1 == u.y
      crosses == (y2 > u.bot /\ y1 <= u.bot) \/ (y2 < u.top /\ y1 >= u.top)
      outside == (y1 > u.bot /\ y2 > y1) \/ (y1 < u.top /\ y2 < y1)
      relative(v, ways) ==
        IF ways = <<>> THEN MoveTo(v, x2, y2) ELSE [Vertically(ways[1], y2 - y1) EXCEPT !.x = x2, !.y = y2]
  IN IF x1 = x2 /\ y1 = y2 THEN u
     ELSE With(IF K(u).ms THEN u ELSE SetRendition(u, "plain"), LAMBDA v :
            relative(v, IF y1 < 0 \/ crosses \/ outside \/ K(v).moves = "cm" THEN <<>> ELSE Across(v, x1, x2)))

PUTCHARLP(u, c) ==
  IF u.x < u.width - 1 \/ K(u).lp THEN PUTCHAR(u, c)
  ELSE IF u.y # u.bot THEN GotoPos(PUTCHAR(u, c), u.width - 1, u.y)
  ELSE [u EXCEPT !.lpmissing = TRUE, !.lpchar = c]

PutIn(u, c, pen) == PUTCHARLP(SetRendition(u, pen), c)
PutChar(u, c, x, y) == PutIn(GotoPos(u, x, y), c, Pen(c))

-----------------------------------------------------------------------------
(* Lines on the display                                                    *)

PutAt(u, c, x, y) == PUTCHAR(SetRendition(GotoPos(u, x, y), Pen(c)), c)
\* clear lp_missing by writing the character where it is now
WriteLP(u, x, y) == SetRendition([PutAt(u, u.lpchar, x, y) EXCEPT !.lpmissing = FALSE], u.pen)

\* old: what the terminal shows, new: what it shall show.  The last position of
\* a terminal without lp is written one column before and pushed there
DisplayLine(u, old, new, y, from, to) ==
  LET lp == ~K(u).lp /\ y = u.bot /\ to = u.width - 1
      changed == lp /\ (u.lpmissing \/ old.c[to] # new.c[to])
      push == changed /\ (K(u).ic \/ K(u).im) /\ from < to
      last == IF push THEN to - 2 ELSE IF lp THEN to - 1 ELSE to
      same(x) == (x < last \/ x # u.width - 1 \/ ~new.soft) /\ old.c[x] = new.c[x]
      places == SelectSeq([i \in 1 .. Most(0, last - from + 1) |-> <<from + i - 1, new.c[from + i - 1]>>],
                          LAMBDA p : ~same(p[1]))
      noted == [u EXCEPT !.lpmissing = IF push THEN FALSE ELSE IF changed THEN new.c[to] # Blank ELSE @,
                          !.lpchar = IF changed /\ ~push THEN new.c[to] ELSE @]
  IN With(FoldLeft(LAMBDA v, p : PutAt(v, p[2], p[1], y), noted, places \o IF push THEN <<<<to - 1, new.c[to]>>>> ELSE <<>>),
          LAMBDA v :
       IF push THEN INSERTCHAR(SetRendition(GotoPos(v, to - 1, y), Pen(new.c[to - 1])), new.c[to - 1])
       ELSE IF ~changed \/ old.c[to] = Blank \/ ~(K(v).ce \/ K(v).dc) THEN v
       ELSE IF K(v).dc THEN TInsert(Cautious(v), -1) ELSE TClearToEnd(Cautious(v)))

\* which command clears from column a to b, if one does
Clearing(u, y, a, b) ==
  IF a = 0 /\ K(u).cb /\ (b # u.width - 1 \/ (u.x = b /\ u.y = y)) THEN "cb"
  ELSE IF b = u.width - 1 /\ K(u).ce THEN "ce" ELSE "none"
ClearLine(u0, old, y, from, to) ==
  With(Cautious(u0), LAMBDA u : With(Clearing(u, y, from, to), LAMBDA command :
    IF command = "none" THEN DisplayLine(u, old, EmptyRow(u), y, from, to)
    ELSE With(GotoPos(u, IF command = "cb" THEN to ELSE from, y), LAMBDA v :
           IF command = "cb" THEN TClearFromStart(v) ELSE TClearToEnd(v))))

\* ClearArea's use of the layer: what is blank need not be cleared.  <<what the
\* terminal shows, first, last column>>
Known(u, y, a, b) ==
  LET hit == Crossed(u, y, a, b)
      v == hit[1]
      end == Layer(u, v).width - 1 + v.xoff
  IN IF hit # <<>> /\ a >= v.xs /\ b <= v.xe /\ y - v.yoff \in 0 .. Layer(u, v).height - 1 /\ b - v.xoff >= 0 /\ a <= end
     THEN <<RowOf(u, v, y), Most(Least(a, end), v.xs), Least(Least(b, end), v.xe)>>
     ELSE <<NullRow(u), a, b>>
ClearRow(u, y, a, b, uselayfn) ==
  With(IF uselayfn /\ Clearing(u, y, a, b) = "none" THEN Known(u, y, a, b) ELSE <<NullRow(u), a, b>>, LAMBDA k :
    IF k[2] > k[3] THEN u ELSE ClearLine(u, k[1], y, k[2], k[3]))

\* from x1, y1 to x2, y2, the lines in between from xs to xe
ClearArea(u0, x1, y1, xs, xe, x2, y2, uselayfn) ==
  LET last == u0.width - 1
      lost == u0.lpmissing /\ y1 <= u0.bot /\ xe >= last /\ (y2 > u0.bot \/ (y2 = u0.bot /\ x2 >= last))
      toEnd == x2 = last /\ (xs = 0 \/ y1 = y2) /\ xe = last /\ y2 = u0.height - 1
  IN With([Cautious(u0) EXCEPT !.lpmissing = @ /\ ~lost], LAMBDA u :
       IF toEnd /\ x1 = 0 /\ y1 = 0 /\ K(u).cl THEN [TClearAll(u) EXCEPT !.x = 0, !.y = 0]
       ELSE IF toEnd /\ K(u).cd /\ (y1 < y2 \/ ~K(u).ce) THEN TClearBelow(GotoPos(u, x1, y1))
       ELSE FoldLeft(LAMBDA v, y : ClearRow(v, y, IF y = y1 THEN x1 ELSE xs, IF y = y2 THEN x2 ELSE xe, uselayfn),
                     u, Interval(y1, y2)))
ClearAll(u) == ClearArea(u, 0, 0, 0, u.width - 1, u.width - 1, u.height - 1, FALSE)

LCDisplayLine(u, v, y, a, b, isblank) ==
  LET from == Most(a, v.xs)
      to == Least(b, v.xe)
  IN IF y \notin v.ys .. v.ye \/ from > to THEN u
     ELSE DisplayLine(u, Assumed(u, isblank), RowOf(u, v, y), y, from, to)

-----------------------------------------------------------------------------
(* The functions of the display that call one another                      *)

RECURSIVE Call(_, _)  \* a function of this section: <<name, arguments>>

\* RefreshLine's loop: what row y shows from a column on, as <<what, first, last
\* column>>; of what is a window's, the canvas too
CaptionAt(u, x, y) == SelectSeq(u.canvases, LAMBDA v : y = v.ye + 1 /\ x \in v.xs .. v.xe)
EdgeAt(u, x, y) == SelectSeq(u.canvases, LAMBDA v : x = v.xe + 1 /\ y \in v.ys .. v.ye + 1 /\ x < u.width)
Leftmost(hit) == hit[CHOOSE i \in DOMAIN hit : \A j \in DOMAIN hit : hit[i].xs <= hit[j].xs]
OnCanvas(u, v, y, from, to) ==
  LET start == Most(from, v.xs)
      below == y - v.yoff - Layer(u, v).height
      end == v.xoff + Layer(u, v).width - 1
      x == IF below = 0 THEN Most(start, Least(v.xe, end) + 1) ELSE start
  IN (IF start > from THEN <<<<Blank, from, start - 1>>>> ELSE <<>>)
     \o (IF below = 0 THEN <<<<"-", start, Least(v.xe, end)>>>> ELSE <<>>)
     \o (IF x > v.xe THEN <<>>
         ELSE IF below >= 0 \/ x > end THEN <<<<Blank, x, v.xe>>>>
         ELSE <<<<"window", x, Least(Least(to, v.xe), end), v>>>>)
Pieces(u, y, from, to) ==
  With(CaptionAt(u, from, y), LAMBDA caption :
    IF caption # <<>> THEN <<<<"=", from, Least(to, caption[1].xe)>>>>
    ELSE IF EdgeAt(u, from, y) # <<>> THEN <<<<"|", from, from>>>>
    ELSE With(Crossed(u, y, from, to), LAMBDA hit :
           IF hit = <<>> THEN <<<<Blank, from, to>>>> ELSE OnCanvas(u, Leftmost(hit), y, from, to)))
RowPieces(u, y, from, to) ==
  FoldLeft(LAMBDA ps, i : With(IF ps = <<>> THEN from ELSE Most(from, Last(ps)[3] + 1), LAMBDA x :
                            IF x > to THEN ps ELSE ps \o Pieces(u, y, x, to)),
           <<>>, Interval(1, u.width))
Fill(u, c, n) == Times(SetRendition(u, Pen(c)), LAMBDA v : PUTCHARLP(v, c), n)
DrawPiece(u, y, p, isblank) ==
  CASE p[1] = "window" -> Call(u, <<"WinRedisplayLine", p[4], y, p[2], p[3], isblank>>)
    [] p[1] = Blank -> IF isblank THEN u ELSE DisplayLine(u, NullRow(u), EmptyRow(u), y, p[2], p[3])
    [] OTHER -> Fill(GotoPos(u, p[2], y), p[1], p[3] - p[2] + 1)
RefreshLine(u0, y, from, to, isblank) ==
  LET clears == ~isblank /\ K(u0).ce /\ to = u0.width - 1 /\ from < to
  IN FoldLeft(LAMBDA u, p : DrawPiece(u, y, p, isblank \/ clears),
              IF clears THEN TClearToEnd(Cautious(GotoPos(u0, from, y))) ELSE u0, RowPieces(u0, y, from, to))

\* a line that is continued from the line before is redisplayed as it was written
LCDisplayLineWrap(u, v, y, a, b, isblank) ==
  LET first == RowOf(u, v, y).c[v.xoff]
      end == v.xoff + Layer(u, v).width - 1
      wrapped == IF ~On(v, v.xoff, y) THEN u
                 ELSE Call(u, IF On(v, end, y - 1) THEN <<"WrapChar", first, end + 1, y - 1, v.xoff, -1, end, -1, FALSE>>
                                                   ELSE <<"PutChar", first, v.xoff, y>>)
  IN LCDisplayLine(wrapped, v, y, a + 1, b, isblank)
WinRedisplayLine(u, v, y, a, b, isblank) ==
  LET row == y - v.yoff
  IN IF row < 0 THEN u
     ELSE IF a = v.xoff /\ row > 0 /\ Line(Layer(u, v), row - 1).soft
     THEN LCDisplayLineWrap(u, v, y, a, b, isblank) ELSE LCDisplayLine(u, v, y, a, b, isblank)

RefreshArea(u0, xs, ys, xe, ye, isblank) ==
  LET clears == ~isblank /\ xs = 0 /\ xe = u0.width - 1 /\ ye = u0.height - 1 /\ (ys = 0 \/ K(u0).cd)
  IN FoldLeft(LAMBDA u, y : Call(u, <<"RefreshLine", y, xs, xe, isblank \/ clears>>),
              IF clears THEN Call(u0, <<"ClearArea", xs, ys, xs, xe, xe, ye, FALSE>>) ELSE u0, Interval(ys, ye))

InsChar(u0, c, x, xe, y) ==
  LET last == u0.width - 1
      lp == y = u0.bot /\ ~K(u0).lp
  IN With(GotoPos(u0, x, y), LAMBDA u :
       IF lp /\ x = last THEN [u EXCEPT !.lpmissing = TRUE, !.lpchar = c]
       ELSE With([u EXCEPT !.lpmissing = @ /\ ~(lp /\ xe = last)], LAMBDA v :
              IF x = xe THEN PutIn(v, c, Pen(c))
              ELSE IF ~(K(v).ic \/ K(v).im) \/ xe # last
              THEN GotoPos(Call(v, <<"RefreshLine", y, x, xe, FALSE>>), x + 1, y)
              ELSE With(InsertMode(v, TRUE), LAMBDA z :
                     RAW_PUTCHAR(SetRendition(IF z.ins THEN z ELSE TInsert(z, 1), Pen(c)), c))))

ScrollH(u0, y, xs, xe, n) ==
  LET last == u0.width - 1
      m == Least(IF n < 0 THEN -n ELSE n, xe - xs + 1)
      can(u) == IF n > 0 THEN K(u).dc ELSE u.ins \/ K(u).ic \/ K(u).im
  IN With(IF xe = last THEN Cautious(GotoPos(u0, xs, y)) ELSE u0, LAMBDA u :
       IF xe # last \/ ~can(u) THEN Call(u, <<"RefreshLine", y, xs, xe, FALSE>>)
       ELSE With(IF n > 0 THEN TInsert(u, -m)
                 ELSE IF ~u.ins /\ K(u).ic THEN TInsert(u, m)
                 ELSE Times(SetRendition(InsertMode(u, TRUE), "plain"), LAMBDA v : INSERTCHAR(v, Blank), m), LAMBDA v :
              IF ~v.lpmissing \/ y # v.bot THEN v
              ELSE [(IF n > 0 THEN WriteLP(v, last - m, y) ELSE v) EXCEPT !.lpmissing = FALSE]))

\* the scrolling region is changed where lines can be moved no other way
Regioned(u, ys, ye) ==
  With(IF ys < u.top \/ u.bot # ye THEN ChangeScrollRegion(u, ys, ye) ELSE u, LAMBDA v :
    IF v.top # ys /\ ~K(v).al THEN ChangeScrollRegion(v, ys, ye) ELSE v)
Scrolled(u, ys, ye, n, up) ==  \* <<>>: the terminal cannot
  LET faster == n > 1 /\ ys >= u.top /\ ye = u.bot /\ K(u).al /\ K(u).many
      low == ye + 1 - n
      deleted == <<IF up THEN ys ELSE low, n>>  \* first, lines are deleted and then inserted
      inserted == <<IF up THEN low ELSE ys, -n>>
      needed(m) == (m > 0) = up \/ ye # u.bot
  IN IF (up \/ K(u).sr) /\ u.top = ys /\ u.bot = ye /\ ~faster
     THEN <<Times(GotoPos(u, 0, IF up THEN ye ELSE ys), LAMBDA v : IF up THEN TDown(v) ELSE TReverse(v), n)>>
     ELSE IF ~K(u).al THEN <<>>
     ELSE <<FoldLeft(LAMBDA v, m : IF needed(m[2]) THEN TLines(GotoPos(v, 0, m[1]), m[2]) ELSE v, u, <<deleted, inserted>>)>>
ScrollV(u0, xs, ys, xe, ye, n0) ==
  LET up == n0 > 0
      n == IF up THEN n0 ELSE -n0
      vpxmin == CHOOSE x \in {v.xs : v \in ToSet(u0.canvases)} : \A v \in ToSet(u0.canvases) : x <= v.xs
      vpxmax == CHOOSE x \in {v.xe : v \in ToSet(u0.canvases)} : \A v \in ToSet(u0.canvases) : x >= v.xe
      \* where the missing character of the last position goes to
      away == u0.bot > ye \/ u0.bot < ys
      missy == IF away THEN u0.bot ELSE u0.bot - n0
      writes(u) == u.lpmissing /\ (u0.bot # u.bot \/ (up /\ u.top = ys /\ u.bot = ye))
      \* written in the last position it has scrolled the lines once
      left(u) == IF writes(u) /\ u0.bot = u.bot THEN n - 1 ELSE n
      moved(u, m) ==
        With(Cautious(u), LAMBDA v : With(Scrolled(v, ys, ye, m, up), LAMBDA w :
          IF w = <<>> THEN Call(v, <<"RefreshArea", xs, ys, xe, ye, FALSE>>)
          ELSE IF w[1].lpmissing /\ missy # w[1].bot THEN WriteLP(w[1], u0.width - 1, missy) ELSE w[1]))
  IN IF n >= ye - ys + 1 THEN Call(u0, <<"ClearArea", xs, ys, xs, xe, xe, ye, FALSE>>)
     ELSE IF xs > vpxmin \/ xe < vpxmax THEN Call(u0, <<"RefreshArea", xs, ys, xe, ye, FALSE>>)
     ELSE With(Regioned([u0 EXCEPT !.lpmissing = @ /\ (away \/ missy \in ys .. ye)], ys, ye), LAMBDA u :
            With(IF writes(u) THEN WriteLP(u, u.width - 1, u0.bot) ELSE u, LAMBDA v :
              IF left(u) = 0 THEN v ELSE moved(v, left(u))))

\* when the terminal waits after the last column of the line before, the character
\* is just written, so that the terminal knows that the lines belong together
Waiting(u, y) == u.x = u.width /\ u.y = y
WrapChar(u0, c, x, y0, xs, ys, xe, ye, ins) ==
  LET row(y) == IF y # ye /\ y < u0.height - 1 THEN y + 1 ELSE y
      scroll(u) == Call(u, <<"ScrollV", xs, ys, xe, ye, 1>>)
      put(u, at, y) == Call(u, IF ins THEN <<"InsChar", c, at, xe, y>> ELSE <<"PutChar", c, at, y>>)
      \* the region: the line is scrolled by the character, or before it
      scrolls(u) == u.bot # y0 \/ u.x # u.width \/ ~K(u).ut
      bonus(u, y) == IF ~Waiting(u, y) /\ K(u).lp /\ y >= 0
                     THEN Call(u, <<"RefreshLine", y, u.width - 1, u.width - 1, FALSE>>) ELSE u
      placed(u, y) == IF Waiting(u, y) THEN u ELSE GotoPos(IF y = ye THEN scroll(u) ELSE u, xs, row(y))
  IN IF xs # 0 \/ x # u0.width \/ ~K(u0).am THEN put(IF y0 = ye THEN scroll(u0) ELSE u0, xs, row(y0))
     ELSE With(IF y0 = ye THEN ChangeScrollRegion(u0, ys, ye)
               ELSE IF y0 = u0.bot THEN ChangeScrollRegion(u0, 0, u0.height - 1) ELSE u0, LAMBDA u :
            With(IF y0 = ye /\ scrolls(u) THEN y0 - 1 ELSE y0, LAMBDA y :
              With(InsertMode(placed(bonus(IF y # y0 THEN scroll(u) ELSE u, y), y), ins), LAMBDA v :
                IF ins /\ ~v.ins THEN put(v, 0, row(y))
                ELSE RAW_PUTCHAR(SetRendition([v EXCEPT !.x = 0, !.y = row(y)], Pen(c)), c))))

Call(u, f) ==
  CASE f[1] = "GotoPos" -> GotoPos(u, f[2], f[3])
    [] f[1] = "SetRendition" -> SetRendition(u, f[2])
    [] f[1] = "InsertMode" -> InsertMode(u, f[2])
    [] f[1] = "PutChar" -> PutChar(u, f[2], f[3], f[4])
    [] f[1] = "InsChar" -> InsChar(u, f[2], f[3], f[4], f[5])
    [] f[1] = "WrapChar" -> WrapChar(u, f[2], f[3], f[4], f[5], f[6], f[7], f[8], f[9])
    [] f[1] = "ScrollH" -> ScrollH(u, f[2], f[3], f[4], f[5])
    [] f[1] = "ScrollV" -> ScrollV(u, f[2], f[3], f[4], f[5], f[6])
    [] f[1] = "ClearArea" -> ClearArea(u, f[2], f[3], f[4], f[5], f[6], f[7], f[8])
    [] f[1] = "RefreshLine" -> RefreshLine(u, f[2], f[3], f[4], f[5])
    [] f[1] = "RefreshArea" -> RefreshArea(u, f[2], f[3], f[4], f[5], f[6])
    [] f[1] = "WinRedisplayLine" -> WinRedisplayLine(u, f[2], f[3], f[4], f[5], f[6])
RefreshAll(u, isblank) == Call(u, <<"RefreshArea", 0, 0, u.width - 1, u.height - 1, isblank>>)

-----------------------------------------------------------------------------
(* The layer: what its functions call for one of the canvases that show it *)

Clip(x, a, b) == Most(a, Least(x, b))
IfAny(test, calls) == IF test THEN calls ELSE <<>>

LGotoPos(u, v, x, y) ==
  IfAny(v = u.canvases[u.forecv], <<<<"GotoPos", Clip(x + v.xoff, v.xs, v.xe), Clip(y + v.yoff, v.ys, v.ye)>>>>)
LPutChar(v, c, x, y) ==
  IfAny(On(v, x + v.xoff, y + v.yoff), <<<<"PutChar", c, x + v.xoff, y + v.yoff>>>>)

\* old: the line before, if it is known.  When the character is left of the
\* canvas, the one that comes in there is inserted
LInsChar(u, v, c, x, y, old) ==
  LET from == Most(x + v.xoff, v.xs)
      to == Least(Layer(u, v).width - 1 + v.xoff, v.xe)
      left == x + v.xoff < v.xs
      in == IF ~left THEN c ELSE IF old = <<>> THEN Blank ELSE old[1].c[v.xs - v.xoff]
      row == y + v.yoff
  IN IfAny(row \in v.ys .. v.ye /\ from <= to,
           <<<<"InsChar", in, from, to, row>>>>
           \o IfAny(left /\ old = <<>>, <<<<"RefreshArea", from, row, from, row, TRUE>>>>))

LScrollH(u, v, n, y, xs) ==
  LET end == Layer(u, v).width - 1
      from == Most(xs + v.xoff, v.xs)
      to == Least(end + v.xoff, v.xe)
      row == y + v.yoff
      \* what comes in was not on the canvas
      a == Most(IF n > 0 THEN to + 1 - n ELSE xs + v.xoff - n, v.xs)
      b == Least(IF n > 0 THEN end + v.xoff - n ELSE from - 1 - n, v.xe)
  IN IfAny(row \in v.ys .. v.ye /\ from <= to,
           <<<<"ScrollH", row, from, to, n>>>>
           \o IfAny(to - from # end - xs /\ a <= b, <<<<"RefreshArea", a, row, b, row, TRUE>>>>))

LScrollV(u, v, n, ys, ye) ==
  LET from == Most(ys + v.yoff, v.ys)
      to == Least(ye + v.yoff, v.ye)
      a == Most(IF n > 0 THEN to + 1 - n ELSE ys + v.yoff - n, v.ys)
      b == Least(IF n > 0 THEN ye + v.yoff - n ELSE from - 1 - n, v.ye)
      xs == Most(v.xoff, v.xs)
      xe == Least(Layer(u, v).width - 1 + v.xoff, v.xe)
  IN IfAny(from <= to /\ xs <= xe,
           <<<<"ScrollV", v.xs, from, v.xe, to, n>>>>
           \o IfAny(to - from # ye - ys /\ a <= b, <<<<"RefreshArea", xs, a, xe, b, TRUE>>>>))

LClearArea(u, v, x1, y1, x2, y2) ==
  LET last == Layer(u, v).width - 1
      xa == Least(x1, last)
      xb == Least(x2, last)
      ya == Most(y1 + v.yoff + (IF xa + v.xoff > v.xe THEN 1 ELSE 0), v.ys)
      yb == Least(y2 + v.yoff - (IF xb + v.xoff < v.xs THEN 1 ELSE 0), v.ye)
      a == IF xa = 0 \/ ya # y1 + v.yoff THEN v.xs ELSE Most(xa + v.xoff, v.xs)
      b == IF xb = last \/ yb # y2 + v.yoff THEN v.xe ELSE Least(xb + v.xoff, v.xe)
  IN IfAny(ya <= yb, <<<<"ClearArea", a, ya, v.xs, v.xe, b, yb, TRUE>>>>)

\* on a canvas that does not show where the line ends, or all of the line if it is
\* to be scrolled, the line is not wrapped
LWrapChar(u, v, c, y, top, bot, ins) ==
  LET end == v.xoff + Layer(u, v).width - 1
      to == IF y = Layer(u, v).height - 1 THEN y ELSE y + 1
      show(row) == IF ins THEN LInsChar(u, v, c, 0, row, <<>>) ELSE LPutChar(v, c, 0, row)
      wrap(ys, ye) == <<<<"WrapChar", c, end + 1, y + v.yoff, v.xoff, ys, end, ye, ins>>>>
  IN IF y # bot
     THEN IfAny(On(v, v.xoff, to + v.yoff),
                IF ~On(v, end, y + v.yoff) \/ (ins /\ end > v.ye) THEN show(to) ELSE wrap(-1, -1))
     ELSE IF bot + v.yoff \in v.ys .. v.ye /\ v.xoff >= v.xs /\ end <= v.xe
     THEN wrap(Most(top + v.yoff, v.ys), bot + v.yoff)
     ELSE LScrollV(u, v, 1, top, bot) \o show(bot)

\* rows ys to ye of the layer, columns xs to xe
LRedisplay(v, ys, ye, xs, xe) ==
  Tuple([i \in 1 .. ye - ys + 1 |-> <<"WinRedisplayLine", v, ys + i - 1 + v.yoff, xs + v.xoff, xe + v.xoff, TRUE>>])
LRefreshAll(u, v) == LRedisplay(v, 0, Layer(u, v).height - 1, 0, Layer(u, v).width - 1)

ForCanvas(u, v, f) ==
  CASE f[1] = "LGotoPos" -> LGotoPos(u, v, f[2], f[3])
    [] f[1] = "LSetRendition" -> <<<<"SetRendition", f[2]>>>>
    [] f[1] = "LInsertMode" -> <<<<"InsertMode", f[2]>>>>
    [] f[1] = "LPutChar" -> LPutChar(v, f[2], f[3], f[4])
    [] f[1] = "LInsChar" -> LInsChar(u, v, f[2], f[3], f[4], f[5])
    [] f[1] = "LWrapChar" -> LWrapChar(u, v, f[2], f[3], f[4], f[5], f[6])
    [] f[1] = "LScrollH" -> LScrollH(u, v, f[2], f[3], f[4])
    [] f[1] = "LScrollV" -> LScrollV(u, v, f[2], f[3], f[4])
    [] f[1] = "LClearArea" -> LClearArea(u, v, f[2], f[3], f[4], f[5])
    [] f[1] = "LRefreshAll" -> LRefreshAll(u, v)
OnCanvases(u, l, f) ==
  FoldLeft(LAMBDA w, v : FoldLeft(Call, w, ForCanvas(w, v, f)), u, ShowingLayer(u, l))

-----------------------------------------------------------------------------
(* What a program writes: the functions of the layer that ansi.c calls, and *)
(* in between the new contents of the window                               *)

Win(u, l) == u.win[l]
Now(w) == <<"window", w>>
Restored(w) == <<<<"LGotoPos", w.x, w.y>>, <<"LSetRendition", w.pen>>>>  \* RestorePosRendition

Cursor(w, x, y) == <<Now([w EXCEPT !.x = x, !.y = y]), <<"LGotoPos", x, y>>>>

Write(w, c) ==
  LET last == w.width - 1
      at(v, x) == Now([v EXCEPT !.x = x])
  IN IF w.x < last /\ w.insert
     THEN <<at(MInsChar(w, c, w.x, w.y), w.x + 1), <<"LInsChar", c, w.x, w.y, <<Line(w, w.y)>>>>>>
     ELSE IF w.x <= last
     THEN <<at(MPutChar(w, c, w.x, w.y), w.x + 1), <<"LPutChar", c, w.x, w.y>>>>
     ELSE <<Now([MWrapChar(w, c, w.y) EXCEPT !.x = 1, !.y = IF @ # w.bot /\ @ # w.height - 1 THEN @ + 1 ELSE @]),
            <<"LWrapChar", c, w.y, w.top, w.bot, w.insert>>>>
WriteString(w, c) ==
  IfAny(w.pen # Pen(c), <<<<"LSetRendition", Pen(c)>>>>) \o Write([w EXCEPT !.pen = Pen(c)], c)

ScrollLines(w, n, ys, ye) ==
  <<Now(MScrollV(w, n, ys, ye)), <<"LScrollV", n, ys, ye>>, <<"LGotoPos", w.x, w.y>>>>
Clear(w, xs, ys, xe, ye) ==
  <<<<"LClearArea", xs, ys, xe, ye>>, Now(MClearArea(w, xs, ys, xe, ye))>> \o Restored(w)
ClearScreen(w) ==
  <<<<"LClearArea", 0, 0, w.width - 1, w.height - 1>>, Now(MScrollV(w, w.height, 0, w.height - 1))>>
ClearToEOS(w) ==
  IF w.x = 0 /\ w.y = 0 THEN ClearScreen(w) \o Restored(w) ELSE Clear(w, w.x, w.y, w.width - 1, w.height - 1)
ClearFromBOS(w) == Clear(w, 0, 0, w.x, w.y)
ClearToEOL(w) == Clear(w, w.x, w.y, w.width - 1, w.y)
ClearFromBOL(w) == Clear(w, 0, w.y, w.x, w.y)

LineFeed(w) ==
  IF w.y = w.bot THEN ScrollLines(w, 1, w.top, w.bot) ELSE Cursor(w, w.x, Least(w.y + 1, w.height - 1))
ReverseLineFeed(w) ==
  IF w.y = w.top THEN ScrollLines(w, -1, w.top, w.bot)
  ELSE IfAny(w.y > 0, Cursor(w, w.x, w.y - 1))

\* n > 0: DeleteLine, n < 0: InsertLine
MoveLines(w, n) == IfAny(w.y \in w.top .. w.bot, ScrollLines(w, Least(n, w.bot - w.y + 1), w.y, w.bot))
\* n > 0: DeleteChar, n < 0: InsertChar
MoveChars(w, n) ==
  LET x == Least(w.x, w.width - 1)
  IN <<Now(MScrollH(w, n, w.y, x)), <<"LScrollH", n, w.y, x>>, <<"LGotoPos", x, w.y>>>>

FillWithEs(w) ==
  LET es == [c |-> Tuple([x \in 1 .. w.width |-> "E"]), soft |-> FALSE]
  IN <<<<"LClearArea", 0, 0, w.width - 1, w.height - 1>>,
       Now([w EXCEPT !.x = 0, !.y = 0, !.ml = Tuple([i \in DOMAIN @ |-> es])]), <<"LRefreshAll">>>>
SetInsert(w, on) == <<Now([w EXCEPT !.insert = on]), <<"LInsertMode", on>>>>  \* ASetMode
Margins(w, top, bot) == IfAny(bot < w.height, Cursor([w EXCEPT !.top = top, !.bot = bot], 0, 0))

Operation(w, op, arg) ==
  CASE op = "write" -> WriteString(w, arg)
    [] op = "goto" -> Cursor(w, Least(arg[1], w.width - 1), Least(arg[2], w.height - 1))
    [] op = "margins" -> Margins(w, arg[1], arg[2])
    [] op = "insert" -> SetInsert(w, arg)
    [] op = "LF" -> LineFeed(w)
    [] op = "RI" -> ReverseLineFeed(w)
    [] op = "lines" -> MoveLines(w, arg)
    [] op = "chars" -> MoveChars(w, arg)
    [] op = "scroll" -> ScrollLines(w, arg, w.top, w.bot)
    [] op = "clear" -> ClearScreen(w)
    [] op = "to end of screen" -> ClearToEOS(w)
    [] op = "from start of screen" -> ClearFromBOS(w)
    [] op = "to end of line" -> ClearToEOL(w)
    [] op = "from start of line" -> ClearFromBOL(w)
    [] op = "Es" -> FillWithEs(w)
Do(u, l, op, arg) ==
  FoldLeft(LAMBDA v, f : IF f[1] = "window" THEN [v EXCEPT !.win[l] = f[2]] ELSE OnCanvases(v, l, f),
           u, Operation(Win(u, l), op, arg))

-----------------------------------------------------------------------------
(* The display by itself                                                   *)

InitTerm(u) == ClearAll([ChangeScrollRegion(u, 0, u.height - 1) EXCEPT !.x = 0, !.y = 0])

\* of the canvas that has the focus
FocusedLayer(u) == u.canvases[u.forecv].layer
LayRestore(u) == InsertMode(u, Win(u, FocusedLayer(u)).insert)
LaySetCursor(u) ==
  LET w == Win(u, FocusedLayer(u))
  IN FoldLeft(LAMBDA z, f : GotoPos(z, f[2], f[3]), u, LGotoPos(u, u.canvases[u.forecv], w.x, w.y))
Redisplay(u) ==
  LET plain == SetRendition(ChangeScrollRegion(InsertMode(u, FALSE), 0, u.height - 1), "plain")
  IN LaySetCursor(LayRestore(RefreshAll(ClearAll(plain), TRUE)))

\* MakeStatus writes a message into the last line; when it is removed, the line
\* is drawn again
Message(u) ==
  LET y == u.height - 1
      most == IF K(u).lp THEN u.width ELSE u.width - 1
      text == InsertMode(SetRendition(GotoPos(u, 0, y), "so"), FALSE)
  IN With(Times(text, LAMBDA v : TPut(v, "M"), most), LAMBDA shown :
       With(Call(GotoPos([shown EXCEPT !.x = Unknown], 0, y), <<"RefreshLine", y, 0, most - 1, FALSE>>), LAMBDA removed :
         LaySetCursor(GotoPos(removed, u.x, u.y))))

\* serv_select_fn: a canvas follows the cursor of a layer larger than itself
PanRows(u, i) ==
  LET v == u.canvases[i]
      row == Layer(u, v).y + v.yoff
  IN IF row < v.ys THEN v.ys - row ELSE IF row > v.ye THEN v.ye - row ELSE 0
\* by half a canvas, if the layer goes on that far
PanColumns(u, i) ==
  LET v == u.canvases[i]
      w == Layer(u, v)
      column == Least(w.x, w.width - 1) + v.xoff
      half == (v.xe - v.xs + 1) \div 2
  IN IF column < v.xs THEN Least(Most(v.xs - column, half), v.xs - v.xoff)
     ELSE IF column > v.xe THEN -Least(Most(column - v.xe, half), v.xoff + w.width - 1 - v.xe) ELSE 0
\* the canvas v, moved by d: it is scrolled, and what has come in is drawn
RowsPanned(u, v, d) ==
  LET w == Layer(u, v)
      n == Least(IF d < 0 THEN -d ELSE d, w.height)
      first == IF d > 0 THEN 0 ELSE w.height - n
  IN LScrollV(u, v, IF d > 0 THEN -n ELSE n, 0, w.height - 1) \o LRedisplay(v, first, first + n - 1, 0, w.width - 1)
ColumnsPanned(u, v, d) ==
  LET w == Layer(u, v)
      n == Least(IF d < 0 THEN -d ELSE d, w.width)
      first == IF d > 0 THEN 0 ELSE w.width - n
  IN FlattenSeq(Tuple([j \in 1 .. w.height |->
       LScrollH(u, v, IF d > 0 THEN -n ELSE n, j - 1, 0) \o LRedisplay(v, j - 1, j - 1, first, first + n - 1)]))
Panned(u, i, axis) ==
  LET d == IF axis = "rows" THEN PanRows(u, i) ELSE PanColumns(u, i)
      moved == IF axis = "rows" THEN [u EXCEPT !.canvases[i].yoff = @ + d] ELSE [u EXCEPT !.canvases[i].xoff = @ + d]
      v == moved.canvases[i]
  IN IF d = 0 THEN u
     ELSE With(FoldLeft(Call, moved, IF axis = "rows" THEN RowsPanned(moved, v, d) ELSE ColumnsPanned(moved, v, d)),
               LAMBDA drawn : IF i = u.forecv THEN LaySetCursor(drawn) ELSE drawn)

\* variant: only columns are followed
AxesColumns(u) == [i \in DOMAIN u.canvases |-> <<i, "columns">>]
Axes(u) == FlattenSeq([i \in DOMAIN u.canvases |-> <<<<i, "rows">>, <<i, "columns">>>>])
Select(u) ==
  With(FoldLeft(LAMBDA z, a : Panned(z, a[1], a[2]), u, Axes(u)), LAMBDA z :
    IF Len(z.canvases) > 1 THEN LaySetCursor(LayRestore(z)) ELSE z)

-----------------------------------------------------------------------------
(* The states                                                              *)

Fresh(size) ==  \* a window
  [ml |-> BlankLines(size[2], size[1]), hist |-> <<>>, width |-> size[1], height |-> size[2],
   x |-> 0, y |-> 0, top |-> 0, bot |-> size[2] - 1, insert |-> FALSE, pen |-> "plain"]
Powered(k, d) ==  \* a terminal and a display before InitTerm
  [kind |-> k, width |-> d.width, height |-> d.height,
   scr |-> Tuple([y \in 1 .. d.height |-> Tuple([x \in 1 .. d.width |-> Garbage])]),
   tx |-> 0, ty |-> 0, ttop |-> 0, tbot |-> d.height - 1, tins |-> FALSE, tpen |-> "plain",
   x |-> 0, y |-> 0, top |-> Unknown, bot |-> Unknown, ins |-> FALSE, pen |-> "plain",
   lpmissing |-> FALSE, lpchar |-> Blank,
   canvases |-> d.canvases, forecv |-> d.forecv, win |-> Tuple([l \in DOMAIN d.windows |-> Fresh(d.windows[l])])]
Started(k, d, start) ==
  FoldLeft(LAMBDA u, step : Do(u, step[1], step[2], step[3]), Redisplay(InitTerm(Powered(k, d))), start)

Init ==
  /\ s \in {Started(setup[1], setup[2], start) : setup \in Setups, start \in Starts0}
  /\ events = 0

Event == events < MaxEvents /\ events' = events + 1
Program == Event /\ \E l \in DOMAIN s.win, o \in Operations : s' = Do(s, l, o[1], o[2])
Refresh == Event /\ s' = Redisplay(s)
Status == Event /\ s' = Message(s)
Idle == s' = Select(s) /\ UNCHANGED events

Next == Program \/ Refresh \/ Status \/ Idle
Spec == Init /\ [][Next]_vars

-----------------------------------------------------------------------------
(* Properties                                                              *)

Columns == 0 .. s.width - 1
LinesOn == 0 .. s.height - 1

\* what shall be in column x of line y: a caption, an edge, a cell of a window,
\* the border below a window that is too short, or nothing
Should(x, y) ==
  LET canvas == {v \in ToSet(s.canvases) : On(v, x, y)}
      v == CHOOSE c \in canvas : TRUE
      row == y - v.yoff
      column == x - v.xoff
  IN IF CaptionAt(s, x, y) # <<>> THEN "="
     ELSE IF EdgeAt(s, x, y) # <<>> THEN "|"
     ELSE IF canvas = {} \/ column \notin 0 .. Layer(s, v).width - 1 \/ row > Layer(s, v).height THEN Blank
     ELSE IF row = Layer(s, v).height THEN "-"
     ELSE Line(Layer(s, v), row).c[column + 1]

\* TypeOK: the cursor and the region the display believes in exist, and every
\* window's cursor is in it
TypeOK ==
  /\ events \in 0 .. MaxEvents
  /\ s.x \in 0 .. s.width /\ s.y \in LinesOn
  /\ s.top \in LinesOn /\ s.bot \in LinesOn /\ s.top < s.bot
  /\ s.pen \in {"plain", "so"} /\ s.ins \in BOOLEAN /\ s.lpmissing \in BOOLEAN
  /\ \A y \in LinesOn : Len(s.scr[y + 1]) = s.width
  /\ \A l \in DOMAIN s.win : Win(s, l).x \in 0 .. Win(s, l).width /\ Win(s, l).y \in 0 .. Win(s, l).height - 1

\* Shown: the terminal shows what is in the windows.  Only the character in the
\* last position, which some terminals cannot take without scrolling, may be
\* kept back, and then the display knows it (D_lpchar)
KeptBack(x, y) == s.lpmissing /\ x = s.width - 1 /\ y = s.bot
Shown ==
  \A y \in LinesOn, x \in Columns :
    IF KeptBack(x, y) THEN s.lpchar = Should(x, y) ELSE s.scr[y + 1][x + 1] = Should(x, y)

\* Believed: the cursor, the scrolling region, insert mode and the rendition are
\* what the display believes them to be, for it draws with them without asking
Believed ==
  /\ TypeOK
  /\ s.y = s.ty /\ s.x = s.tx
  /\ s.top = s.ttop /\ s.bot = s.tbot
  /\ s.ins = s.tins /\ s.pen = s.tpen

\* CursorShown: between two writes the user sees the cursor of the window with
\* the focus where the program has put it
CursorShown ==
  [][UNCHANGED events =>
       LET v == s'.canvases[s'.forecv]
           w == s'.win[v.layer]
       IN s'.ty = w.y + v.yoff /\ Least(s'.tx, s.width - 1) = Least(w.x + v.xoff, v.xe)]_vars
=============================================================================
