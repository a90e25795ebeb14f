-------------------------------- MODULE Copy --------------------------------
(***************************************************************************)
(* Copy mode (mark.c), its searches (search.c) and the prompt in which     *)
(* their patterns are typed (input.c).  A layer above the window shows a   *)
(* view of the window's scrollback and screen; the text between the first  *)
(* mark and the cursor stands out, and is copied when the second mark is   *)
(* set.  While the layer is there nothing is written to the window.        *)
(*                                                                         *)
(* A key repaints no more than it has to: only what is between the old     *)
(* and the new cursor, and the rows that scroll into the view.  The record *)
(* s holds the layer and the rows on the screen; a function of the code is *)
(* an operator from records to records.  A cell on the screen is a pair of *)
(* a character and of whether it stands out.                               *)
(***************************************************************************)
EXTENDS Lines

CONSTANTS
  Letters,          \* of which words are made (is_letter)
  Width, Height, Hist,
  Texts,            \* sequences of Hist + Height lines
  Cursors,          \* <<w_x, w_y>> of the window
  Started,          \* what was typed before: sequences of keys
  Chunks,           \* what a user types: sequences of keys
  Digits,           \* the digits as numbers: [key -> Nat]
  MaxChunks         \* bound

VARIABLES s, chunks
vars == <<s, chunks>>

ASSUME SizesArePositive == Width \in Nat \ {0, 1} /\ Height \in Nat \ {0} /\ Hist \in Nat
ASSUME TextsFit ==
  \A t \in Texts : Len(t) = Hist + Height /\ \A i \in DOMAIN t : Len(t[i].c) = Width

TotalRows == Hist + Height
Clip(n, a, b) == Most(a, Least(n, b))
Greatest(S) == CHOOSE m \in S : \A n \in S : n <= m

Controls == {"BS", "NL", "CR", "ESC", "^A", "^B", "^D", "^E", "^F", "^G", "^K", "^L", "^N", "^P", "^R", "^S", "^U", "^W", "^Y"}

-----------------------------------------------------------------------------
(* The text.  Behind its last column a line says whether it goes on: the   *)
(* code finds no blank there, and takes the line for a full one            *)

WIN(t, y) == t.lines[y + 1]
Goes == "goes on"
Image(l, x) == IF x < Width THEN l.c[x + 1] ELSE IF l.soft THEN Goes ELSE Blank
LastInk(l) == Greatest({-1} \union {x \in 0 .. Width : Image(l, x) # Blank})
LeftHalf(l, x) == x < Width - 1 /\ Image(l, x + 1) = Right  \* dw_left
RightHalf(l, x) == x < Width /\ Image(l, x) = Right         \* dw_right
Whole(l, x) == IF RightHalf(l, x) THEN x - 1 ELSE x  \* where the character begins

IsLetter(c) == CASE c = Blank -> 0 [] c \in Letters -> 1 [] OTHER -> 2

LineStart(t, y) ==
  LET inked == {x \in t.left .. Width - 2 : Image(WIN(t, y), x) # Blank}
  IN IF inked = {} THEN t.left ELSE CHOOSE x \in inked : \A z \in inked : x <= z
LineEnd(t, y) ==
  LET inked == {x \in 0 .. t.right : Image(WIN(t, y), x) # Blank}
  IN IF inked = {} THEN t.left ELSE Greatest(inked)

\* the n-th of a set of positions, or the n-th from behind
Nth(S, n, back) == {p \in S : Cardinality({q \in S : IF back THEN q > p ELSE q < p}) = n - 1}

\* where the num-th target of the line is, for f, F, t and T; x if it is nowhere
NextChar(t, x, y, direction, target, num) ==
  LET forward == direction \in {"f", "t"}
      found == {z \in 0 .. Width : Image(WIN(t, y), z) = target /\ (IF forward THEN z > x ELSE z < x)}
      adjust == CASE direction = "t" -> -1 [] direction = "T" -> 1 [] OTHER -> 0
  IN With(Nth(found, num, ~forward), LAMBDA nth : IF nth = {} THEN x ELSE (CHOOSE z \in nth : TRUE) + adjust)

\* variant: words go on in the next line if the line does
WordClassOn(t, x, y, big) ==
  LET c == Image(WIN(t, y), x)
  IN IF x \notin 0 .. Width - 1 THEN (IF x = Width /\ c = Goes THEN 1 ELSE 0)
     ELSE IF big THEN (IF c = Blank THEN 1 ELSE 0) ELSE IsLetter(c)
\* what changes between words; with NW_BIG it is the blanks that have the class 1
WordClass(t, x, y, big) ==
  LET c == Image(WIN(t, y), x)
  IN IF x \notin 0 .. Width - 1 THEN 0
     ELSE IF big THEN (IF c = Blank THEN 1 ELSE 0) ELSE IsLetter(c)

\* nextword: the scan goes over the lines and, for each, the column behind (going
\* back: before) it, which is in no word, and stops at the num-th place where the
\* class of the characters changes as the flags ask for; if there are fewer, at
\* the last place where it changes at all
NextWord(t, x, y, flags, num) ==
  LET back == "back" \in flags
      step == IF back THEN -1 ELSE 1
      shift == IF back THEN 1 ELSE 0
      column(p) == (p % (Width + 1)) - shift
      row(p) == p \div (Width + 1)
      class(p) == WordClass(t, column(p), row(p), "big" \in flags)
      first == y * (Width + 1) + x + shift + (IF {"end", "move"} \subseteq flags THEN step ELSE 0)
      ahead == IF back THEN 0 .. first - 1 ELSE first + 1 .. TotalRows * (Width + 1) - 1
      ends(p) == "end" \in flags /\ class(p - step) # 0
      hit(p) == IF "end" \in flags THEN ends(p) ELSE class(p) # 0
      stop(changes) ==
        With(Nth({p \in changes : hit(p)}, num, back), LAMBDA nth :
          IF nth # {} THEN nth ELSE Nth(changes, Cardinality(changes), back))
      place(p) == <<column(p) - (IF ends(p) THEN step ELSE 0), row(p)>>
  IN With(With({p \in ahead : class(p) # class(p - step)}, stop), LAMBDA at :
       IF at = {} THEN <<x, y>> ELSE place(CHOOSE p \in at : TRUE))

-----------------------------------------------------------------------------
(* The screen                                                              *)

W2D(t, y) == y - t.off
D2W(t, y) == y + t.off
At(x, y) == y * Width + x
BlankCell == <<Blank, FALSE>>
INPUTLINE == Height - 1

\* the columns of the row y of the view are painted, and those that are marked stand
\* out; in a blank row nothing is to be done for blanks
Paint(t, y, columns, marked, isblank) ==
  LET l == WIN(t, D2W(t, y))
      painted(x) == x \in marked \/ (x \in columns /\ ~(isblank /\ Image(l, x) = Blank))
  IN [t EXCEPT !.scr[y + 1] = Tuple([i \in 1 .. Width |->
        IF painted(i - 1) THEN <<Image(l, i - 1), i - 1 \in marked>> ELSE @[i]])]

\* the columns from xs to xe of the row y that stand out; where the first of them is
\* a right half the code goes back by one, and counts on from where it was
Marked(t, y, xs, xe) ==
  LET l == WIN(t, D2W(t, y))
      sta == Least(At(t.x1, t.y1), At(t.cx, t.cy))
      sto == Most(At(t.x1, t.y1), At(t.cx, t.cy))
      in == {x \in xs .. xe : At(x, D2W(t, y)) >= sta /\ x >= t.left}
      stands(first, left) == /\ left \in Whole(l, first) .. xe /\ left <= Least(t.right, LastInk(l))
                             /\ At(left, D2W(t, y)) + first - Whole(l, first) <= sto
  IN With(IF in = {} THEN xe + 1 ELSE CHOOSE x \in in : \A z \in in : x <= z, LAMBDA first :
       {x \in Whole(l, first) .. Width - 1 : stands(first, Whole(l, x))})

\* columns xs to xe of the row y, once the marks are set or not
MarkRedisplayLine(t, y, xs, xe, isblank) ==
  LET l == WIN(t, D2W(t, y))
      low == IF ~t.second /\ RightHalf(l, xs) /\ xs > 0 THEN xs - 1 ELSE xs
      high == IF ~t.second /\ LeftHalf(l, xe) /\ xe < Width - 1 THEN xe + 1 ELSE xe
  IN IF y < 0 THEN t ELSE Paint(t, y, low .. high, IF t.second THEN Marked(t, y, xs, xe) ELSE {}, isblank)

Redrawn(t, ys, isblank) ==
  FoldSet(LAMBDA y, u : MarkRedisplayLine(u, y, 0, Width - 1, isblank), t, ys)

\* MarkScrollUpDisplay; MarkScrollDownDisplay if n is negative
MarkScroll(t, n) ==
  LET m == IF n > 0 THEN Least(n, Hist - t.off) ELSE Least(-n, t.off)
      i == Least(m, Height)
      new == [k \in 1 .. i |-> [x \in 1 .. Width |-> BlankCell]]
      moved == IF n > 0 THEN SubSeq(t.scr, i + 1, Height) \o Tuple(new) ELSE Tuple(new) \o SubSeq(t.scr, 1, Height - i)
  IN Redrawn([t EXCEPT !.off = IF n > 0 THEN @ + m ELSE @ - m, !.scr = moved],
             IF n > 0 THEN Height - i .. Height - 1 ELSE 0 .. i - 1, TRUE)

\* of the rows that were seen before, what was between the old and the new cursor
Repaint(old, t) ==
  LET qq == At(t.x1, t.y1)
      ff == At(old.cx, old.cy)
      tt == At(t.cx, t.cy)
      st == IF Least(ff, tt) > qq THEN Least(ff, tt) + 1 ELSE Least(ff, tt)
      en == IF Most(ff, tt) < qq THEN Most(ff, tt) - 1 ELSE Most(ff, tt)
      l(y) == WIN(t, D2W(t, y))
      touched(y) == {x \in t.left .. Least(t.right, LastInk(l(y))) : x < Width /\ At(x, D2W(t, y)) \in st .. en}
      columns(y) == {x \in 0 .. Width - 1 : \E z \in touched(y) : Whole(l(y), z) = Whole(l(y), x)}
      marked(p, first) == p <= Most(tt, qq) /\ (p >= Least(tt, qq) \/ (first /\ p + 1 = Least(tt, qq)))
      mark(y, x) == marked(At(x, D2W(t, y)), x \notin touched(y))
  IN FoldSet(LAMBDA y, u : With(columns(y), LAMBDA c : Paint(u, y, c, {x \in c : mark(y, Whole(l(y), x))}, FALSE)),
             t, Most(0, old.off - t.off) .. Height - 1 - Most(0, t.off - old.off))

\* the cursor goes to (tx, ty), shown in the row line of the view if there is such
\* a row
revto_line(t, tx0, ty0, line) ==
  LET ty == Clip(ty0, 0, TotalRows - 1)
      tx1 == Clip(tx0, 0, Width - 1)
      l == WIN(t, ty)
      tx == IF ty = t.cy /\ t.cx + 1 = tx1 /\ RightHalf(l, tx1) /\ tx1 < Width - 1 THEN tx1 + 1
            ELSE IF ty = t.cy /\ t.cx - 1 = tx1 /\ RightHalf(l, t.cx) /\ tx1 > 0 THEN tx1 - 1
            ELSE tx1
      i == IF line \in 0 .. Height - 1 THEN W2D(t, ty) - line
           ELSE IF ty < t.off THEN ty - t.off
           ELSE IF ty > t.off + Height - 1 THEN ty - t.off - (Height - 1)
           ELSE 0
  IN With(MarkScroll([t EXCEPT !.cx = tx, !.cy = ty], i), LAMBDA u : IF t.second THEN Repaint(t, u) ELSE u)

revto(t, tx, ty) == revto_line(t, tx, ty, -1)

\* MarkRewrite: may the display write the columns xs to xe of a row once more, with
\* the rendition so, to move its cursor?  The position is that of xs for all of them
MarkRewrite(t, y, xs, xe, so) ==
  LET sta == Least(At(t.x1, t.y1), At(t.cx, t.cy))
      sto == Most(At(t.x1, t.y1), At(t.cx, t.cy))
      in == t.second /\ At(xs, D2W(t, y)) \in sta .. sto
  IN \A x \in xs .. xe : so = (in /\ x \in t.left .. Least(t.right, LastInk(WIN(t, D2W(t, y)))))

-----------------------------------------------------------------------------
(* What is copied                                                          *)

\* rem: where the lines of the region begin and end
Ends(t) == IF At(t.cx, t.cy) < At(t.x1, t.y1) THEN <<t.cx, t.cy, t.x1, t.y1>> ELSE <<t.x1, t.y1, t.cx, t.cy>>
From(t, y) == LET e == Ends(t) IN Most(IF y = e[2] THEN e[1] ELSE 0, t.left)
ToInk(t, y) == Least(LastInk(WIN(t, y)), t.right)  \* variant: to the end of the last line, too
To(t, y) ==
  LET e == Ends(t)
      ink == LastInk(WIN(t, y))
  IN Least(IF y = e[4] THEN Least(e[3], ink) ELSE ink, t.right)

\* what is put between lines, with join_with_cr off, and before what is appended
LineGlue(nonl) == CASE nonl = 0 -> <<"CR">> [] nonl = 1 -> <<>> [] nonl = 2 -> <<"SP">> [] nonl = 3 -> <<"comma">>
BufferGlue(nonl) == IF nonl = 0 THEN <<"LF">> ELSE LineGlue(nonl)

\* the text of the region; the right half of a character is hidden
Region(t) ==
  LET piece(y) ==
        LET l == WIN(t, y)
            from == Whole(l, From(t, y))
            text == SelectSeq(Tuple([i \in 1 .. Most(0, To(t, y) - from + 1) |-> Image(l, from + i - 1)]),
                              LAMBDA c : c # Right)
            apart == y # Ends(t)[4] /\ (To(t, y) # Width - 1 \/ Image(l, Width) = Blank)
        IN text \o (IF apart THEN LineGlue(t.nonl) ELSE <<>>)
  IN FlattenSeq(Tuple([i \in 1 .. Ends(t)[4] - Ends(t)[2] + 1 |-> piece(Ends(t)[2] + i - 1)]))

\* the region no longer stands out
Unmark(t, redisplay, yend) ==
  LET rows == {y \in Most(0, W2D(t, Ends(t)[2])) .. Least(yend, W2D(t, Ends(t)[4])) :
                 From(t, D2W(t, y)) <= To(t, D2W(t, y))}
  IN FoldSet(LAMBDA y, v : MarkRedisplayLine(v, y, From(t, D2W(t, y)), To(t, D2W(t, y)), FALSE),
             [t EXCEPT !.second = FALSE], IF redisplay THEN rows ELSE {})

\* the layer goes away and the window is seen again: LRefreshAll
Window(t) == [t EXCEPT !.scr = Tuple([y \in 1 .. Height |-> [x \in 1 .. Width |-> <<WIN(t, Hist + y - 1).c[x], FALSE>>]])]

\* the view goes back to the end of the text if it is in sight; how many rows of it
\* are as they were
Return(t) == IF Hist - t.off < Height THEN MarkScroll([t EXCEPT !.second = FALSE], Hist - t.off) ELSE t
Leave(t, redisplay) ==
  With(Return(t), LAMBDA u :
       [(IF u.off # Hist THEN Window(u) ELSE Unmark(u, redisplay, Height - 1 - (u.off - t.off)))
        EXCEPT !.mode = "left"])

MarkAbortLate(t) == LET u == [t EXCEPT !.second = FALSE] IN Leave(u, u.second)  \* variant: redisp is read too late
MarkAbort(t) == Leave(t, t.second)

\* the second mark
Copied(t, text) ==
  LET old == IF t.append THEN t.buf ELSE <<>>
      glue == IF t.append THEN BufferGlue(t.nonl) ELSE <<>>
  IN [Leave([t EXCEPT !.second = FALSE], text # <<>>) EXCEPT
       !.buf = IF text = <<>> THEN old ELSE old \o glue \o text]
CopyRegion(t) == Copied(t, Region(t))

FirstMark(t) == revto([t EXCEPT !.second = TRUE, !.x1 = t.cx, !.y1 = t.cy], t.cx, t.cy)
SetMark(t) == IF t.second THEN CopyRegion(t) ELSE FirstMark(t)

-----------------------------------------------------------------------------
(* Searching for a pattern                                                 *)

Matches(t, str, y, x) ==
  str # <<>> /\ x + Len(str) <= Width /\ \A i \in DOMAIN str : Image(WIN(t, y), x + i - 1) = str[i]
Found(t, forward) ==
  {p \in 0 .. TotalRows * Width - 1 : /\ IF forward THEN p > At(t.cx, t.cy) ELSE p < At(t.cx, t.cy)
                                      /\ Matches(t, t.isstr, p \div Width, p % Width)}
GoTo(t, p) == revto(t, p % Width, p \div Width)

\* searchend, backsearchend: buf is what was typed, if anything was
SearchEnd(t, forward, buf) ==
  LET u == [t EXCEPT !.isdir = IF forward THEN 1 ELSE -1, !.isstr = IF buf = <<>> THEN @ ELSE buf]
      found == Found(u, forward)
  IN IF found = {} THEN u
     ELSE GoTo(u, CHOOSE p \in found : \A q \in found : IF forward THEN p <= q ELSE p >= q)
SearchAgain(t) == IF t.isdir = 0 THEN t ELSE SearchEnd(t, t.isdir > 0, <<>>)

\* variant: the first entry for a character is kept, not the last
TabFirst(pattern, c) ==
  LET known == {i \in 1 .. Len(pattern) - 1 : pattern[i] = c}
  IN IF known = {} THEN Len(pattern) ELSE Len(pattern) - (CHOOSE i \in known : \A j \in known : i <= j)
\* how far the pattern can be moved if it is compared with c first
Tab(pattern, c) ==
  LET known == {i \in 1 .. Len(pattern) - 1 : pattern[i] = c}
  IN IF known = {} THEN Len(pattern) ELSE Len(pattern) - Greatest(known)

\* is_bm: the text is one string here; the shift goes by the last character of the
\* pattern, or the first one when it goes back
is_bm(t, str, start, dir) ==
  LET l == Len(str)
      end == TotalRows * Width
      char(q) == Image(WIN(t, q \div Width), q % Width)
      pattern == IF dir > 0 THEN str ELSE Reverse(str)
      scan[p \in -l .. end + l] ==
        IF p \notin 0 .. end - 1 THEN -1
        ELSE IF \A i \in 0 .. l - 1 : char(p - i * dir) = pattern[l - i]
        THEN (IF dir > 0 THEN p - l + 1 ELSE p)
        ELSE scan[p + dir * Tab(pattern, char(p))]
  IN IF start < 0 \/ start + l > end THEN -1
     ELSE IF l = 0 THEN start
     ELSE scan[IF dir > 0 THEN start + l - 1 ELSE start]

\* is_redo: the keys that are left are followed once more from the start
is_redo(t) ==
  LET step(r, k) ==
        LET d == CASE k = "^R" -> -1 [] k = "^S" -> 1 [] OTHER -> r.dir
            str == IF k \in {"^R", "^S"} THEN r.str ELSE Append(r.str, k)
            pos == IF k \in {"^R", "^S"} THEN r.pos + d ELSE r.pos
            npos == IF pos >= 0 THEN is_bm(t, str, pos, d) ELSE r.npos
        IN [dir |-> d, str |-> str, npos |-> npos, pos |-> IF pos >= 0 /\ npos >= 0 THEN npos ELSE pos]
  IN FoldLeft(step, [dir |-> t.isstartdir, str |-> <<>>, pos |-> t.isstartpos, npos |-> t.isstartpos], t.isistr)

-----------------------------------------------------------------------------
(* The prompt on the last row.  Every prompt is one column wide here        *)

NoInput == [kind |-> "none", buf |-> <<>>, pos |-> 0, x |-> 0]
Kinds == {"/", "?", "I"}  \* INP_COOKED for searchend and backsearchend; INP_RAW for is_process
PromptLen == 1
MaxLen == Width - 1 - PromptLen
Stand(seq) == Tuple([i \in DOMAIN seq |-> <<seq[i], TRUE>>])
None(n) == [i \in 1 .. n |-> BlankCell]
\* LPutChar, LClearArea on INPUTLINE
PutInput(t, x, cells) ==
  [t EXCEPT !.scr[Height] = SubSeq(@, 1, x) \o SubSeq(cells, 1, Least(Len(cells), Width - x)) \o SubSeq(@, x + Len(cells) + 1, Width)]

InpRedisplayLine(t) ==
  LET shown == Stand(<<t.inp.kind>> \o t.inp.buf) \o None(Width)
  IN PutInput(t, 0, SubSeq(shown, 1, Width))
inp_setprompt(t, str) == InpRedisplayLine([t EXCEPT !.inp.buf = str, !.inp.pos = Len(str)])
Input(t, kind) == inp_setprompt([t EXCEPT !.inp = [NoInput EXCEPT !.kind = kind, !.x = PromptLen]], <<>>)

\* InpAbort: the layer below draws the row
InpAbort(t) == MarkRedisplayLine([t EXCEPT !.inp = NoInput], INPUTLINE, 0, Width - 1, FALSE)

\* the characters from + 1 to to leave the buffer; x is the cursor's column, and
\* what the caller keeps in x does not change
EraseChars(t, from, to, x, mv) ==
  LET n == to - from
      rest == SubSeq(t.inp.buf, to + 1, Len(t.inp.buf))
      u == [t EXCEPT !.inp.buf = SubSeq(@, 1, from) \o rest, !.inp.pos = IF mv THEN @ - n ELSE @]
  IN PutInput(u, IF mv THEN x - n ELSE x, Stand(rest) \o None(n))

WordBefore(buf, pos) ==  \* CTRL-W
  LET inks == {i \in 1 .. pos : i = 1 \/ buf[i] # Blank}
      last == Greatest(inks)
      blanks == {i \in 1 .. last - 1 : buf[i] = Blank}
  IN IF blanks = {} THEN 0 ELSE Greatest(blanks)

Edit(t, k) ==
  LET b == t.inp
      len == Len(b.buf)
      x == b.x
      rest == SubSeq(b.buf, b.pos + 1, len)
  IN CASE k \notin Controls /\ len < MaxLen ->
            PutInput([t EXCEPT !.inp.buf = SubSeq(@, 1, b.pos) \o <<k>> \o rest, !.inp.pos = @ + 1,
                               !.inp.x = IF rest = <<>> THEN x + 1 ELSE PromptLen + b.pos + 1],
                     x, Stand(<<k>> \o rest))
       [] k = "BS" /\ b.pos > 0 -> EraseChars(t, b.pos - 1, b.pos, x, TRUE)
       [] k = "^W" /\ b.pos > 0 -> EraseChars(t, WordBefore(b.buf, b.pos), b.pos, x, TRUE)
       [] k = "^D" /\ b.pos < len -> EraseChars(t, b.pos, b.pos + 1, x, FALSE)
       [] k = "^U" -> PutInput([t EXCEPT !.inp.buf = <<>>, !.inp.pos = 0, !.inp.x = PromptLen], PromptLen, None(len))
       [] k = "^K" -> PutInput([t EXCEPT !.inp.buf = SubSeq(@, 1, b.pos), !.inp.x = PromptLen + b.pos],
                               PromptLen + b.pos, None(len - b.pos))
       [] k = "^A" -> [t EXCEPT !.inp.pos = 0, !.inp.x = x - b.pos]
       [] k = "^E" -> [t EXCEPT !.inp.pos = len, !.inp.x = x + len - b.pos]
       [] k = "^B" /\ b.pos > 0 -> [t EXCEPT !.inp.pos = @ - 1, !.inp.x = x - 1]
       [] k = "^F" /\ b.pos < len -> [t EXCEPT !.inp.pos = @ + 1, !.inp.x = x + 1]
       [] k = "^P" ->
            LET h == t.inphist
                cleared == PutInput(t, PromptLen, None(len))
            IN PutInput([cleared EXCEPT !.inp.buf = h.buf, !.inp.pos = h.pos, !.inp.x = PromptLen + h.pos],
                        PromptLen, Stand(h.buf))
       [] OTHER -> t

\* a search that ended on the input line would be hidden by the prompt
OffInputLine(t) ==
  IF W2D(t, t.cy) = INPUTLINE THEN revto_line(t, t.cx, t.cy, IF INPUTLINE > 0 THEN INPUTLINE - 1 ELSE 1) ELSE t
\* is_process, once the new position is known
Moved(t, pos, ended) ==
  With(IF pos < 0 THEN t ELSE OffInputLine(GoTo(MarkRedisplayLine(t, INPUTLINE, 0, Width - 1, FALSE), pos)),
       LAMBDA u : IF ended THEN InpAbort(u) ELSE inp_setprompt(u, SubSeq(t.isstr, 1, t.isstrl)))
Search(t, pos) == Moved(t, is_bm(t, SubSeq(t.isstr, 1, t.isstrl), pos, t.isdir), FALSE)

\* the key that is taken back is the last one, or the one that did not match
TakenBack(t, left) ==
  LET u == [t EXCEPT !.isistr = SubSeq(left, 1, Len(left) - 1)]
  IN With(is_redo(u), LAMBDA r :
       Moved([u EXCEPT !.isstr = r.str, !.isstrl = Len(r.str), !.isdir = r.dir], r.npos, FALSE))
\* the pattern grows, is that of the search before, or is searched on
Advance(t, k) ==
  LET pos == At(t.cx, t.cy)
      dir == IF k = "^S" THEN 1 ELSE -1
  IN IF k \in Controls /\ t.isdir = dir /\ t.isistr = <<>>
     THEN Search([t EXCEPT !.isistr = t.isstr, !.isstrl = Len(t.isstr)], pos + dir)
     ELSE IF k \in Controls THEN Search([t EXCEPT !.isdir = dir, !.isistr = Append(@, k)], pos + dir)
     ELSE Search([t EXCEPT !.isstr = SubSeq(@, 1, t.isstrl) \o <<k>>, !.isstrl = @ + 1,
                           !.isistr = Append(@, k)], pos)

is_process(t, k) ==
  LET left == IF k = "BS" THEN t.isistr ELSE SubSeq(t.isistr \o <<k>>, 1, 1)
  IN CASE k \in {"^G", "ESC"} -> Moved(t, IF k = "^G" THEN t.isstartpos ELSE At(t.cx, t.cy), TRUE)
       [] k \in {"BS", "^K", "^W"} -> IF left = <<>> THEN t ELSE TakenBack(t, left)
       [] k \in {"^S", "^R"} \/ k \notin Controls -> Advance(t, k)
       [] OTHER -> t

ISearch(t, dir) ==
  Input(OffInputLine([t EXCEPT !.isdir = dir, !.isstartdir = dir, !.isstartpos = At(t.cx, t.cy),
                               !.isistr = <<>>, !.isstrl = 0]), "I")

\* InpProcess; a prompt that is given up searches for the last pattern
InpProcess(t, k) ==
  LET buf == IF k \in {"NL", "CR"} THEN t.inp.buf ELSE <<>>
      u == IF buf = <<>> THEN t ELSE [t EXCEPT !.inphist = [buf |-> buf, pos |-> t.inp.pos]]
  IN IF t.inp.kind = "I" THEN is_process(t, k)
     ELSE IF k \in {"NL", "CR", "ESC", "^G"} THEN SearchEnd(InpAbort(u), t.inp.kind = "/", buf)
     ELSE Edit(t, k)

-----------------------------------------------------------------------------
(* The keys                                                                *)

Count(t, default) == IF t.rep = 0 THEN default ELSE t.rep
Opposite == [f |-> "F", F |-> "f", t |-> "T", T |-> "t"]
Aim(t, direction, target) == <<NextChar(t, t.cx, t.cy, direction, target, Count(t, 1)), t.cy>>

\* where a key takes the cursor
Aims(t, k) ==
  LET n == Count(t, 1)
      down == Least(t.cy + n, TotalRows - 1)
      up == Most(t.cy - n, 0)
  IN CASE k \in {"h", "BS"} -> <<t.cx - n, t.cy>>
       [] k = "l" -> <<t.cx + n, t.cy>>
       [] k \in {"j", "^N"} -> <<t.cx, t.cy + n>>
       [] k \in {"k", "^P"} -> <<t.cx, t.cy - n>>
       [] k = "+" -> <<LineStart(t, down), down>>
       [] k = "-" -> <<LineStart(t, up), up>>
       [] k = "^" -> <<LineStart(t, t.cy), t.cy>>
       [] k = "NL" -> <<t.left, t.cy + 1>>
       [] k \in {"0", "^A"} -> <<t.left, t.cy>>
       [] k = "$" -> <<LineEnd(t, t.cy), t.cy>>
       [] k = "^B" -> <<t.cx, t.cy - n * Height>>
       [] k = "^F" -> <<t.cx, t.cy + n * Height>>
       [] k = "H" -> <<t.left, D2W(t, 0)>>
       [] k = "M" -> <<t.left, D2W(t, (Height - 1) \div 2)>>
       [] k = "L" -> <<t.left, D2W(t, Height - 1)>>
       [] k = "|" -> <<t.rep - 1, t.cy>>
       [] k = "w" -> NextWord(t, t.cx, t.cy, {"move"}, n)
       [] k = "e" -> NextWord(t, t.cx, t.cy, {"move", "end"}, n)
       [] k = "E" -> NextWord(t, t.cx, t.cy, {"move", "end", "big"}, n)
       [] k = "b" -> NextWord(t, t.cx, t.cy, {"move", "end", "back"}, n)
       [] k = "B" -> NextWord(t, t.cx, t.cy, {"move", "end", "back", "big"}, n)
       [] k = ";" /\ t.target # Blank -> Aim(t, t.direction, t.target)
       [] k = "," /\ t.target # Blank -> Aim(t, Opposite[t.direction], t.target)
       [] OTHER -> <<>>

\* the row a key takes the cursor to, and the row of the view it is to be seen in
Rows0(t, k) ==
  CASE k = "^D" -> <<t.cx, t.cy + Count(t, (Height + 1) \div 2), W2D(t, t.cy)>>
    [] k = "^U" -> <<t.cx, t.cy - Count(t, (Height + 1) \div 2), W2D(t, t.cy)>>
    [] k = "%" -> <<t.left, (Clip(t.rep - 1, 0, 100) * TotalRows) \div 100, (Height - 1) \div 2>>
    [] k = "g" -> <<t.left, 0, (Height - 1) \div 2>>
    [] k = "G" -> <<t.left, Count(t, TotalRows) - 1, (Height - 1) \div 2>>
    [] OTHER -> <<>>

\* the view moves, and the cursor only if it would be out of it
ScrollUp(t) ==
  With(MarkScroll(t, Count(t, 1)), LAMBDA u : IF u.cy < u.off THEN revto(u, u.cx, u.off) ELSE u)
ScrollDown(t) ==
  With(MarkScroll(t, -Count(t, 1)), LAMBDA u :
       IF W2D(u, u.cy) > Height - 1 THEN revto(u, u.cx, D2W(u, Height - 1)) ELSE u)

Exchange(t) == IF t.second THEN revto([t EXCEPT !.cx = t.x1, !.cy = t.y1, !.x1 = t.cx, !.y1 = t.cy], t.x1, t.y1) ELSE t

\* c and C set a margin; v sets the left one to column 9 or 1
SetMargin(t, k) ==
  LET n == IF k = "v" THEN (IF t.left = 8 THEN 1 ELSE 9) ELSE t.rep
      column == IF n = 0 THEN t.cx ELSE n - 1
      set(u) == IF k = "C" THEN [u EXCEPT !.right = Most(column, t.left)] ELSE [u EXCEPT !.left = Least(column, t.right)]
  IN IF t.second THEN revto([set(Unmark(t, TRUE, Height - 1)) EXCEPT !.second = TRUE, !.cx = t.x1, !.cy = t.y1], t.cx, t.cy)
     ELSE set(t)

\* y and Y: from the start of a line to the end of the same one or of one below
MarkAt(t, x, y) ==
  IF t.second THEN t
  ELSE With(revto(t, x, y), LAMBDA u : [u EXCEPT !.second = TRUE, !.x1 = u.cx, !.y1 = u.cy])
ToLineEnd(t) == revto(t, LineEnd(t, t.cy), t.cy)
Below(t) == IF t.rep > 1 THEN revto(t, t.cx, t.cy + t.rep - 1) ELSE t
MarkLines(t) == ToLineEnd(Below(MarkAt(t, LineStart(t, t.cy), t.cy)))
\* W: to the end of the word, and from its start if the mark is not set yet
ToPlace(t, p) == revto(t, p[1], p[2])
ToWordEnd(t) == ToPlace(t, NextWord(t, t.cx, t.cy, {"end"}, Count(t, 1)))
MarkWord(t) ==
  LET start == NextWord(t, t.cx, t.cy, {"back", "end"}, 1)
  IN ToWordEnd(MarkAt(t, start[1], start[2]))

\* a key that is neither a digit nor the target of f, F, t or T
Command(t, k) == With(With(Aims(t, k), LAMBDA aim : IF aim = <<>> THEN Rows0(t, k) ELSE Append(aim, -1)), LAMBDA to :
  CASE to # <<>> -> revto_line(t, to[1], to[2], to[3])
       [] k = "^E" -> ScrollUp(t)
       [] k = "^Y" -> ScrollDown(t)
       [] k \in {"o", "x"} -> Exchange(t)
       [] k \in {"c", "C", "v"} -> SetMargin(t, k)
       [] k = "a" -> [t EXCEPT !.append = ~@]
       [] k = "J" -> [t EXCEPT !.nonl = (@ + 1) % 4]
       [] k \in {"/", "?"} -> Input(t, k)
       [] k \in {"^S", "^R"} -> ISearch(t, IF k = "^S" THEN 1 ELSE -1)
       [] k = "n" -> SearchAgain(t)
       [] k = "N" -> [SearchAgain([t EXCEPT !.isdir = -@]) EXCEPT !.isdir = -@]
       [] k = "y" -> MarkLines(t)
       [] k \in {"Y", "W", "A", Blank, "CR", ">"} ->  \* > also writes the buffer to a file
            SetMark(IF k = "Y" THEN MarkLines(t) ELSE IF k = "W" THEN MarkWord(t) ELSE [t EXCEPT !.append = @ \/ k = "A"])
       [] k \in {"@", ";", ",", "^G", "^L"} -> t
       [] OTHER -> MarkAbort(t))

MarkProcess(t, k) ==
  IF t.f /\ k \notin Controls \union {Blank}
     THEN [ToPlace([t EXCEPT !.f = FALSE, !.target = k], Aim(t, t.direction, k)) EXCEPT !.rep = 0]
     ELSE IF k \in DOMAIN Digits /\ ~t.f /\ t.rep < 1001 /\ (k # "0" \/ t.rep # 0)
     THEN [t EXCEPT !.rep = 10 * @ + Digits[k]]
     ELSE IF k \in DOMAIN Opposite THEN [t EXCEPT !.f = TRUE, !.direction = k]
     ELSE [Command([t EXCEPT !.f = FALSE], k) EXCEPT !.rep = 0]

\* the keys of one read; the layer on top gets them
Key(t, k) == IF t.mode = "left" THEN t ELSE IF t.inp.kind # "none" THEN InpProcess(t, k) ELSE MarkProcess(t, k)
Keys(t, ks) ==
  FoldLeft(Key, [t EXCEPT !.inp.x = IF t.inp.kind = "none" THEN 0 ELSE PromptLen + t.inp.pos], ks)

\* MarkRoutine
Entered(text, cursor, buf) ==
  LET x == Least(cursor[1], Width - 1)
      y == Hist + cursor[2]
  IN Window([lines |-> text, off |-> Hist, cx |-> x, cy |-> y, x1 |-> x, y1 |-> y, second |-> FALSE,
             left |-> 0, right |-> Width - 1, nonl |-> 0, rep |-> 0, append |-> FALSE, buf |-> buf,
             f |-> FALSE, target |-> Blank, direction |-> "f", mode |-> "mark",
             isstr |-> <<>>, isstrl |-> 0, isdir |-> 0, isistr |-> <<>>, isstartpos |-> 0, isstartdir |-> 0,
             inp |-> NoInput, inphist |-> [buf |-> <<>>, pos |-> 0], scr |-> <<>>])

Init ==
  /\ chunks = 0
  /\ \E text \in Texts, cursor \in Cursors, keys \in Started : s = Keys(Entered(text, cursor, <<"old">>), keys)

Type(ks) == s.mode = "mark" /\ chunks < MaxChunks /\ chunks' = chunks + 1 /\ s' = Keys(s, ks)
Next == \E ks \in Chunks : Type(ks)
Spec == Init /\ [][Next]_vars

-----------------------------------------------------------------------------
(* Properties                                                              *)

\* the text between the mark and the cursor, within the margins; of a character
\* that takes two cells one half in it is enough
InRegion(x, y) ==
  /\ s.second /\ x \in s.left .. Least(s.right, LastInk(WIN(s, y)))
  /\ At(x, y) \in Least(At(s.x1, s.y1), At(s.cx, s.cy)) .. Most(At(s.x1, s.y1), At(s.cx, s.cy))
Halves(x, y) == {z \in 0 .. Width - 1 : Whole(WIN(s, y), z) = Whole(WIN(s, y), x)}
Should(x, y) == <<WIN(s, y).c[x + 1], \E z \in Halves(x, y) : InRegion(z, y)>>
Viewed == IF s.inp.kind = "none" THEN 0 .. Height - 1 ELSE 0 .. Height - 2

\* the cursor is in the view, and the view is a part of the text
CursorInView ==
  /\ chunks \in 0 .. MaxChunks /\ s.off \in 0 .. Hist
  /\ s.cx \in 0 .. Width - 1 /\ s.cy \in 0 .. TotalRows - 1
  /\ s.mode = "mark" => W2D(s, s.cy) \in 0 .. Height - 1
  /\ 0 <= s.left /\ s.left <= s.right /\ s.right < Width
Highlighted ==
  s.mode = "mark" => \A y \in Viewed, x \in 0 .. Width - 1 : s.scr[y + 1][x + 1] = Should(x, D2W(s, y))
Restored == s.mode = "left" => s = Window(s)
PromptShown ==
  s.inp.kind # "none" =>
    s.scr[Height] = SubSeq(Stand(<<s.inp.kind>> \o s.inp.buf) \o None(Width), 1, Width)

\* ScreenExact: the cursor is in the view; the screen shows the text that is in the
\* view, and of it what lies between the mark and the cursor stands out, though
\* no key repaints more than a part of it; the last row shows the prompt, if there
\* is one, and what was typed into it; and once copy mode is left the screen is
\* that of the window again
ScreenExact == CursorInView /\ Highlighted /\ PromptShown /\ Restored

\* CopiedIsHighlighted: what is added to the buffer is the text that stands out, if
\* all of it is in the view, with nothing but separators in between
Standing(row) == SelectSeq(row, LAMBDA c : c[2] /\ c[1] # Right)
CopiedIsHighlighted ==
  [][Type(<<Blank>>) /\ s.second /\ s.inp.kind = "none" /\ ~s.f /\ Ends(s)[2] >= s.off /\ Ends(s)[4] < s.off + Height =>
       LET added == SubSeq(s'.buf, IF s.append THEN Len(s.buf) + 1 ELSE 1, Len(s'.buf))
           standing == FlattenSeq([y \in 1 .. Height |-> Standing(s.scr[y])])
       IN SelectSeq(added, LAMBDA c : c \notin {"CR", "LF", "SP", "comma"}) = [i \in DOMAIN standing |-> standing[i][1]]]_vars

\* MotionsByWord: w goes to the next start of a word, e to the next end, b back to
\* a start, as long as there is one; a word does not go on in the next line
Idle == s.mode = "mark" /\ s.inp.kind = "none" /\ s.rep = 0 /\ ~s.f
Class(p) == IsLetter(Image(WIN(s, p \div Width), p % Width))
Positions == 0 .. TotalRows * Width - 1
WordStarts == {p \in Positions : Class(p) # 0 /\ (p % Width = 0 \/ Class(p - 1) # Class(p))}
WordEnds == {p \in Positions : Class(p) # 0 /\ (p % Width = Width - 1 \/ Class(p + 1) # Class(p))}
Here == At(s.cx, s.cy)
Next1(S) == {p \in S : p > Here /\ \A q \in S : q > Here => p <= q}
Before1(S) == {p \in S : p < Here /\ \A q \in S : q < Here => p >= q}
MotionsByWord ==
  [][\A k \in {"w", "e", "b"} : Idle /\ Type(<<k>>) =>
       CASE k = "w" -> Next1(WordStarts) \in {{}, {At(s'.cx, s'.cy)}}
         [] k = "e" -> Next1(WordEnds) \in {{}, {At(s'.cx, s'.cy)}}
         [] k = "b" -> Before1(WordStarts) \in {{}, {At(s'.cx, s'.cy)}}]_vars

\* WORDsAsInVi: E goes to the next end of a run of characters that are not blank
Inked(p) == Image(WIN(s, p \div Width), p % Width) # Blank
WORDEnds == {p \in Positions : Inked(p) /\ (p % Width = Width - 1 \/ ~Inked(p + 1))}
WORDsAsInVi == [][Idle /\ Type(<<"E">>) => Next1(WORDEnds) \in {{}, {At(s'.cx, s'.cy)}}]_vars

\* FindsNearest: the incremental search finds the occurrence of its pattern that is
\* nearest to where it starts, and finds one if there is one
Pattern == SubSeq(s.isstr, 1, s.isstrl)
Occurrences ==
  {p \in 0 .. TotalRows * Width - s.isstrl :
     \A i \in 1 .. s.isstrl : LET q == p + i - 1 IN Image(WIN(s, q \div Width), q % Width) = Pattern[i]}
FindsNearest ==
  s.inp.kind = "I" /\ s.isstrl > 0 => \A p \in Positions, dir \in {-1, 1} :
    LET ahead == {q \in Occurrences : IF dir > 0 THEN q >= p ELSE q <= p}
        q == is_bm(s, Pattern, p, dir)
    IN p + s.isstrl <= TotalRows * Width =>
         IF ahead = {} THEN q = -1 ELSE q \in ahead /\ \A r \in ahead : IF dir > 0 THEN q <= r ELSE q >= r

\* RewritesWhatIsShown: what the display writes once more is what is there
RewritesWhatIsShown ==
  s.mode = "mark" => \A y \in Viewed, xs, xe \in 0 .. Width - 1, so \in BOOLEAN :
    xs <= xe /\ MarkRewrite(s, y, xs, xe, so) => \A x \in xs .. xe : s.scr[y + 1][x + 1][2] = so

\* UndoneByBackspace: in an incremental search backspace takes back the last key,
\* and the cursor is where it was
UndoneByBackspace ==
  s.inp.kind = "I" /\ s.isstrl > 0 => \A k \in {"a", "b", "^S", "^R"} :
    LET t == is_process(s, k)
        u == is_process(t, "BS")
    IN Len(t.isistr) = Len(s.isistr) + 1 => u.isdir = s.isdir /\ u.cx = s.cx /\ u.cy = s.cy
=============================================================================
