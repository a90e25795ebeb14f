------------------------------ MODULE Terminal ------------------------------
(***************************************************************************)
(* The terminal that a window emulates (ansi.c): the bytes a program       *)
(* writes are decoded, parsed and carried out on the text of the window,   *)
(* piece by piece as they are read, while users resize the window and      *)
(* change its scrollback.                                                  *)
(*                                                                         *)
(* The window is the record t; a function of the code is an operator from  *)
(* records to records, an action is one call of WriteString or             *)
(* ChangeWindowSize.  Bytes are names: "ESC", "CR", "2", "H"; a character  *)
(* of several bytes is its first byte and "cont".                          *)
(***************************************************************************)
EXTENDS Lines

CONSTANTS
  Marks,    \* combining characters
  Singles, Doubles, Unknown,  \* the table of combined characters
  Chunks,   \* what is read at once
  Widths, Heights, Histories,  \* the sizes a window may get
  MaxArgs,  \* MAXARGS
  MaxStr,   \* MAXSTR
  Start,    \* the chunks that were written before: the first screens
  MaxEvents \* bound

ASSUME Sizes ==
  /\ Widths \subseteq Nat \ {0, 1} /\ Heights \subseteq Nat \ {0} /\ Histories \subseteq Nat
  /\ MaxArgs \in Nat \ {0} /\ MaxStr \in Nat \ {0, 1} /\ MaxEvents \in Nat
ASSUME Alphabet == {Right, Blank, Unknown} \intersect (Wide \union Marks) = {}

\* the bytes that are written, by programs and by the reset command
Bytes == {"ESC", "c"} \union UNION {ToSet(chunk) : chunk \in Chunks \union Start}
ASSUME ChunksOfBytes == Chunks \union Start \subseteq Seq(Bytes)

VARIABLES t, events
vars == <<t, events>>

C == INSTANCE Combining
ASSUME TableAssumption == C!CombiningAssumption
\* an entry is no character: its code is in the range of the surrogates
ASSUME NoCharacter ==
  C!Entries \intersect (Bytes \union Wide \union Marks \union {Right, Blank, Unknown, "E", "repl"}) = {}

Digits == <<"0", "1", "2", "3", "4", "5", "6", "7", "8", "9">>
Controls == {"NUL", "ESC", "BS", "CR", "LF", "HT"}
Multi == Wide \union Marks
Replacement == "repl"  \* UCS_REPL
States == {"LIT", "ESC", "CSI", "ASTR", "STRESC"}

-----------------------------------------------------------------------------
(* Cursor and margins                                                      *)

At(u, x, y) == [u EXCEPT !.x = x, !.y = y]

SaveCursor(u) == [u EXCEPT !.saved = TRUE, !.sx = u.x, !.sy = u.y]
RestoreCursor(u) == IF u.saved THEN At(u, u.sx, u.sy) ELSE u

BackSpace(u) ==
  IF u.x > 0 THEN At(u, u.x - 1, u.y)
  ELSE IF u.wrap /\ u.y > 0 THEN At(u, u.width - 1, u.y - 1) ELSE u

LineFeedBelow(u, cr) ==  \* below the bottom margin the screen has no end
  IF u.y # u.bot THEN At(u, IF cr THEN 0 ELSE u.x, u.y + 1) ELSE MScrollV(u, 1, u.top, u.bot)
LineFeed(u0, cr) ==
  LET u == IF cr THEN [u0 EXCEPT !.x = 0] ELSE u0
  IN IF u.y # u.bot THEN At(u, u.x, Least(u.y + 1, u.height - 1))
     ELSE MScrollV(u, 1, u.top, u.bot)

CursorUp(u, n) == At(u, u.x, Most(u.y - n, IF u.y < u.top THEN 0 ELSE u.top))
CursorDown(u, n) == At(u, u.x, Least(u.y + n, IF u.y > u.bot THEN u.height - 1 ELSE u.bot))
CursorLeft(u, n) == At(u, Most(u.x - n, 0), u.y)
\* the line feed of a cursor after the last column leaves x to be set by n
OffMargin(u) == IF u.x = u.width THEN LineFeed(u, TRUE) ELSE u
CursorRight(u0, n) == With(OffMargin(u0), LAMBDA u : At(u, Least(u.x + n, u.width - 1), u.y))

ReverseLineFeed(u) ==
  IF u.y = u.top THEN MScrollV(u, -1, u.top, u.bot)
  ELSE IF u.y > 0 THEN CursorUp(u, 1) ELSE u

\* the next tab stop after the cursor, or the last column
NextStop(u) ==
  LET stops == {i \in u.tabs \union {u.width - 1} : i > u.x /\ i < u.width}
  IN IF stops = {} THEN u ELSE At(u, CHOOSE i \in stops : \A j \in stops : i <= j, u.y)
ForwardTab(u) == NextStop(OffMargin(u))
BackwardTab(u) ==
  LET stops == {i \in u.tabs \union {0} : i < u.x}
  IN IF stops = {} THEN u ELSE At(u, CHOOSE i \in stops : \A j \in stops : i >= j, u.y)

GotoPos(u, row, column) ==  \* CSI H
  LET line == Most(row, 1) + (IF u.origin THEN u.top ELSE 0)
  IN At(u, Least(Most(column, 1), u.width) - 1, Least(line, u.height) - 1)

Home(u) == At(u, 0, IF u.origin THEN u.top ELSE 0)
SetMargins(u, a, b) ==  \* CSI r
  LET first == IF a = 0 THEN 1 ELSE a
      last == IF b = 0 THEN u.height ELSE b
  IN IF last > u.height \/ first >= last THEN u
     ELSE Home([u EXCEPT !.top = first - 1, !.bot = last - 1])

-----------------------------------------------------------------------------
(* Inserting, deleting, clearing                                           *)

Column(u) == Least(u.x, u.width - 1)
InsertChar(u, n) == MScrollH(u, -n, u.y, Column(u))
DeleteChar(u, n) == MScrollH(u, n, u.y, Column(u))
InMargins(u) == u.y \in u.top .. u.bot
DeleteLine(u, n) == IF InMargins(u) THEN MScrollV(u, n, u.y, u.bot) ELSE u
InsertLine(u, n) == IF InMargins(u) THEN MScrollV(u, -n, u.y, u.bot) ELSE u
ScrollRegion(u, n) == MScrollV(u, n, u.top, u.bot)

ClearScreen(u) == MScrollV(u, u.height, 0, u.height - 1)
ClearFromBOS(u) == MClearArea(u, 0, 0, u.x, u.y)
ClearToEOS(u) ==
  IF u.x = 0 /\ u.y = 0 THEN ClearScreen(u)
  ELSE MClearArea(u, u.x, u.y, u.width - 1, u.height - 1)
ClearLineRegion(u, from, to) == MClearArea(u, from, u.y, to, u.y)
FillWithEs(u) ==
  At([u EXCEPT !.ml = Tuple([i \in DOMAIN @ |-> [c |-> Tuple([j \in 1 .. u.width |-> "E"]), soft |-> FALSE]])], 0, 0)

DefaultTabs(width) == {i \in 1 .. width - 1 : i % 8 = 0}
ResetWindow(u) ==
  At([u EXCEPT !.wrap = TRUE, !.origin = FALSE, !.insert = FALSE, !.saved = FALSE,
               !.top = 0, !.bot = u.height - 1, !.state = "LIT",
               !.tabs = DefaultTabs(u.width) \union (@ \intersect {u.width})], 0, 0)

-----------------------------------------------------------------------------
(* Printing                                                                *)

\* a mark goes to the character before the cursor, which may be in the line above
Combine(u, c) ==
  LET y == IF u.x = 0 THEN Most(u.y - 1, 0) ELSE u.y
      before == IF u.x = 0 THEN u.width - 1 ELSE u.x - 1
      x == IF IsRight(Line(u, y), before) THEN before - 1 ELSE before
  IN IF x < 0 THEN u
     ELSE With(C!utf8_handle_comb(u.comb, c, Line(u, y).c[x + 1]),
               LAMBDA r : [u EXCEPT !.comb = r.table, !.ml[y + 1].c[x + 1] = r.cell])

\* a wide character does not start in the last column.  WideAnywhere: it does
WideAnywhere(u, c) == u.x
PrintColumn(u, c) ==
  IF c \in Wide /\ u.x = u.width - 1 THEN (IF u.wrap THEN u.x + 1 ELSE u.x - 1) ELSE u.x

PutAt(u, c, x) ==
  LET last == u.width - 1
      down == u.y # u.bot /\ u.y # u.height - 1
      half == IF c \in Wide THEN 1 ELSE 0
  IN IF x < last
     THEN [(IF u.insert THEN MInsChar(u, c, x, u.y) ELSE MPutChar(u, c, x, u.y)) EXCEPT !.x = x + 1 + half]
     ELSE IF x = last
     THEN [MPutChar(u, c, x, u.y) EXCEPT !.x = IF u.wrap THEN x + 1 ELSE x]
     ELSE [MWrapChar(u, c, u.y) EXCEPT !.x = 1 + half, !.y = IF down THEN u.y + 1 ELSE u.y]

PutText(u, c) == IF c \in Marks THEN Combine(u, c) ELSE PutAt(u, c, PrintColumn(u, c))

-----------------------------------------------------------------------------
(* Escape sequences                                                        *)

Special(u, c) ==
  CASE c = "BS" -> BackSpace(u)
    [] c = "CR" -> [u EXCEPT !.x = 0]
    [] c = "LF" -> LineFeed(u, FALSE)
    [] c = "HT" -> ForwardTab(u)
    [] OTHER -> u
IsSpecial(c) == c \in {"BS", "CR", "LF", "HT"}

DoESC(u, c) ==
  IF u.interm # "" THEN (IF u.interm = "#" /\ c = "8" THEN FillWithEs(u) ELSE u)
  ELSE CASE c = "E" -> LineFeed(u, TRUE)
         [] c = "D" -> LineFeed(u, FALSE)
         [] c = "M" -> ReverseLineFeed(u)
         [] c = "H" -> [u EXCEPT !.tabs = @ \union {u.x}]
         [] c = "7" -> SaveCursor(u)
         [] c = "8" -> RestoreCursor(u)
         [] c = "c" -> ResetWindow(ClearScreen(u))
         [] OTHER -> u

Arg(u, i) == IF i <= Len(u.args) /\ i <= MaxArgs THEN u.args[i] ELSE 0
NumArgs(u) == Least(Len(u.args), MaxArgs)
Times(n) == IF n = 0 THEN 1 ELSE n

\* CSI ? h and CSI ? l
SetMode(u, mode, on) ==
  CASE mode = 6 -> Home([u EXCEPT !.origin = on])
    [] mode = 7 -> [u EXCEPT !.wrap = on]
    [] mode \in {47, 1047, 1049} ->
         IF on THEN EnterAltScreen(u)
         ELSE [LeaveAltScreen(u) EXCEPT !.saved = IF mode = 47 THEN FALSE ELSE @]
    [] OTHER -> u
\* CSI h and CSI l
ASetMode(u, mode, on) == IF mode = 4 THEN [u EXCEPT !.insert = on] ELSE u
Modes(u, F(_, _, _), on) ==
  FoldLeft(LAMBDA v, mode : F(v, mode, on), u, [i \in 1 .. NumArgs(u) |-> u.args[i]])

Repeat(u, F(_), n) == FoldLeft(LAMBDA v, i : F(v), u, [i \in 1 .. n |-> i])

Edit(u, c, n) ==
  CASE c = "u" -> RestoreCursor(u)
    [] c = "I" -> Repeat(u, ForwardTab, n)
    [] c = "Z" -> Repeat(u, BackwardTab, n)
    [] c = "L" -> InsertLine(u, n)
    [] c = "M" -> DeleteLine(u, n)
    [] c = "P" -> DeleteChar(u, n)
    [] c = "@" -> InsertChar(u, n)
    [] c = "S" -> ScrollRegion(u, n)
    [] c = "T" -> ScrollRegion(u, -n)
    [] OTHER -> u

DoCSI(u, c) ==
  LET a1 == Arg(u, 1)
      n == Times(a1)
      end == u.width - 1
  IN CASE c \in {"h", "l"} ->
            IF u.interm = "?" THEN Modes(u, SetMode, c = "h")
            ELSE IF u.interm = "" THEN Modes(u, ASetMode, c = "h") ELSE u
       [] u.interm # "" -> u
       [] c \in {"H", "f"} -> GotoPos(u, a1, Arg(u, 2))
       [] c = "J" -> IF a1 = 1 THEN ClearFromBOS(u) ELSE IF a1 = 2 THEN ClearScreen(u) ELSE ClearToEOS(u)
       [] c = "K" -> IF a1 % 3 = 0 THEN ClearLineRegion(u, u.x, end)
                     ELSE ClearLineRegion(u, 0, IF a1 % 3 = 1 THEN u.x ELSE end)
       [] c = "X" -> ClearLineRegion(u, u.x, Least(u.x + n - 1, end))
       [] c = "A" -> CursorUp(u, n)
       [] c = "B" -> CursorDown(u, n)
       [] c = "C" -> CursorRight(u, n)
       [] c = "D" -> CursorLeft(u, n)
       [] c = "E" -> CursorDown([u EXCEPT !.x = 0], n)
       [] c = "F" -> CursorUp([u EXCEPT !.x = 0], n)
       [] c = "G" -> At(u, Least(n, u.width) - 1, u.y)
       [] c = "d" -> At(u, u.x, Least(n, u.height) - 1)
       [] c = "g" -> [u EXCEPT !.tabs = IF a1 = 0 THEN @ \ {u.x}
                                        ELSE IF a1 = 3 THEN @ \intersect {u.width} ELSE @]
       [] c = "r" -> SetMargins(u, a1, Arg(u, 2))
       [] c = "s" -> SaveCursor(u)
       [] OTHER -> Edit(u, c, n)

-----------------------------------------------------------------------------
(* The parser: w_state                                                     *)

Lit(u, c) ==
  IF c = "ESC" THEN [u EXCEPT !.state = "ESC", !.interm = ""]
  ELSE IF c \in Controls THEN Special(u, c) ELSE PutText(u, c)

Intermediates == {"#"}   \* the ones from ' ' to '/'
Private == {"?"}         \* the ones from '<' to '?'
Ascii(c) == c \notin Controls \union Multi \union {Replacement}

Esc(u, c) ==
  LET lit == [u EXCEPT !.state = "LIT"]
  IN CASE c = "[" -> [u EXCEPT !.state = "CSI", !.interm = "", !.args = <<0>>]
       [] c \in {"]", "_", "P", "^", "k"} -> [u EXCEPT !.state = "ASTR", !.osc = c = "]", !.slen = 0]
       [] IsSpecial(c) -> [Special(u, c) EXCEPT !.state = "LIT"]
       [] c \in Intermediates -> [u EXCEPT !.interm = IF @ = "" THEN c ELSE "bad"]
       [] Ascii(c) -> [DoESC(u, c) EXCEPT !.state = "LIT"]
       [] OTHER -> Lit(lit, c)

Digit(args, d) ==
  IF Len(args) > MaxArgs \/ Last(args) >= 100000000 THEN args
  ELSE [args EXCEPT ![Len(args)] = 10 * @ + d]

Csi(u, c) ==
  CASE c \in ToSet(Digits) -> [u EXCEPT !.args = Digit(@, SelectInSeq(Digits, LAMBDA x : x = c) - 1)]
    [] c = ";" -> [u EXCEPT !.args = IF Len(@) <= MaxArgs THEN Append(@, 0) ELSE @]
    [] IsSpecial(c) -> Special(u, c)
    [] c \in Intermediates \union Private -> [u EXCEPT !.interm = IF @ = "" THEN c ELSE "bad"]
    [] Ascii(c) -> [DoCSI(u, c) EXCEPT !.state = "LIT"]
    [] OTHER -> Lit([u EXCEPT !.state = "LIT"], c)

StringChar(u) == IF u.slen >= MaxStr - 1 THEN [u EXCEPT !.state = "LIT"] ELSE [u EXCEPT !.slen = @ + 1]
StringEnd(u) == [u EXCEPT !.state = "LIT"]

Astr(u, c) ==
  CASE c = "NUL" -> u
    [] c = "ESC" -> [u EXCEPT !.state = "STRESC"]
    [] u.osc /\ c \in Controls \ {"NUL", "ESC"} -> StringEnd(u)
    [] OTHER -> StringChar(u)
StrEsc(u, c) ==
  CASE c = "\\" -> StringEnd(u)
    [] c = "ESC" -> StringChar(u)
    [] OTHER -> StringChar(StringChar([u EXCEPT !.state = "ASTR"]))

Step(u, c) ==
  CASE u.state = "LIT" -> Lit(u, c)
    [] u.state = "ESC" -> Esc(u, c)
    [] u.state = "CSI" -> Csi(u, c)
    [] u.state = "ASTR" -> Astr(u, c)
    [] u.state = "STRESC" -> StrEsc(u, c)

\* FromUtf8: decode is the character whose first byte was read
None == ""
FirstByte(c) == IF c \in Multi THEN <<>> ELSE <<IF c = "cont" THEN Replacement ELSE c>>
Decoded(u, c) ==  \* the characters that byte c completes
  IF u.decode = None THEN FirstByte(c)
  ELSE IF c = "cont" THEN <<u.decode>> ELSE <<Replacement>> \o FirstByte(c)
WriteByte(u, c) ==
  FoldLeft(Step, [u EXCEPT !.decode = IF c \in Multi THEN c ELSE None], Decoded(u, c))

WriteString(u, chunk) == FoldLeft(WriteByte, u, chunk)

-----------------------------------------------------------------------------

NewWindow(wi, he, hi) ==
  [ ml |-> BlankLines(he, wi), hist |-> BlankLines(hi, wi), width |-> wi, height |-> he,
    x |-> 0, y |-> 0, top |-> 0, bot |-> he - 1, saved |-> FALSE, sx |-> 0, sy |-> 0,
    wrap |-> TRUE, insert |-> FALSE, origin |-> FALSE, tabs |-> DefaultTabs(wi), alt |-> NoScreen,
    state |-> "LIT", interm |-> "", args |-> <<0>>, osc |-> FALSE, slen |-> 0, decode |-> None,
    comb |-> C!NoCombinations ]

Init ==
  /\ \E wi \in Widths, he \in Heights, hi \in Histories, chunk \in Start :
       t = WriteString(NewWindow(wi, he, hi), chunk)
  /\ events = 0

Handle(u) ==
  /\ events < MaxEvents
  /\ events' = events + 1
  /\ t' = u

\* win_readev_fn: the program has written something
Write == \E chunk \in Chunks : Handle(WriteString(t, chunk))

\* a region of another size shows the window, the width or height command, CSI 8 t
Resize == \E wi \in Widths, he \in Heights :
  <<wi, he>> # <<t.width, t.height>> /\ Handle(ChangeWindowSize(t, wi, he, Len(t.hist)))

\* the scrollback command
Scrollback == \E hi \in Histories \ {Len(t.hist)} : Handle(ChangeWindowSize(t, t.width, t.height, hi))

\* the reset command
Reset == Handle(WriteString([t EXCEPT !.state = "LIT"], <<"ESC", "c">>))

Next == Write \/ Resize \/ Scrollback \/ Reset
Spec == Init /\ [][Next]_vars

-----------------------------------------------------------------------------
(* Properties                                                              *)

Cells == UNION {ToSet(l.c) : l \in ToSet(Rows(t))}

\* The window is a window: every line has a cell for every column
\* (w_mlines[y].image), the parser keeps to its arrays (w_args, w_string).
TypeOK ==
  /\ \A u \in {t, t.alt} : Len(u.ml) = u.height /\ \A l \in ToSet(u.ml \o u.hist) :
       Len(l.c) = u.width /\ l.soft \in BOOLEAN
  /\ t.state \in States /\ t.slen < MaxStr /\ Len(t.args) <= MaxArgs + 1
  /\ t.decode \in Multi \union {None} /\ t.tabs \subseteq 0 .. t.width

\* Whatever is written, and however the window is resized in between, the
\* cursor and the saved cursor (w_Saved_x) are on the screen or right after the
\* last column, and the margins are on the screen: w_mlines[w_y] and what is
\* scrolled exist.
CursorInside ==
  /\ TypeOK
  /\ t.x \in 0 .. t.width /\ t.y \in 0 .. t.height - 1
  /\ 0 <= t.top /\ t.top <= t.bot /\ t.bot < t.height
  /\ t.sx \in 0 .. t.width /\ t.sy \in 0 .. t.height - 1

\* The table of combined characters stays sound however its entries are
\* recycled: AddUtf8 comes to an end, every combined character on the screen or
\* in the scrollback has its entry (combchars[i] is not null), and the head of
\* the list is no entry.
AllInUse(u) == \A l \in ToSet(u.ml \o u.hist) : \A c \in ToSet(l.c) : C!InUse(t.comb, c)
TableSound ==
  C!Grounded(t.comb) /\ C!HeadKept(t.comb, "single") /\ AllInUse(t) /\ AllInUse(t.alt)

\* "full, recycle old entry": neither is the head of the list of double-width
\* characters.  (It is, when all of its entries went to the other list.)
HeadsKept == \A root \in C!Roots : C!HeadKept(t.comb, root)

Whole(l) == \A i \in DOMAIN l.c :
  /\ l.c[i] = Right => i > 1 /\ l.c[i - 1] \in Wide \union C!Entries \union {Unknown}
  /\ l.c[i] \in Wide => i < Len(l.c) /\ l.c[i + 1] = Right
AllWhole(u) == \A l \in ToSet(u.ml \o u.hist) : Whole(l)

\* No output leaves half of a wide character behind, wherever it is written,
\* inserted, deleted or cleared.  (A window that gets another width may.)
HalvesTogether == [][
  AllWhole(t) /\ AllWhole(t.alt) /\ t'.width = t.width /\ t.alt.width \in {0, t.width}
    => AllWhole(t') /\ AllWhole(t'.alt)]_vars

\* the cells of the cursor's line of text that are before the cursor
Before(u) ==
  LET a == StartRow(Rows(u), CursorRow(u))
  IN SubSeq(FlattenSeq([i \in 1 .. CursorRow(u) - a + 1 |-> Rows(u)[a + i - 1].c]), 1,
            Offset(u) + u.x - CursorColumn(u))
Ink(u) == SelectSeq(FlattenSeq([i \in DOMAIN Rows(u) |-> Rows(u)[i].c]), LAMBDA c : c # Blank)
\* the n cells before the cursor, of whatever lines
Preceding(u, n) ==
  LET at == (CursorRow(u) - 1) * u.width + u.x
  IN SubSeq(FlattenSeq([i \in DOMAIN Rows(u) |-> Rows(u)[i].c]), Most(0, at - n) + 1, at)
\* there are rows for the text from the cursor's line on, and the screen has
\* room for what is before the cursor in that line
RowsFromCursor(u, wi) ==
  LET rest == SelectSeq(Starts(Rows(u)), LAMBDA a : a >= StartRow(Rows(u), CursorRow(u)))
  IN FoldLeft(LAMBDA n, a : n + RowsNeeded(Len(Text(u, a)), wi), 0, rest)
Fits(u, wi, he, hi) ==
  /\ RowsFromCursor(u, wi) - (Offset(u) \div wi) <= he + hi
  /\ Len(Before(u)) \div wi < he

\* A window that is resized shows the text it had, in its order and with no
\* gap, and the cursor is after the same text: what a program that edits a line
\* relies on.  Its line is still one line if it and what follows it have room
\* on the screen.  (If not, the rows move down while they are copied, and the
\* line may be broken in two: see oty.)
ResizeKeepsText == [][
  <<t'.width, t'.height>> # <<t.width, t.height>>
    => /\ \E i \in 0 .. Len(Ink(t)) : Ink(t') = SubSeq(Ink(t), i + 1, i + Len(Ink(t')))
       /\ Fits(t, t'.width, t'.height, Len(t'.hist))
            => /\ Preceding(t', Len(Before(t))) = Before(t)
               /\ RowsFromCursor(t, t'.width) <= t'.height => Before(t') = Before(t)]_vars

\* "never lose sight of the line with the cursor on it" (resize.c:645): another
\* scrollback leaves the screen as it is and the cursor in the row of text it was
\* in.  (The code does not keep this: when the cursor's line began in the
\* scrollback, the cursor is moved down although the screen is not.)
CursorInSight == [][Scrollback => Line(t', t'.y).c = Line(t, t.y).c]_vars
=============================================================================
