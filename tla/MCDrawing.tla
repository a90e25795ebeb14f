----------------------------- MODULE MCDrawing -----------------------------
EXTENDS Drawing

None == {}
Terminal(flags, moves) == [f \in Flags \union {"moves"} |-> IF f = "moves" THEN moves ELSE f \in flags]
\* the vt100, which can insert neither characters nor lines, and the vt102
VT100 == Terminal({"am", "lp", "cs", "ce", "cb", "cd", "cl", "sr", "ms"}, "steps")
VT102 == Terminal({"am", "lp", "cs", "ce", "cb", "cd", "cl", "im", "dc", "al", "sr", "ms"}, "cm")
\* the xterm, and one on which it is cheap to write what is there once more
XTerm == Terminal({"am", "lp", "cs", "ce", "cb", "cd", "cl", "ic", "im", "dc", "al", "sr", "many", "ms"}, "cm")
Rewriter == Terminal({"am", "lp", "cs", "ce", "cd", "cl", "dc", "al", "sr", "many", "ms"}, "rewrite")
\* the last position scrolls, there are no regions
Ansi == Terminal({"am", "ce", "cd", "cl", "ic", "al", "many", "ms"}, "steps")
\* regions, but no way to insert lines
Regions == Terminal({"am", "lp", "cs", "ce", "im", "sr", "ut"}, "steps")
\* nothing but the cursor
Simple == Terminal({"lp"}, "cm")

\* a canvas of the layer l
View(l, xs, ys, xe, ye) == [layer |-> l, xs |-> xs, ys |-> ys, xe |-> xe, ye |-> ye, xoff |-> xs, yoff |-> ys]
Screen(width, height, canvases, windows) ==
  [width |-> width, height |-> height, forecv |-> 1, canvases |-> canvases, windows |-> windows]
Full == Screen(3, 3, <<View(1, 0, 0, 2, 2)>>, <<<<3, 3>>>>)
Smaller == Screen(4, 4, <<View(1, 0, 0, 3, 3)>>, <<<<3, 3>>>>)
Larger == Screen(3, 2, <<View(1, 0, 0, 2, 1)>>, <<<<4, 3>>>>)
Stacked == Screen(3, 5, <<View(1, 0, 0, 2, 1), View(2, 0, 3, 2, 3)>>, <<<<3, 2>>, <<3, 1>>>>)
Beside == Screen(5, 3, <<View(1, 0, 0, 1, 1), View(2, 3, 0, 4, 1)>>, <<<<2, 2>>, <<2, 2>>>>)
Twice == Screen(3, 6, <<View(1, 0, 0, 2, 2), View(1, 0, 4, 2, 4)>>, <<<<3, 3>>>>)
Alone == {Full, Smaller, Larger, Stacked, Beside}  \* every window on one canvas
MCSetups ==
  ({VT100, VT102, XTerm, Ansi, Regions, Simple} \X (Alone \union {Twice})) \union ({Rewriter} \X Alone)
MCStarts == {
  <<>>,
  \* a line that goes on, in two renditions
  << <<1, "write", "a">>, <<1, "write", "b">>, <<1, "write", "A">>, <<1, "write", "b">> >>,
  \* the cursor waits after the last position
  << <<1, "Es", 0>>, <<1, "goto", <<3, 3>>>>, <<1, "write", "B">> >>,
  << <<1, "Es", 0>>, <<1, "margins", <<0, 1>>>>, <<1, "write", "b">> >>,
  << <<1, "write", "a">>, <<1, "goto", <<1, 1>>>>, <<1, "write", "A">>, <<1, "insert", TRUE>>, <<1, "goto", <<0, 1>>>> >>}
MCOperations ==
  ({"write"} \X {"a", "B"}) \union ({"goto"} \X {<<0, 0>>, <<2, 1>>, <<1, 2>>})
  \union ({"margins"} \X {<<0, 1>>, <<1, 2>>}) \union ({"insert"} \X {TRUE})
  \union ({"LF", "RI", "clear", "to end of screen", "from start of screen", "to end of line", "from start of line", "Es"} \X {0})
  \union ({"lines", "chars"} \X {-1, 1, 2}) \union ({"scroll"} \X {-1, 2})

\* the xterm in a display so narrow that it is cheap to write a line once more
GhostSetups == {<<[XTerm EXCEPT !.moves = "rewrite"], Full>>}
GhostOperations == {<<"goto", <<2, 1>>>>, <<"from start of screen", 0>>}
=============================================================================
