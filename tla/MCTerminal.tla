---------------------------- MODULE MCTerminal ----------------------------
EXTENDS Terminal

\* w and m are a wide character and a combining mark
MCSingles == <<"s1", "s2">>
MCDoubles == <<"d1", "d2">>
OneDouble == <<"d1">>

Seqs ==
  { <<"ESC">>, <<"[">>, <<"2">>,
    <<"a", "b">>, <<"w", "cont">>, <<"a", "w", "cont">>, <<"m", "cont">>, <<"n", "cont", "m", "cont">>,
    <<"CR">>, <<"LF">>, <<"BS">>, <<"HT">>,
    <<"ESC", "D">>, <<"ESC", "M">>, <<"ESC", "7">>, <<"ESC", "8">>, <<"ESC", "c">>, <<"ESC", "#", "8">>,
    <<"ESC", "[", "2", ";", "2", "H">>, <<"ESC", "[", "A">>, <<"ESC", "[", "B">>, <<"ESC", "[", "C">>,
    <<"ESC", "[", "D">>, <<"ESC", "[", "J">>, <<"ESC", "[", "1", "K">>, <<"ESC", "[", "K">>,
    <<"ESC", "[", "2", ";", "3", "r">>, <<"ESC", "[", "L">>, <<"ESC", "[", "M">>,
    <<"ESC", "[", "P">>, <<"ESC", "[", "2", "P">>,
    <<"ESC", "[", "@">>, <<"ESC", "[", "X">>, <<"ESC", "[", "2", "T">>, <<"ESC", "[", "Z">>,
    <<"ESC", "H">>, <<"ESC", "[", "4", "h">>, <<"ESC", "[", "?", "7", "l">>,
    <<"ESC", "k">>, <<"ESC", "]">>, <<"ESC", "\\">>,
    <<"ESC", "[", "?", "6", "h">>, <<"ESC", "[", "?", "4", "7", "h">>, <<"ESC", "[", "?", "4", "7", "l">> }

\* the screens the program starts from: an empty one; a long line with the cursor
\* saved after it; wide characters, one combined; the alternate screen, left
\* with the cursor in the last column
First ==
  { <<>>,
    <<"a", "b", "a", "b", "a", "b", "a", "ESC", "7">>,
    <<"w", "cont", "w", "cont", "m", "cont", "LF", "a", "w", "cont">>,
    <<"a", "LF", "ESC", "[", "?", "4", "7", "h", "CR", "b", "a", "b">> }
=============================================================================
