------------------------------ MODULE MCCopy ------------------------------
(* Instances of Copy: two rows of scrollback and two of screen. *)
EXTENDS Copy

NoWide == {}
L(c, soft) == [c |-> c, soft |-> soft]
MCDigits == [d \in {"2", "3"} |-> IF d = "2" THEN 2 ELSE 3]
\* lines that go on, short ones, an empty one
Narrow == {
  <<L(<<"a", "b", " ", "a">>, TRUE), L(<<"b", "=", " ", " ">>, FALSE), L(<<" ", "a", "b", " ">>, FALSE), L(<<"a", "b", "a", "b">>, FALSE)>>,
  <<L(<<" ", " ", " ", " ">>, FALSE), L(<<"a", " ", "b", "b">>, TRUE), L(<<"a", "a", "b", "=">>, TRUE), L(<<"b", " ", " ", " ">>, FALSE)>>}
MCCursors == {<<4, 0>>, <<1, 1>>}
Single == {<<k>> : k \in
  {"h", "l", "j", "k", "+", "-", "^", "NL", "0", "$", "H", "M", "L", "|", "w", "e", "E", "b", "B", ";", ",",
   "%", "g", "G", "^Y", "x", "c", "C", "v", "a", "J", "n", "N", "y", "Y", "W", "A", ">", " ", "@", "q"}}
MCStarted == {<<>>, <<" ">>, <<"k", "k", " ">>, <<"g", "l", " ", "j">>, <<"l", "c", "j", " ", "k">>,
  <<"/", "a", "b">>, <<"?", "b", "CR", "/">>, <<"k", " ", "^S", "b">>}
Counted == {<<"2", k>> : k \in {"l", "j", "k", "w", "b", "e", "E", "G", "^D", "^E", "%", "|", "c", "C", "Y", "W"}}
MCChunks == Single \union Counted \union {<<"f", "a">>, <<"F", "b">>, <<"t", "b">>, <<"T", "a">>, <<"/", "a", "CR">>, <<"?", "b", "CR">>, <<"/", "ESC">>,
  <<"/">>, <<"^S">>, <<"^R">>, <<"a", "b">>, <<"CR">>, <<"ESC">>, <<"BS">>, <<"^W">>, <<"^K">>, <<"^P">>,
  <<"^A">>, <<"^B">>, <<"^D">>, <<"^E">>, <<"^F">>, <<"^U">>, <<"^G">>}

\* several keys in one read, one of them erases
TypedAhead == {<<"/", "a">>, <<"BS", "b">>, <<"CR">>}
WithWide == {
  <<L(<<"a", "b", " ", "a">>, FALSE), L(<<"b", "a", "=", "a">>, FALSE), L(<<"w", "right", "b", " ">>, FALSE), L(<<"a", "w", "right", "a">>, FALSE)>>}
=============================================================================
