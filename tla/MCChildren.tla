---------------------------- MODULE MCChildren ------------------------------
(* Instance of Children: a filter that both gets the window's output and    *)
(* answers to it, and one that the window's output goes to alone.           *)
EXTENDS Children

Both == [fd |-> <<":", ".", ":">>, bar |-> FALSE]
Pipe == [fd |-> <<".", ".", ".">>, bar |-> TRUE]

MCPatterns == {Both, Pipe}
=============================================================================
