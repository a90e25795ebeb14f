----------------------------- MODULE MCOutput -----------------------------
(* Instances of Output: one or two displays, and one window with a pseudo *)
(* window or two windows.                                                 *)
EXTENDS Output

CONSTANTS d1, d2, w1, w2, r1, r2

OwnWindow == [r \in Readers |-> IF r = r1 THEN w1 ELSE w2]
OneWindow == [r \in Readers |-> w1]
OneLimit == <<2>>
NoLimit == <<0>>
=============================================================================
