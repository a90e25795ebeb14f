----------------------------- MODULE MCSession -----------------------------
(* Instances of Session: two attachers, on their own terminals or on one.   *)
EXTENDS Session

CONSTANTS a1, a2

OwnTty == {[a \in Attachers |-> a]}
OwnOrSharedTty == OwnTty \union {[a \in Attachers |-> a1]}
ResumeKinds == [a \in Attachers |-> {"r"}]
LiveKinds == [a \in Attachers |-> IF a = a1 THEN {"x"} ELSE {"dr"}]
DetachKinds == [a \in Attachers |-> IF a = a1 THEN {"x"} ELSE {"d"}]
\* a1 comes to the session of another user, a2 to its own
MixedKinds == [a \in Attachers |-> IF a = a1 THEN {"r", "x"} ELSE {"x", "dr", "d"}]

\* The walk of FinishDetach over every list of up to four displays: everybody is
\* told, nothing is left, and the socket is marked unless there was nothing to do.
ASSUME \A n \in 0 .. 4 : \A list \in SetToSeqs({[pid |-> i, msg |-> i] : i \in 1 .. n}) :
  LET w == Walk(list, Attached)
  IN  /\ w.list = <<>> /\ w.told = 1 .. n
      /\ w.mode = IF n = 0 THEN Attached ELSE Detached
=============================================================================
