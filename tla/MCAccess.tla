----------------------------- MODULE MCAccess ------------------------------
(* Instance of Access: the owner and two others, one of whom sends -X.      *)
EXTENDS Access

CONSTANTS owner, ann, bob, w1, d1, d2

MCScreenrc == <<ann, bob>>
Interchangeable == Permutations(Displays)
MCLinks == {<<ann, bob>>, <<bob, owner>>, <<bob, ann>>}
=============================================================================
