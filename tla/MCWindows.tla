------------------------------ MODULE MCWindows -----------------------------
EXTENDS Windows, TLC

CONSTANTS w1, w2, w3, c1, c2, c3, c4, o1, o2, o3

Symmetry == Permutations(Displays)

MCWtab == <<w1, w2, w3>>
MCCanvasPool == <<c1, c2, c3>>
MCLayerPool == <<o1, o2, o3>>
=============================================================================
