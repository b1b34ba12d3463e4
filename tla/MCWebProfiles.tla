--------------------------- MODULE MCWebProfiles ---------------------------
(* Two tabs, one session to approve, and three operations in all.          *)
EXTENDS WebProfiles, TLC

Symmetry == Permutations(Tabs) \union Permutations(Ops)
=============================================================================
