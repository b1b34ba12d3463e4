------------------------- MODULE MCWebThread --------------------------
(* A small instance of WebThread for TLC.                                 *)
EXTENDS WebThread, TLC

Symmetry == Permutations(Chats)

=======================================================================
