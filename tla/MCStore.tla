--------------------------- MODULE MCStore ----------------------------
(* A small instance of Store for TLC.                                     *)
EXTENDS Store

=======================================================================
