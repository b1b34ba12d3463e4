--------------------------- MODULE MCEvents ---------------------------
(* A small instance of Events for TLC.                                    *)
EXTENDS Events

=======================================================================
