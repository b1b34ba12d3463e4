--------------------------- MODULE MCDaemon ---------------------------
(* A small instance of Daemon for TLC.                                    *)
EXTENDS Daemon, TLC

Symmetry == Permutations(Runs)

=======================================================================
