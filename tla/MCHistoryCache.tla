------------------------ MODULE MCHistoryCache ------------------------
(* A small instance of HistoryCache for TLC: two keys of one chat; the    *)
(* other chat only fills the channel.                                     *)
EXTENDS HistoryCache, TLC

CONSTANTS a, b, a1, a2

MCChatOf == a1 :> a @@ a2 :> a

Symmetry == Permutations(Handlers)

=======================================================================
