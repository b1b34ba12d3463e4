---------------------------- MODULE MCAuth ----------------------------
(* Small instances of Auth for TLC.                                       *)
EXTENDS Auth, TLC

Symmetry == Permutations(Codes) \union Permutations(ClientIDs)
              \union Permutations(JTIs)

MCScopes == DefaultScope

MCScopeRequests == {{}, {"send"}}

MCTTLs == {-1, 2}

=======================================================================
