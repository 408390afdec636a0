--------------------------- MODULE MCEventStream ---------------------------
EXTENDS EventStream, TLC

CONSTANTS p1, p2, c1, c2, auth, call

OnePublisher == {p1}
TwoPublishers == {p1, p2}
TwoConnections == {c1, c2}
TwoTypes == {auth, call}

(* Publishers, connections and types appear only in unordered sets, as indices *)
(* and in equalities.                                                        *)
Symmetry == Permutations(Publishers) \cup Permutations(Connections) \cup Permutations(Types)
=============================================================================
