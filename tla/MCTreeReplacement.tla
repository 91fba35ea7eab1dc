------------------------- MODULE MCTreeReplacement -------------------------
(* One owned file, and one that no area may change; the third area does     *)
(* not exist at first.                                                      *)
EXTENDS TreeReplacement, TLC

CONSTANTS p1, p2, a1, a2, a3, owned, foreign

MCProcs == {p1, p2}
MCAreas == {a1, a2, a3}
MCPaths == {owned, foreign}
MCOwned == {owned}
MCExisting == {a1, a2}
MCContents == 0 .. Given + MaxEdits
MCEdited == {<<Src, foreign>>, <<Overlay(a1), owned>>, <<Overlay(a2), owned>>}
MCLegacy == [f \in MCPaths |-> IF f = foreign THEN 1 ELSE 0]
MCSymmetry == Permutations(MCProcs) \cup Permutations({a1, a2})
MCSource == [f \in MCPaths |-> 0]
=============================================================================
