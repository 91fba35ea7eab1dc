---------------------------- MODULE MCGuiWorkspace ----------------------------
(* Launches of the GUI workspace over one area with one owned path.           *)
EXTENDS GuiWorkspace, TLC

CONSTANTS owned, old

MCInitialSource == [p \in {owned} |-> old]

\* GUI launches are interchangeable, and every property here is a safety one.
MCSymmetry == Permutations(GuiProcs)
=============================================================================
