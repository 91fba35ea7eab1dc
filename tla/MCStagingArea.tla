---------------------------- MODULE MCStagingArea ----------------------------
(* Two GUI launches and an agentic session over one area, with one
   owned path and one path outside the owned packages.                        *)
EXTENDS StagingArea, TLC

CONSTANTS owned, outside, old

MCPaths         == {owned, outside}
MCInitialSource == [p \in MCPaths |-> old]

\* GUI launches are interchangeable, and every property here is a safety one.
MCSymmetry == Permutations(GuiProcs)
=============================================================================
