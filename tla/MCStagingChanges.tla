-------------------------- MODULE MCStagingChanges --------------------------
(* Three paths, two of them owned, and two contents: enough for two removed
   files to compete for one added file, for a rename across the ownership
   boundary, and for every case of the merge at once.                         *)
EXTENDS SourceFix

CONSTANTS owned1, owned2, outside

MCPaths      == {owned1, owned2, outside}
MCOwnedPaths == {owned1, owned2}
MCPathOrder  == <<owned1, outside, owned2>>
=============================================================================
