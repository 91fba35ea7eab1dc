--------------------------- MODULE TreeMergeProofs ---------------------------
(* What the three-way merge does, for every set of paths and contents: facts
   about TreeMerge's operators, cited by the proofs about staging areas.      *)
EXTENDS TreeMerge, TLAPS

\* A directory that does not exist is a tree.
LEMMA EmptyTreeType == EmptyTree \in Trees
BY DEF EmptyTree, Trees

\* Merging three trees gives a tree.
LEMMA MergeType ==
    ASSUME NEW base \in Trees, NEW overlay \in Trees, NEW current \in Trees
    PROVE  Merge(base, overlay, current) \in Trees
<1>1. ASSUME NEW p \in Paths
      PROVE  Merge(base, overlay, current)[p] \in Contents \cup {Missing}
  BY <1>1 DEF Merge, Select, Trees
<1> QED
  BY <1>1 DEF Merge, Trees

\* A merge without conflicts selects every path.
LEMMA MergeSelects ==
    ASSUME NEW base, NEW overlay, NEW current,
           Conflicts(base, overlay, current) = {},
           NEW p \in Paths
    PROVE  Merge(base, overlay, current)[p] = Select(base[p], overlay[p], current[p])
BY DEF Merge, Conflicts

\* _merge_contents keeps what is staged and adopts what only src/ changed: after
\* a merge without conflicts, a path that was changed in the overlay has the
\* overlay's contents, and any other path has those of src/.
THEOREM MergeKeepsBothSides ==
    ASSUME NEW base \in Trees, NEW overlay \in Trees, NEW current \in Trees,
           Conflicts(base, overlay, current) = {},
           NEW p \in Paths
    PROVE  /\ overlay[p] # base[p] => Merge(base, overlay, current)[p] = overlay[p]
           /\ overlay[p] = base[p] => Merge(base, overlay, current)[p] = current[p]
BY MergeSelects DEF Select

\* Rebasing again changes nothing: the merged overlay is its own merge with the
\* src/ it was merged with.
THEOREM MergeIsIdempotent ==
    ASSUME NEW base \in Trees, NEW overlay \in Trees, NEW current \in Trees
    PROVE  Merge(current, Merge(base, overlay, current), current)
             = Merge(base, overlay, current)
<1> DEFINE merged == Merge(base, overlay, current)
           again  == Merge(current, merged, current)
<1>1. merged \in Trees /\ again \in Trees
  BY MergeType
<1>2. Conflicts(current, merged, current) = {}
  BY DEF Conflicts, Clashes
<1>3. ASSUME NEW p \in Paths PROVE again[p] = merged[p]
  BY <1>1, <1>2, MergeKeepsBothSides
<1> QED
  BY <1>1, <1>3 DEF Trees

\* A change that only one side made never conflicts, whatever it is.
THEOREM OneSidedChangesMerge ==
    ASSUME NEW base \in Trees, NEW overlay \in Trees, NEW current \in Trees,
           Differing(base, overlay) \cap Differing(base, current) = {}
    PROVE  Conflicts(base, overlay, current) = {}
BY DEF Conflicts, Clashes, Differing
=============================================================================
