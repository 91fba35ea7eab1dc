----------------------------- MODULE SourceFix -----------------------------
(***************************************************************************)
(* lint-source --fix (tonel_lint.py) beside staging operations: src/ is    *)
(* copied, the copy is loaded into an image and exported again, and the    *)
(* files that differ are replaced one by one, with a roll-back.  The fix   *)
(* takes no lock.                                                          *)
(***************************************************************************)
EXTENDS StagingChanges

CONSTANT Canonical     \* the content that the Tonel writer gives a file

ASSUME CanonicalIsContent == Canonical \in Contents

VARIABLE fix           \* the fix: its phase, the copy and the export, the paths it
                       \* changes and the contents it puts back, the paths still to
                       \* do, and whether src/ was promoted to since it was compared

fixVars == <<vars, fix>>

FixInit == Init /\ fix = [at |-> "none", copy |-> base, exported |-> base, drift |-> {},
                          originals |-> base, todo |-> {}, promoted |-> FALSE]

\* A class is written in canonical form, under its own name if its file had
\* another one.
Exports(tree) ==
    LET rewritten == [p \in Paths |-> IF tree[p] = Missing THEN Missing ELSE Canonical]
    IN  {rewritten} \cup {[rewritten EXCEPT ![move[1]] = Missing, ![move[2]] = Canonical] :
                             move \in {p \in Paths : tree[p] # Missing}
                                          \X {p \in Paths : tree[p] = Missing}}

Export == /\ fix.at = "none"
          /\ \E e \in Exports(current) :
                fix' = [fix EXCEPT !.at = "exported", !.copy = current, !.exported = e]
          /\ UNCHANGED vars

\* Mutant of Compare: no expected source.
CompareNothing == /\ fix.at = "exported"
                  /\ fix' = [fix EXCEPT !.at = "compared"]
                  /\ UNCHANGED vars

Compare == /\ fix.at = "exported"
           /\ fix' = [fix EXCEPT !.at = IF current = fix.copy THEN "compared" ELSE "refused"]
           /\ UNCHANGED vars

\* src/ is read again for the differences and for the contents to put back.
ReadDrift == /\ fix.at = "compared"
             /\ LET drift == Differing(current, fix.exported)
                IN  fix' = [fix EXCEPT !.at = "applying", !.drift = drift, !.originals = current,
                                       !.todo = drift]
             /\ UNCHANGED vars

Doing(phase) == fix.at = phase /\ fix.todo # {}

\* Removing a file that is already gone raises.
Gone(path) == fix.originals[path] # Missing /\ fix.exported[path] = Missing /\ current[path] = Missing

ApplyFile == /\ Doing("applying") /\ ~Gone(First(fix.todo))
             /\ current' = [current EXCEPT ![First(fix.todo)] = fix.exported[First(fix.todo)]]
             /\ fix' = [fix EXCEPT !.todo = @ \ {First(@)}]
             /\ UNCHANGED <<base, overlay>>

\* A file cannot be written or removed: all are put back, in the same order.
ApplyFails == /\ Doing("applying")
              /\ fix' = [fix EXCEPT !.at = "undoing", !.todo = fix.drift]
              /\ UNCHANGED vars

\* Mutant of UndoFile: files that the fix has added stay.
UndoChanges == /\ Doing("undoing")
               /\ LET path == First(fix.todo)
                  IN  current' = [current EXCEPT ![path] =
                          IF fix.originals[path] = Missing THEN current[path] ELSE fix.originals[path]]
               /\ fix' = [fix EXCEPT !.todo = @ \ {First(@)}]
               /\ UNCHANGED <<base, overlay>>

UndoFile == /\ Doing("undoing")
            /\ current' = [current EXCEPT ![First(fix.todo)] = fix.originals[First(fix.todo)]]
            /\ fix' = [fix EXCEPT !.todo = @ \ {First(@)}]
            /\ UNCHANGED <<base, overlay>>

Undone == /\ fix.at = "undoing" /\ fix.todo = {}
          /\ fix' = [fix EXCEPT !.at = "failed"]
          /\ UNCHANGED vars

\* The fix is killed, or putting a file back fails as well.
Abandoned == /\ Doing("applying") \/ Doing("undoing")
             /\ fix' = [fix EXCEPT !.at = "abandoned"]
             /\ UNCHANGED vars

\* verify_tonel_roundtrip, on src/ as it is then.
Verify == /\ fix.at = "applying" /\ fix.todo = {}
          /\ fix' = [fix EXCEPT !.at = IF Differing(current, fix.exported) = {}
                                       THEN "fixed" ELSE "unverified"]
          /\ UNCHANGED vars

Fix == \/ Export \/ Compare \/ ReadDrift \/ ApplyFile \/ ApplyFails
       \/ UndoFile \/ Undone \/ Abandoned \/ Verify

Staging == \/ Rebase /\ UNCHANGED fix
           \/ Promote /\ fix' = [fix EXCEPT !.promoted = fix.at \notin {"none", "exported"}]

FixSpec == FixInit /\ [][Fix \/ Staging]_fixVars

----------------------------------------------------------------------------
\* The fix of src/ is all or nothing: it ends with the exported tree, or with the
\* tree it had copied, whichever file fails (apply_tonel_roundtrip), and it
\* refuses a source that a promotion changed while the image was exporting.
\* The exceptions are an abandoned roll-back, and a promotion after the
\* comparison, which the fix does not notice.
FixIsAllOrNothing ==
    ~fix.promoted => /\ fix.at = "failed" => current = fix.copy
                     /\ fix.at \in {"fixed", "unverified"} => current = fix.exported
=============================================================================
