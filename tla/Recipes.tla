------------------------------ MODULE Recipes ------------------------------
(***************************************************************************)
(* Build recipes (recipes.py) and the output keys derived from them        *)
(* (resolution.py).  A recipe is a sequence of typed steps; a step may be  *)
(* a publication boundary.  An operation that the code ends with a         *)
(* RecipeValidationError is an operator whose set of results is empty.     *)
(***************************************************************************)
EXTENDS Naturals, Sequences

\* StepImplementation and Step: the implementation's version, its input and
\* output types, whether the step ends at an artifact, and the tree its
\* declared inputs and configuration digest.  A pinned step reads that tree
\* at the recorded commit, every other step reads the files of the moment.
Implementation(version, input, output) ==
    [version |-> version, input |-> input, output |-> output]

Step(role, implementation, checkpoint, reads, pinned) ==
    [role |-> role, version |-> implementation.version,
     input |-> implementation.input, output |-> implementation.output,
     checkpoint |-> checkpoint, reads |-> reads, pinned |-> pinned]

\* Recipe.__post_init__.
DistinctRoles(r) == \A i, j \in DOMAIN r : r[i].role = r[j].role => i = j

Composes(r) ==
    \A i \in DOMAIN r : r[i].input = IF i = 1 THEN "none" ELSE r[i - 1].output

\* Mutant of Valid: a recipe may end between two publication boundaries.
ValidAnyEnd(r) == r # <<>> /\ DistinctRoles(r) /\ Composes(r)

Valid(r) == /\ r # <<>>
            /\ DistinctRoles(r)
            /\ Composes(r)
            /\ r[Len(r)].checkpoint

Made(r) == {x \in {r} : Valid(x)}

\* Recipe.replace, append, drop_last and through.
At(r, role) == {i \in DOMAIN r : r[i].role = role}

Replace(r, role, step) ==
    UNION {Made([r EXCEPT ![i] = step]) : i \in {j \in At(r, role) : step.role = role}}

AppendSteps(r, steps) == IF steps = <<>> THEN {} ELSE Made(r \o steps)

DropLast(r, count) == IF count \in 1 .. (Len(r) - 1)
                      THEN Made(SubSeq(r, 1, Len(r) - count)) ELSE {}

Through(r, role) == UNION {Made(SubSeq(r, 1, i)) : i \in At(r, role)}

\* The declared recipes: BASE and PROJECT.  "src" is ordinary project source,
\* "support" the sources of the build support package.
Bundle == Implementation(1, "none", "runtime-bundle")
Image(version) == Implementation(version, "image-workspace", "image-workspace")

Runtime == Step("runtime", Bundle, TRUE, "locks", FALSE)
PharoGt == Step("pharo-gt", Implementation(1, "runtime-bundle", "image-workspace"),
                FALSE, "locks", FALSE)
GtPatches == Step("gt-patches", Image(1), FALSE, "scripts", FALSE)
BuildSupport == Step("build-support", Image(1), TRUE, "support", FALSE)
Dependencies == Step("project-dependencies", Image(2), FALSE, "locks", FALSE)
Setup == Step("project-setup", Image(1), TRUE, "nothing", FALSE)
Source == Step("project-source", Image(3), FALSE, "src", TRUE)
Finalize == Step("project-finalize", Image(1), TRUE, "scripts", FALSE)

Base == <<Runtime, PharoGt, GtPatches, BuildSupport>>
Project == Base \o <<Dependencies, Setup, Source, Finalize>>

ASSUME StandardRecipes ==
    /\ Made(Base) = {Base}
    /\ AppendSteps(Base, <<Dependencies, Setup, Source, Finalize>>) = {Project}
    /\ Through(Project, "build-support") = {Base}
    /\ DropLast(Project, 4) = {Base}

\* _key_configuration and the key material of resolve_recipe: an output key
\* digests the key of its parent, the implementation and the digested content,
\* so it stands for the materials of the whole prefix.  Neither recipe, target
\* and preset names nor the commit id enter it.
Material(step, content) ==
    [role |-> step.role, version |-> step.version, content |-> content]

Key(r, i, contents) == [j \in 1 .. i |-> Material(r[j], contents[j])]

\* The keys of the publication boundaries up to step i.
Boundaries(r, i, contents) ==
    {Key(r, j, contents) : j \in {k \in 1 .. i : r[k].checkpoint}}
=============================================================================
