----------------------------- MODULE TaskGraph -----------------------------
(***************************************************************************)
(* Recipes of the v0.3 build as data (v3/model.py), their binding to a     *)
(* plan of ordered leaves and checkpoint boundaries (Executor.bind), and   *)
(* the recipe of this repository (v3/examples.py).  A task is its          *)
(* identity; a graph gives every task its kind and its steps.  An          *)
(* operation that raises has no result: operations return the set of their *)
(* results.                                                                *)
(***************************************************************************)
EXTENDS Naturals, Sequences, FiniteSets
LOCAL INSTANCE SequencesExt

----------------------------------------------------------------------------
(* TaskSequence: entries are pairs of a name and a task.                   *)

Entry(name, task) == [name |-> name, task |-> task]
Names(entries) == {entries[i].name : i \in DOMAIN entries}

\* ":" stands for every name with a colon.
WellNamed(entries) == /\ Names(entries) \cap {"", ":"} = {}
                      /\ Cardinality(Names(entries)) = Len(entries)

Made(entries) == {e \in {entries} : WellNamed(e)}

Replace(s, name, task) ==
    IF name \in Names(s)
    THEN Made([i \in DOMAIN s |-> IF s[i].name = name THEN Entry(name, task) ELSE s[i]])
    ELSE {}

InsertAfter(s, existing, name, task) ==
    IF existing \in Names(s)
    THEN Made(FlattenSeq([i \in DOMAIN s |->
             IF s[i].name = existing THEN <<s[i], Entry(name, task)>> ELSE <<s[i]>>]))
    ELSE {}

Through(s, name) == {SubSeq(s, 1, i) : i \in {j \in DOMAIN s : s[j].name = name}}

----------------------------------------------------------------------------
(* Executor.bind.                                                          *)

Unbound == [used |-> {}, leaves |-> <<>>, checkpoints |-> <<>>, failed |-> FALSE]

\* visit: depth first, in the order of the steps; a group that checkpoints
\* closes after its last leaf.
RECURSIVE Visit(_, _, _, _)
Visit(graph, task, path, bound) ==
    LET node == graph[task]
        began == [bound EXCEPT !.used = @ \cup {task}]
        below == FoldLeft(LAMBDA b, e : Visit(graph, e.task, Append(path, e.name), b),
                          began, node.steps)
    IN  IF bound.failed THEN bound
        ELSE IF task \in bound.used \/ ~WellNamed(node.steps)
        THEN [bound EXCEPT !.failed = TRUE]
        ELSE IF node.kind = "task"
        THEN [began EXCEPT !.leaves = Append(@, [path |-> path, task |-> task])]
        ELSE IF node.kind = "group" \/ below.failed THEN below
        ELSE [below EXCEPT !.checkpoints = Append(@, [path |-> path, leafCount |-> Len(below.leaves)])]

Bind(graph, root) ==
    {plan \in {Visit(graph, root, <<root>>, Unbound)} : ~plan.failed /\ plan.leaves # <<>>}

----------------------------------------------------------------------------
(* The recipe of this repository.                                          *)

\* A composite whose steps are named as their tasks.
Composite(kind, names) == [kind |-> kind, steps |-> [i \in DOMAIN names |-> Entry(names[i], names[i])]]

KlibGenGtTasks == {"klibGenGt", "readConfig", "obtainRuntime", "fetchDependencies",
    "extractInitialImage", "patchGT", "installDeps", "load", "verifySqlite",
    "prepareSourceArea", "sampleStep", "remainingV02Scripts", "loadProject", "provenance", "contract"}

InstallDependencies == Composite("checkpoint", <<"load", "verifySqlite">>)

KlibGenGt == [t \in KlibGenGtTasks |->
    CASE t = "klibGenGt" -> Composite("checkpoint", <<"readConfig", "obtainRuntime",
             "fetchDependencies", "extractInitialImage", "patchGT", "installDeps",
             "prepareSourceArea", "sampleStep", "remainingV02Scripts">>)
      [] t = "installDeps" -> InstallDependencies
      [] t = "remainingV02Scripts" -> Composite("group", <<"loadProject", "provenance", "contract">>)
      [] OTHER -> Composite("task", <<>>)]

\* The recipe cut down to a nested checkpoint and the task after it.
ShortKlibGenGt ==
    [KlibGenGt EXCEPT !["klibGenGt"] = Composite("checkpoint", <<"installDeps", "prepareSourceArea">>)]

\* Repository paths a task declares, files of the work tree its run reads,
\* and outputs it declares.
InImage(script) == [inputs |-> {script}, reads |-> {"runtime", "image"}, outputs |-> {}]
Files(t) ==
    CASE t = "readConfig" -> [inputs |-> {"lock"}, reads |-> {}, outputs |-> {"config"}]
      [] t = "obtainRuntime" -> [inputs |-> {"bootstrap", "lock"}, reads |-> {}, outputs |-> {"runtime"}]
      [] t = "fetchDependencies" -> [inputs |-> {"lock"}, reads |-> {"config"}, outputs |-> {"dependencies"}]
      [] t = "extractInitialImage" -> [inputs |-> {}, reads |-> {}, outputs |-> {"image"}]
      [] t = "prepareSourceArea" -> [inputs |-> {}, reads |-> {}, outputs |-> {"sourceArea"}]
      [] t = "sampleStep" -> [inputs |-> {}, reads |-> {}, outputs |-> {"sample"}]
      [] OTHER -> InImage(t)

PlanOf(graph) == CHOOSE plan \in Bind(graph, "klibGenGt") : TRUE
TasksWithOutputs(plan) == {i \in DOMAIN plan.leaves : Files(plan.leaves[i].task).outputs # {}}
StagingTasks(plan) == {i \in DOMAIN plan.leaves : plan.leaves[i].task = "prepareSourceArea"}
Closed(plan) == {plan.checkpoints[c].leafCount : c \in DOMAIN plan.checkpoints}

----------------------------------------------------------------------------
(* Reference definitions and laws, evaluated over small graphs.            *)

SmallEntries == [name : {"a", "b"}, task : {"root", "inner", "x", "y"}]
SmallSteps == UNION {[1 .. n -> SmallEntries] : n \in 0 .. 2}
SmallGraphs ==
    {[t \in {"root", "inner", "x", "y"} |->
        CASE t = "root" -> [kind |-> "checkpoint", steps |-> r]
          [] t = "inner" -> [kind |-> "checkpoint", steps |-> i]
          [] OTHER -> [kind |-> "task", steps |-> <<>>]] : r \in SmallSteps, i \in SmallSteps}

\* A walk is a sequence of positions from the root down.
RECURSIVE End(_, _)
End(graph, walk) == IF walk = <<>> THEN "root"
                    ELSE graph[End(graph, Front(walk))].steps[Last(walk)].task
RECURSIVE Below(_, _, _)
Below(graph, walk, n) ==
    {walk} \cup (IF n = 0 THEN {}
                 ELSE UNION {Below(graph, Append(walk, i), n - 1) :
                                i \in DOMAIN graph[End(graph, walk)].steps})
\* Two steps down every task of a small graph is found, and every cycle.
Walks(graph) == Below(graph, <<>>, 2)
IsLeaf(graph, walk) == graph[End(graph, walk)].kind = "task"
Before(u, v) == \E k \in DOMAIN u \cap DOMAIN v : u[k] < v[k] /\ SubSeq(u, 1, k - 1) = SubSeq(v, 1, k - 1)

\* A graph is bound exactly when it is a tree of well named groups with a
\* leaf: Executor.bind finds every shared task and every cycle by identity.
ASSUME BindAcceptsTrees ==
    \A g \in SmallGraphs :
        (Bind(g, "root") # {}) <=>
            /\ \A u, v \in Walks(g) : End(g, u) = End(g, v) => u = v
            /\ \A u \in Walks(g) : WellNamed(g[End(g, u)].steps)
            /\ \E u \in Walks(g) : IsLeaf(g, u)

\* The leaves are those of the tree in textual order, under paths of their own,
\* and a checkpoint counts every leaf of its group and those before it.
ASSUME PlansFollowTheText ==
    \A g \in SmallGraphs : \A plan \in Bind(g, "root") :
        LET ends == {u \in Walks(g) : IsLeaf(g, u)}
            walkOf(t) == CHOOSE u \in Walks(g) : End(g, u) = t
        IN  /\ Len(plan.leaves) = Cardinality(ends)
            /\ \A i, j \in DOMAIN plan.leaves : i < j =>
                  /\ Before(walkOf(plan.leaves[i].task), walkOf(plan.leaves[j].task))
                  /\ plan.leaves[i].path # plan.leaves[j].path
            /\ \A c \in DOMAIN plan.checkpoints :
                  LET group == walkOf(IF plan.checkpoints[c].path = <<"root">> THEN "root" ELSE "inner")
                  IN  plan.checkpoints[c].leafCount =
                          Cardinality({u \in ends : IsPrefix(group, u) \/ Before(u, group)})

\* Derived recipes: insertion and replacement keep the order of the others, a
\* name is inserted once, and the tasks through a step do not depend on what
\* is inserted after it.
ASSUME CompositionKeepsOrder ==
    \A s \in SmallSteps : WellNamed(s) =>
        \A old, new \in {"a", "b", "c", ":"} :
            /\ (InsertAfter(s, old, new, "x") # {})
                  <=> old \in Names(s) /\ new \notin Names(s) \cup {":"}
            /\ \A r \in InsertAfter(s, old, new, "x") :
                  /\ SelectSeq(r, LAMBDA e : e.name # new) = s
                  /\ Through(r, old) = Through(s, old)
                  /\ \A t \in Through(r, new) : Front(t) \in Through(s, old)
            /\ \A r \in Replace(s, old, "x") : Names(r) = Names(s) /\ Len(r) = Len(s)

\* Every file of the work tree that a task of the recipe reads is declared as
\* an output by an earlier one, so the prefix rule reruns the reader.
ASSUME ReadersFollowWriters ==
    LET leaves == PlanOf(KlibGenGt).leaves
    IN  \A i \in DOMAIN leaves : \A f \in Files(leaves[i].task).reads :
            \E j \in 1 .. (i - 1) : f \in Files(leaves[j].task).outputs
=============================================================================
