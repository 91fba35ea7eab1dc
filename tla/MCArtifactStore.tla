-------------------------- MODULE MCArtifactStore --------------------------
(* Instances of ArtifactStore: a recipe of three steps and two artifacts   *)
(* with the pinned project source between them, and what recipe revision   *)
(* makes of it.                                                            *)
EXTENDS ArtifactStore, TLC

MCFinalize(version) == Step("project-finalize", Image(version), TRUE, "src", FALSE)
MCSource == Step("project-source", Implementation(3, "runtime-bundle", "image-workspace"),
                 FALSE, "src", TRUE)
MCProject == <<Runtime, MCSource, MCFinalize(1)>>

MCFiles == {"locks", "src"}
MCEdited == {"src"}
MCOffered == {MCProject} \cup DropLast(MCProject, 1) \cup DropLast(MCProject, 2)
MCOnly == {MCProject}
=============================================================================
