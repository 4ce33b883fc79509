-------------------------- MODULE MCArtifactCommit --------------------------
(* Instance of ArtifactCommit for TLC. *)
EXTENDS ArtifactCommit

\* Two shard files are enough for a commit that stops between them.
MCShardFiles == <<"s000", "s001">>
=============================================================================
