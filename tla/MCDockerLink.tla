---------------------------- MODULE MCDockerLink ----------------------------
(* DockerLink on a small instance; see the .cfg files for its constants. *)
EXTENDS DockerLink
=============================================================================
