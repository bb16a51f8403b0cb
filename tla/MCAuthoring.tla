---------------------------- MODULE MCAuthoring ----------------------------
(* One part and the skeleton are enough for a tree to mix two writes.      *)
EXTENDS Authoring
=============================================================================
