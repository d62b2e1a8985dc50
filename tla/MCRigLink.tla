------------------------------ MODULE MCRigLink ------------------------------
(* The rig-control component on a small instance.                          *)
EXTENDS RigLink

=============================================================================
