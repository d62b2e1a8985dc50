----------------------------- MODULE MCArmGate -----------------------------
(* A small instance of ArmGate for TLC; MCArmGate.cfg gives the values. *)
EXTENDS ArmGate
=============================================================================
