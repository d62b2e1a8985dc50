--------------------------- MODULE MCStationAgent --------------------------
(* Small instances of StationAgent for TLC. *)
EXTENDS StationAgent, TLC

EveryoneTx == [p \in Client |-> "tx"]

Clients == Permutations(Client)
Jtis == Permutations(Jti)
=============================================================================
