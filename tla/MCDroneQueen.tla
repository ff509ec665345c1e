---------------------------- MODULE MCDroneQueen ----------------------------
EXTENDS DroneQueen, TLC

Symmetry == Permutations(Drones) \cup Permutations(DUTs) \cup Permutations(Handlers)
=============================================================================
