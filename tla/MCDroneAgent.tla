---------------------------- MODULE MCDroneAgent ----------------------------
(* The drone agent for TLC, with one DUT: the bounds are those of a cfg.     *)
EXTENDS DroneAgent
=============================================================================
