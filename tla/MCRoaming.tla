------------------------------ MODULE MCRoaming ------------------------------
(* Roaming on a small instance: two addresses.                               *)
EXTENDS Roaming

==============================================================================
