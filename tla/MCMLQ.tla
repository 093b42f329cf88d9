--------------------------------- MODULE MCMLQ ---------------------------------
(* Small instances of MLQ for TLC. *)
EXTENDS MLQ
===============================================================================
