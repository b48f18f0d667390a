------------------------------ MODULE MCFiles ------------------------------
(***************************************************************************)
(* Two processes, then a third in the slot of the first that is collected; *)
(* two descriptors each, three open files in all, so that either table may *)
(* fill up first.                                                          *)
(***************************************************************************)
EXTENDS Files

CONSTANTS kernel, shell

MCFileSize == [f \in File |-> IF f = shell THEN 3 ELSE 2]
=============================================================================
