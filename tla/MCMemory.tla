------------------------------ MODULE MCMemory ------------------------------
(***************************************************************************)
(* Machines of every size from the 12 pages the boot takes to the 26 that  *)
(* four slots can use: a fork runs out of pages at each of its 7 kallocs.  *)
(* Pages are 2 units long and the kernel ends inside page 2.  The map of a *)
(* machine has low memory below the kernel, a region with the kernel in it *)
(* and 5 pages behind, which ends inside a page; a reserved hole; and the  *)
(* rest, which begins inside a page and, on the largest machine, reaches   *)
(* beyond the limit.                                                       *)
(***************************************************************************)
EXTENDS Context

MCPage == 3 .. 31
Size == 12 .. 26
Ram(from, to) == [address |-> from, length |-> to - from, type |-> 1]
Hole(from, to) == [address |-> from, length |-> to - from, type |-> 2]
MCMap(n) ==
  <<Ram(0, 1), Hole(1, 2), Ram(2, 17), Hole(17, 21),
    Ram(21, IF n = 26 THEN 70 ELSE 2 * (n + 6))>>
MCMaps == {MCMap(n) : n \in Size}
=============================================================================
