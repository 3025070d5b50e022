---------------------------- MODULE MCSmallDrivers ----------------------------
(* SmallDrivers with values for TLC.                                       *)
EXTENDS SmallDrivers

(* All children enabled, the first, the middle or all of them disabled, or *)
(* no child.                                                               *)
MCNodes ==
  {[children |-> 3, enabled |-> e] : e \in {0 .. 2, {1, 2}, {0, 2}, {}}}
    \union {[children |-> 0, enabled |-> {}]}

(* Nothing, one, around the lengths 32 and 256 at which something is cut,  *)
(* and around the driver's limit.                                          *)
MCWriteCounts == {0, 1, 2, 20, 31, 32, 33, 34, 256, 257, 288, 1000, 1001}

(* Reads that end before, at and beyond the end of the buffer.             *)
MCReadCounts == {0, 12, 20, 33}
=============================================================================
