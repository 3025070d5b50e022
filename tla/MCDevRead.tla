----------------------------- MODULE MCDevRead -----------------------------
(* Values of the constants of the reader and the resizable device for TLC. *)
EXTENDS DevRead

(* A device of the setup module, and the same from a device tree: of a     *)
(* size that is no permission, and of one that is.                         *)
MCDescriptions ==
  {[tree |-> FALSE, size |-> 2, perm |-> RDWR],
   [tree |-> TRUE, size |-> 2, perm |-> RDWR],
   [tree |-> TRUE, size |-> 1, perm |-> RDWR]}

(* Nothing, less, more, and a negative size.                               *)
MCSizes == {-1, 0, 1, 3}
MCOffsets == {-1, 0}

(* A negative number, none, some, and more than there can be.              *)
MCRequests == {-1, 0, 1, 4}
=============================================================================
