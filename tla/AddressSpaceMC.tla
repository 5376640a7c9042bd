--------------------------- MODULE AddressSpaceMC ---------------------------
(***************************************************************************)
(* A small machine for AddressSpace: tables of four entries, two spaces,   *)
(* pools that run out at different points, a screen inside and above the   *)
(* linear map, and programs the loader accepts and refuses.                *)
(***************************************************************************)
EXTENDS AddressSpace

Text(v) == [vaddr |-> v, pages |-> 1, write |-> FALSE, exec |-> TRUE]
Data(v, n) == [vaddr |-> v, pages |-> n, write |-> TRUE, exec |-> FALSE]
Both(v) == [vaddr |-> v, pages |-> 1, write |-> TRUE, exec |-> TRUE]

Program == [segments |-> <<Text(8), Data(9, 1)>>, entry |-> 8]
Refused ==
  {[segments |-> <<Text(8), Both(9)>>, entry |-> 8],
   [segments |-> <<Text(8), Data(USER_LIMIT - 1, 2)>>, entry |-> 8],
   [segments |-> <<Data(11, 2)>>, entry |-> USER_LIMIT]}

NoScreen == [phys |-> 0, len |-> 0]
Screens == {[phys |-> LinearPages - 1, len |-> 1], [phys |-> LinearPages + 2, len |-> 2]}

(* The first n frames the image leaves, without the trampoline's page. *)
RAM == (ImagePages .. Frames - 1) \ {TRAMPOLINE_PHYS}
First(n) == {f \in RAM : Cardinality({g \in RAM : g <= f}) <= n}

(* Every size of pool; the rest of the variety on the largest; and pools    *)
(* that hold the trampoline's page, to give it out at any point of the boot.*)
MCMachines ==
  [pool : {First(n) : n \in 1 .. 38}, gib : {TRUE}, smap : {TRUE}, fb : {NoScreen},
   image : {Program}]
    \cup [pool : {First(30), First(38)}, gib : {FALSE}, smap : BOOLEAN, fb : Screens,
          image : {Program}]
    \cup [pool : {First(38)}, gib : {TRUE}, smap : {FALSE}, fb : {NoScreen}, image : Refused]
    \cup [pool : {f .. Frames - 1 : f \in ImagePages .. TRAMPOLINE_PHYS}, gib : {TRUE},
          smap : {TRUE}, fb : {NoScreen}, image : {Program}]
=============================================================================
