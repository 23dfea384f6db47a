------------------------------- MODULE MCMmio -------------------------------
(***************************************************************************)
(* Pages of two units, tables of four entries on three levels.  Memory     *)
(* maps without a hole, with one, with an entry off a page boundary that   *)
(* holds the ACPI tables, with an entry below a page, with a range that is *)
(* longer than an int, and with too little memory.  Heaps from empty to    *)
(* ample; registers of one and two pages and of half a page.               *)
(***************************************************************************)
EXTENDS Mmio

E(a, l, t) == [address |-> a, length |-> l, type |-> t]

MCMaps ==
    { << E(0, 2, "free"), E(3, 1, "reserved"), E(4, 10, "free"), E(14, 2, "reserved") >>,
      << E(0, 3, "free"), E(4, 6, "free"), E(13, 5, "acpi"), E(20, 4, "free") >>,
      << E(0, 4, "free"), E(4, 24, "free") >>,
      << E(0, 3, "free"), E(4, 8, "free"), E(12, 1, "free"), E(15, 4, "acpi") >>,
      << E(0, 3, "free") >> }

(* The maps are such that the kernel's addresses are proved to stay.       *)
ASSUME MCMapsAssumption == MapsInOrder /\ RangesFitInt

MCBars == {<<40, 2>>, <<44, 4>>, <<41, 1>>}
=============================================================================
