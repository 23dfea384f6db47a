--------------------------- MODULE MCDiskDrivers ---------------------------
(***************************************************************************)
(* Transfers of one, two and (for a count register of two) three sectors,  *)
(* at and beyond the last address the registers can hold; on the SATA side *)
(* an lba of one, two and three bytes, and a transfer that is too long.    *)
(***************************************************************************)
EXTENDS DiskDrivers

MC_ATA_REQUESTS  == {<<0, 1>>, <<1, 2>>, <<0, 3>>, <<2, 1>>}
MC_AHCI_REQUESTS == {<<1, 2>>, <<3, 1>>, <<5, 1>>, <<0, 3>>}
=============================================================================
