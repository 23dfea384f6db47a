---------------------------- MODULE MCInterrupts ----------------------------
(***************************************************************************)
(* The timer and a serial line, and two lines of the second controller,    *)
(* whose priority is between those; one kind of exception besides the NMI. *)
(***************************************************************************)
EXTENDS Interrupts
=============================================================================
