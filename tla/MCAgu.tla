-------------------------------- MODULE MCAgu ---------------------------------
(***************************************************************************)
(* Registers of 6 bits: M below 32 is a modulo, except for the patterns    *)
(* that select multiple wrap-around (bit 4 set, bit 3 clear) of up to 8    *)
(* words.                                                                  *)
(***************************************************************************)
EXTENDS Agu

MCModifiers == {0, 1, 2, 4, 7, 12, 17, 19, 23, 26, 33, 48, 63}
MCOffsets == {0, 1, 2, 3, 4, 8, 32, 59, 62}
MCOrigins == {0, 4, 13, 18, 40, 53, 63}
===============================================================================
