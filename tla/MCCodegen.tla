------------------------------ MODULE MCCodegen -------------------------------
(***************************************************************************)
(* Programs of up to three instructions over one instruction per rule of   *)
(* the emitter, in loops of up to two iterations.                          *)
(***************************************************************************)
EXTENDS Codegen

MCInsts == {"add", "cmp", "asl", "or", "rdsr", "wrsr", "rdlc", "peri", "tcc",
            "rn", "lim", "pop", "pmem", "ifcc", "ifccu"}
===============================================================================
