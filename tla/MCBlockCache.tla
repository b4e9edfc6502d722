---------------------------- MODULE MCBlockCache ----------------------------
(***************************************************************************)
(* Small instances of BlockCache: two or three words of P memory.          *)
(***************************************************************************)
EXTENDS BlockCache

MCPrograms == {<<"movem", "op2", "op">>, <<"op", "movep", "op2">>,
               \* a REP of a P write that ends its block at the end of P memory
               <<"op", "repm", "movem">>}

MCProgramsAt0 == {[a \in Addr |-> p[a + 1]] : p \in MCPrograms}

(* REP of a P write, followed by code in the same block.                   *)
MCRepeated == {[a \in Addr |-> <<"repm", "movem", "op", "op">>[a + 1]]}

MCStops == {2, NoStop}

=============================================================================
