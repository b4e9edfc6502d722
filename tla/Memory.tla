-------------------------------- MODULE Memory --------------------------------
(***************************************************************************)
(* The memory map and the ways to reach it.  A space (X, Y or P) is a      *)
(* sequence of regions: a Buffer is a window on an embedder's array, a     *)
(* Callback a device.  An access with a constant address is resolved when  *)
(* the code is emitted; one with a computed address takes a fast path into *)
(* the first buffer and walks the regions otherwise; a store to P space    *)
(* goes through a helper that keeps the dirty bitmap.                      *)
(*                                                                         *)
(* A memory record m has buf (the arrays), dev (the device registers),     *)
(* dirty (P addresses marked) and log (the device accesses of the current  *)
(* instruction, in order).                                                 *)
(***************************************************************************)
EXTENDS AluOps, Sequences, FiniteSets

Spaces == {"X", "Y", "P"}

Buffer(start, end, base, offset) ==
    [kind |-> "Buffer", start |-> start, end |-> end, base |-> base,
     offset |-> offset]
Callback(start, end) ==
    [kind |-> "Callback", start |-> start, end |-> end, base |-> "none",
     offset |-> 0]
NoRegion == [kind |-> "none", start |-> 0, end |-> 0, base |-> "none", offset |-> 0]

Inside(rg, addr) == addr >= rg.start /\ addr < rg.end

\* The first region that holds the address.
lookup(regions, addr) ==
    LET hits == {k \in DOMAIN regions : Inside(regions[k], addr)}
    IN  IF hits = {} THEN NoRegion
        ELSE regions[CHOOSE k \in hits : \A j \in hits : k <= j]

\* Devices are external: a register holds what was last written to it.
DeviceRead(m, space, addr) ==
    [val |-> mask24(m.dev[space][addr]),
     m |-> [m EXCEPT !.log = Append(@, <<"read", space, addr>>)]]
DeviceWrite(m, space, addr, v) ==
    [m EXCEPT !.log = Append(@, <<"write", space, addr>>), !.dev[space][addr] = v]

-------------------------------------------------------------------------------
(* The region walk, at run time (read_memory, write_memory) and when the   *)
(* address is a constant of the instruction (read_mem, write_mem).         *)

read_memory(map, m, space, addr) ==
    LET rg == lookup(map[space], addr)
    IN  CASE rg.kind = "Buffer" ->
               [val |-> mask24(m.buf[rg.base][addr - rg.start + rg.offset]), m |-> m]
          [] rg.kind = "Callback" -> DeviceRead(m, space, addr)
          [] OTHER -> [val |-> 0, m |-> m]

write_memory(map, m, space, addr, v) ==
    LET rg == lookup(map[space], addr)
    IN  CASE rg.kind = "Buffer" ->
               [m EXCEPT !.buf[rg.base][addr - rg.start + rg.offset] = mask24(v)]
          [] rg.kind = "Callback" -> DeviceWrite(m, space, addr, mask24(v))
          [] OTHER -> m

read_mem(map, m, space, addr) == read_memory(map, m, space, addr)
write_mem(map, m, space, addr, v) == write_memory(map, m, space, addr, v)

-------------------------------------------------------------------------------
(* Computed addresses.                                                     *)

\* The space's RAM: its first region, when that is a buffer that starts at 0.
ram_region(regions) ==
    IF regions # <<>> /\ regions[1].kind = "Buffer" /\ regions[1].start = 0
    THEN regions[1] ELSE NoRegion

PowerOfTwo(n) == \E k \in 0 .. W : n = 2^k

\* An index that is in range whether or not the address is.
clamped_index(addr, end) ==
    IF PowerOfTwo(end) THEN addr % end ELSE IF addr < end THEN addr ELSE 0

\* The load is unconditional; its value is used when the address was in range.
read_mem_dyn(map, m, space, addr) ==
    LET ram == ram_region(map[space])
        hit == m.buf[ram.base][clamped_index(addr, ram.end) + ram.offset]
    IN  CASE ram = NoRegion -> read_memory(map, m, space, addr)
          [] ram # NoRegion /\ addr < ram.end -> [val |-> mask24(hit), m |-> m]
          [] ram # NoRegion /\ addr >= ram.end /\ Len(map[space]) = 1 ->
               [val |-> 0, m |-> m]
          [] OTHER -> read_memory(map, m, space, addr)

\* Mutated: the changed word is not marked.
jit_write_mem_pUnmarked(map, m, addr, v) ==
    write_memory(map, read_memory(map, m, "P", addr).m, "P", addr, mask24(v))

\* The bitmap covers P space up to its last region.
p_space_end(map) ==
    IF map["P"] = <<>> THEN 0
    ELSE CHOOSE e \in {map["P"][k].end : k \in DOMAIN map["P"]} :
           \A k \in DOMAIN map["P"] : map["P"][k].end <= e
mark_dirty(map, dirty, addr) ==
    IF addr < p_space_end(map) THEN dirty \union {addr} ELSE dirty

\* A store to P space: read, compare, and when the word differs write it and
\* mark it.
jit_write_mem_p(map, m, addr, v) ==
    LET old == read_memory(map, m, "P", addr)
    IN  IF old.val = mask24(v) THEN old.m
        ELSE [write_memory(map, old.m, "P", addr, mask24(v))
                EXCEPT !.dirty = mark_dirty(map, @, addr)]

\* Mutated: the store of a miss goes to the clamped element, not to the sink.
write_mem_dynClamped(map, m, space, addr, v) ==
    LET ram == ram_region(map[space])
    IN  CASE space = "P" -> jit_write_mem_p(map, m, addr, v)
          [] space # "P" /\ ram = NoRegion -> write_memory(map, m, space, addr, v)
          [] OTHER ->
               LET st == [m EXCEPT !.buf[ram.base][clamped_index(addr, ram.end)
                                                   + ram.offset] = mask24(v)]
               IN  IF addr < ram.end \/ Len(map[space]) = 1 THEN st
                   ELSE write_memory(map, st, space, addr, v)

\* The store is unconditional: a miss lands in mem_write_sink, a word that
\* nothing reads, and then walks the regions if there are more of them.
write_mem_dyn(map, m, space, addr, v) ==
    LET ram == ram_region(map[space])
    IN  CASE space = "P" -> jit_write_mem_p(map, m, addr, v)
          [] space # "P" /\ ram = NoRegion -> write_memory(map, m, space, addr, v)
          [] space # "P" /\ ram # NoRegion /\ addr < ram.end ->
               [m EXCEPT !.buf[ram.base][clamped_index(addr, ram.end)
                                         + ram.offset] = mask24(v)]
          [] space # "P" /\ ram # NoRegion /\ addr >= ram.end
               /\ Len(map[space]) > 1 -> write_memory(map, m, space, addr, v)
          [] OTHER -> m
===============================================================================
