---------------------------- MODULE DirtyBitmap -----------------------------
(***************************************************************************)
(* PramDirtyBitmap (crates/emu/src/core.rs): one bit per word of P memory, *)
(* packed WordBits to an array element, with range queries and clears that *)
(* treat the first element, the middle ones and the last one apart.  A     *)
(* word of bits is the set of the positions that are 1.                    *)
(***************************************************************************)
EXTENDS Integers

CONSTANTS
    PramSize,   \* tracked words
    WordBits,   \* bits of an array element (64 in the code)
    AddrBound   \* bound: addresses and range ends that callers pass

ASSUME BitmapAssumption ==
    /\ PramSize \in Nat \ {0}
    /\ WordBits \in Nat \ {0}
    /\ AddrBound \in Nat

VARIABLE dirty  \* the array of bit words

NumWords == (PramSize + WordBits - 1) \div WordBits
AllBits == 0 .. WordBits - 1

Lesser(a, b) == IF a < b THEN a ELSE b

(* (1 << n) - 1, with the shift by the full width written out as !0.       *)
LowMask(n) == IF n >= WordBits THEN AllBits ELSE 0 .. n - 1

(* !0 << n *)
HighMask(n) == n .. WordBits - 1

(* Bits [lo_bit, hi_bit) of one word.                                      *)
RangeMask(lo_bit, hi_bit) == LowMask(hi_bit) \ (0 .. lo_bit - 1)

(* Variant: the middle elements start one too late.                        *)
IsRangeDirtyShort(start_pc, end_pc) ==
    LET hi == Lesser(end_pc, PramSize)
        first == start_pc \div WordBits
        last == (hi - 1) \div WordBits
    IN  /\ start_pc < hi
        /\ IF first = last
           THEN dirty[first] \cap RangeMask(start_pc % WordBits,
                         Lesser(hi - first * WordBits, WordBits)) # {}
           ELSE \/ dirty[first] \cap HighMask(start_pc % WordBits) # {}
                \/ \E w \in first + 2 .. last - 1 : dirty[w] # {}
                \/ dirty[last] \cap LowMask(hi - last * WordBits) # {}

IsRangeDirty(start_pc, end_pc) ==
    LET hi == Lesser(end_pc, PramSize)
        first == start_pc \div WordBits
        last == (hi - 1) \div WordBits
    IN  /\ start_pc < hi
        /\ IF first = last
           THEN dirty[first] \cap RangeMask(start_pc % WordBits,
                         Lesser(hi - first * WordBits, WordBits)) # {}
           ELSE \/ dirty[first] \cap HighMask(start_pc % WordBits) # {}
                \/ \E w \in first + 1 .. last - 1 : dirty[w] # {}
                \/ dirty[last] \cap LowMask(hi - last * WordBits) # {}

-----------------------------------------------------------------------------
Init == dirty = [w \in 0 .. NumWords - 1 |-> {}]

MarkDirty(addr) ==
    /\ addr < PramSize
    /\ dirty' = [dirty EXCEPT ![addr \div WordBits] =
                                 @ \cup {addr % WordBits}]

(* Variant: the last element is cleared whole.                             *)
ClearDirtyRangeWide(start_pc, end_pc) ==
    LET hi == Lesser(end_pc, PramSize)
        first == start_pc \div WordBits
        last == (hi - 1) \div WordBits
    IN  /\ start_pc < hi
        /\ dirty' = [w \in 0 .. NumWords - 1 |->
              CASE w = first -> dirty[w] \ HighMask(start_pc % WordBits)
                [] w \in first + 1 .. last -> {}
                [] OTHER -> dirty[w]]

ClearDirtyRange(start_pc, end_pc) ==
    LET hi == Lesser(end_pc, PramSize)
        first == start_pc \div WordBits
        last == (hi - 1) \div WordBits
        mask == RangeMask(start_pc % WordBits,
                          Lesser(hi - first * WordBits, WordBits))
    IN  /\ start_pc < hi
        /\ dirty' = IF first = last
                    THEN [dirty EXCEPT ![first] = @ \ mask]
                    ELSE [w \in 0 .. NumWords - 1 |->
              CASE w = first -> dirty[w] \ HighMask(start_pc % WordBits)
                [] w \in first + 1 .. last - 1 -> {}
                [] w = last -> dirty[w] \ LowMask(hi - last * WordBits)
                [] OTHER -> dirty[w]]

Next ==
    \/ \E addr \in 0 .. AddrBound : MarkDirty(addr)
    \/ \E lo, hi \in 0 .. AddrBound : ClearDirtyRange(lo, hi)

Spec == Init /\ [][Next]_dirty

-----------------------------------------------------------------------------
(* The addresses whose bit is set.                                         *)
Marked == {a \in 0 .. NumWords * WordBits - 1 :
               a % WordBits \in dirty[a \div WordBits]}

(* The array keeps its size, and the padding bits of its last element stay *)
(* clear: a set one would never be cleared, and would keep the last block  *)
(* of P memory dirty for ever.                                             *)
TypeOK ==
    /\ dirty \in [0 .. NumWords - 1 -> SUBSET AllBits]
    /\ Marked \subseteq 0 .. PramSize - 1

(* is_range_dirty finds a marked address of [lo, hi) exactly when there is *)
(* one, whatever elements the range starts, spans and ends in; no bit past *)
(* the end of P memory is ever set.                                        *)
QueryExact ==
    /\ TypeOK
    /\ \A lo, hi \in 0 .. AddrBound :
          IsRangeDirty(lo, hi) <=> \E a \in lo .. hi - 1 : a \in Marked

(* mark_dirty adds its address, and clear_dirty_range removes exactly its  *)
(* range: a clear that removed a neighbouring bit would hide a write from  *)
(* the block that covers it.                                               *)
StepsExact ==
    [][/\ \A a \in 0 .. AddrBound :
             MarkDirty(a) => Marked' = Marked \cup {a}
       /\ \A lo, hi \in 0 .. AddrBound :
             ClearDirtyRange(lo, hi) => Marked' = Marked \ (lo .. hi - 1)]_dirty

=============================================================================
