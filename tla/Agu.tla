--------------------------------- MODULE Agu ----------------------------------
(***************************************************************************)
(* Address generation: one address register R with its offset N and its    *)
(* modifier M, and the effective address modes that read and update it.    *)
(* Registers have RB bits (24 in the code); bits MB and MB-1 of M (15 and  *)
(* 14) select the multiple wrap-around mode.                               *)
(*                                                                         *)
(* origin, net and ea are history: where R started, by how much the updates *)
(* so far displaced it, and the last effective address with the            *)
(* displacement it stands for.  In bit-reverse mode displacements add up   *)
(* in the reversed domain.                                                 *)
(***************************************************************************)
EXTENDS Integers

CONSTANTS RB, MB,       \* register width; the mode bit of M
          Modifiers,    \* the values of M, N and R the guest loads
          Offsets,
          Origins,
          MaxSteps      \* bound on the updates after a load

ASSUME AguAssumption ==
    /\ RB \in Nat /\ MB \in Nat /\ 1 <= MB /\ MB < RB - 1 /\ MaxSteps \in Nat
    /\ Modifiers \subseteq 0 .. 2^RB - 1 /\ Offsets \subseteq 0 .. 2^RB - 1
    /\ Origins \subseteq 0 .. 2^RB - 1

VARIABLES r, n, m,         \* R, N and M
          origin, net, ea,
          steps, walk      \* updates so far; all of them were (Rn)+Nn

vars == <<r, n, m, origin, net, ea, steps, walk>>

Addr == 0 .. 2^RB - 1
TypeOK == {r, n, m, origin, ea.addr} \subseteq Addr /\ steps \in 0 .. MaxSteps

-------------------------------------------------------------------------------
(* The update of an address register.                                      *)

Linear == 2^RB - 1
IsMultiWrap(mod) == (mod \div 2^(MB - 1)) % 4 = 2

\* Words by their bits: reversed, and masked.
Bit(v, i) == (v \div 2^i) % 2
bitrev24(v) == CHOOSE w \in Addr : \A i \in 0 .. RB - 1 : Bit(w, i) = Bit(v, RB - 1 - i)
Masked(v, mask) == CHOOSE w \in Addr : \A i \in 0 .. RB - 1 : Bit(w, i) = Bit(v, i) * Bit(mask, i)

Magnitude(d) == IF d < 0 THEN -d ELSE d

\* Mutated: the step is not reversed.
ReverseStepPlain(d) == d

\* Bit-reverse: add or subtract in the reversed domain.
ReverseStep(d) == (IF d < 0 THEN -1 ELSE 1) * bitrev24(Magnitude(d) % 2^RB)
UpdateReverse(reg, d) == bitrev24((bitrev24(reg) + ReverseStep(d)) % 2^RB)

\* Multiple wrap-around: the offset in a block of a power of two, by masks.
MultiWrapSize(mod) == (mod % 2^(MB - 1)) + 1
UpdateMultiWrap(reg, mod, d) ==
    LET mask == MultiWrapSize(mod) - 1
        off == Masked(reg, mask)
    IN  (reg - off) + Masked((off + d) % 2^RB, mask)

BufferSize(modulo) == 2^(CHOOSE e \in 0 .. RB : 2^e >= modulo
                                               /\ (e = 0 \/ 2^(e - 1) < modulo))

\* Mutated: the wrap is corrected in one direction only.
update_rn_moduloUp(reg, mod, d) ==
    LET lo == reg - (reg % BufferSize(mod + 1))
    IN  (IF d > 0 /\ reg + d > lo + mod THEN reg + d - (mod + 1) ELSE reg + d) % 2^RB

\* Modulo: the correction is gated on the direction of the step and skipped
\* for a step of exactly the modulus.  The loops of the source that take a
\* large step apart leave the sum and its direction as they are.
update_rn_modulo(reg, mod, d) ==
    LET modulo == mod + 1
        lo == reg - (reg % BufferSize(modulo))
        hi == (lo + modulo - 1) % 2^RB
        sum == reg + d
        wrapped == CASE d = modulo -> sum
                     [] d # modulo /\ d > 0 /\ sum > hi -> sum - modulo
                     [] d # modulo /\ d < 0 /\ sum < lo -> sum + modulo
                     [] OTHER -> sum
    IN  wrapped % 2^RB

update_rn(reg, mod, d) ==
    CASE mod = Linear -> (reg + d) % 2^RB
      [] mod = 0 -> UpdateReverse(reg, d)
      [] mod \notin {0, Linear} /\ IsMultiWrap(mod) -> UpdateMultiWrap(reg, mod, d)
      [] mod \notin {0, Linear} /\ ~ IsMultiWrap(mod) /\ mod < 2^(RB - 1) ->
           update_rn_modulo(reg, mod, d)
      [] OTHER -> reg

\* N is a signed offset.
load_nn_signed == IF n >= 2^(RB - 1) THEN n - 2^RB ELSE n

-------------------------------------------------------------------------------
(* The effective address modes.                                            *)

\* The displacement of a step, in the domain of the mode.
Disp(d) == IF m = 0 THEN ReverseStep(d) ELSE d

Init == /\ m \in Modifiers /\ n \in Offsets /\ origin \in Origins
        /\ r = origin /\ net = 0
        /\ ea = [addr |-> origin, disp |-> 0]
        /\ steps = 0 /\ walk = TRUE

\* (Rn)+, (Rn)-, (Rn)+Nn, (Rn)-Nn: the address is R before the update.
PostUpdate(d) ==
    /\ steps < MaxSteps
    /\ r' = update_rn(r, m, d)
    /\ net' = net + Disp(d)
    /\ ea' = [addr |-> r, disp |-> net]
    /\ steps' = steps + 1
    /\ UNCHANGED <<n, m, origin>>

PostNn == PostUpdate(load_nn_signed) /\ UNCHANGED walk
PostMinusNn == PostUpdate(-load_nn_signed) /\ walk' = FALSE
PostIncrement == PostUpdate(1) /\ walk' = FALSE
PostDecrement == PostUpdate(-1) /\ walk' = FALSE

\* (Rn): no update.
NoUpdate == /\ ea' = [addr |-> r, disp |-> net]
            /\ UNCHANGED <<r, n, m, origin, net, steps, walk>>

\* (Rn+Nn): update, take the address, restore.
Indexed ==
    /\ ea' = [addr |-> update_rn(r, m, load_nn_signed),
              disp |-> net + Disp(load_nn_signed)]
    /\ UNCHANGED <<r, n, m, origin, net, steps, walk>>

\* Mutated: the address is taken before the update.
PreDecrementLate ==
    /\ steps < MaxSteps
    /\ r' = update_rn(r, m, -1)
    /\ net' = net + Disp(-1)
    /\ ea' = [addr |-> r, disp |-> net']
    /\ steps' = steps + 1 /\ walk' = FALSE
    /\ UNCHANGED <<n, m, origin>>

\* -(Rn): the address is R after the update.
PreDecrement ==
    /\ steps < MaxSteps
    /\ r' = update_rn(r, m, -1)
    /\ net' = net + Disp(-1)
    /\ ea' = [addr |-> r', disp |-> net']
    /\ steps' = steps + 1 /\ walk' = FALSE
    /\ UNCHANGED <<n, m, origin>>

\* LUA: the updated value goes to another register (ea stands for it), R is
\* restored.
Lua(d) ==
    /\ ea' = [addr |-> update_rn(r, m, d), disp |-> net + Disp(d)]
    /\ UNCHANGED <<r, n, m, origin, net, steps, walk>>
LuaUpdate == \E d \in {load_nn_signed, -load_nn_signed, 1, -1} : Lua(d)

Next == PostNn \/ PostMinusNn \/ PostIncrement \/ PostDecrement \/ NoUpdate
        \/ Indexed \/ PreDecrement \/ LuaUpdate
Spec == Init /\ [][Next]_vars

-------------------------------------------------------------------------------
(* What the modes promise, without the steps that lead there.              *)

\* The block a pointer stays in: its first address and its size.
BlockSize == CASE m \in {0, Linear} -> 2^RB
               [] m \notin {0, Linear} /\ IsMultiWrap(m) -> MultiWrapSize(m)
               [] OTHER -> m + 1
BlockBase == IF BlockSize = 2^RB THEN 0
             ELSE origin - (origin % BufferSize(BlockSize))

\* The guest keeps the rules of the mode: a modulo pointer starts inside its
\* buffer and steps by less than the modulus, a multiple wrap-around buffer
\* is a power of two, and the modifier is not a reserved one.
Disciplined ==
    /\ m < 2^(RB - 1) \/ m = Linear \/ IsMultiWrap(m)
    /\ IsMultiWrap(m) /\ m # Linear => BufferSize(BlockSize) = BlockSize
    /\ origin < BlockBase + BlockSize
    /\ IsMultiWrap(m) \/ m \in {0, Linear} \/ Magnitude(load_nn_signed) < BlockSize

\* The address a displacement of d from the origin stands for.
Reached(d) == IF m = 0 THEN bitrev24((bitrev24(origin) + d) % 2^RB)
              ELSE BlockBase + ((origin - BlockBase + d) % BlockSize)

\* Whatever the order of increments, decrements, offsets and wraps, a pointer
\* is where its net displacement puts it, inside its buffer: update_rn never
\* loses a word at a wrap and never leaves the buffer.  No update, allowed or
\* not, leaves the address space.
PointerFollowsNet == TypeOK /\ (Disciplined => r = Reached(net))

\* Every mode addresses the word it names: before the update, after it, or
\* a transient sum that leaves the register alone.
EffectiveAddress == Disciplined => ea.addr = Reached(ea.disp)

\* Steps of N = 2^j in bit-reverse mode visit the points of a table of
\* 2^(j+1) words in bit-reversed order.
BitReverseOrder ==
    \A j \in 0 .. RB - 2 :
      m = 0 /\ walk /\ n = 2^j /\ origin % 2^(j + 1) = 0 =>
        /\ r - origin \in 0 .. 2^(j + 1) - 1
        /\ \A i \in 0 .. j : Bit(r - origin, i) = Bit(steps, j - i)
===============================================================================
