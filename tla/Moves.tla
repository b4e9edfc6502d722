-------------------------------- MODULE Moves ---------------------------------
(***************************************************************************)
(* The move, peripheral, address and bit instructions, as functions from   *)
(* the machine state before to the machine state after, in the order in    *)
(* which the emitted code does things.  A machine state s has             *)
(*   pc, adv          program counter, length charged (see Control)        *)
(*   sr, stk          status register, hardware stack                      *)
(*   reg              X0, X1, Y0, Y1, R0, N0, R4, N4, one word each        *)
(*   acc              A and B, packed                                      *)
(*   map, m           the memory map and the memory                        *)
(* An operation that yields a value returns [val, s].                      *)
(*                                                                         *)
(* Address registers use linear arithmetic here; Agu has the other modes.  *)
(* The arithmetic unit is represented by five of the operations of DataAlu.*)
(***************************************************************************)
EXTENDS Memory, StackOps

PpBase == 2^W - 2       \* 0xFFFFC0, the last peripheral words
QqBase == 2^W - 4       \* 0xFFFF80

-------------------------------------------------------------------------------
(* Registers.                                                              *)

AccOf(i) == IF i \in {"A", "A0", "A1", "A2", "A10"} THEN "A" ELSE "B"

load_reg(s, i) ==
    CASE i \in DOMAIN s.reg -> s.reg[i]
      [] i \in {"A0", "B0"} -> extract_acc_lo(s.acc[AccOf(i)])
      [] i \in {"A1", "B1"} -> extract_acc_mid(s.acc[AccOf(i)])
      [] i \in {"A2", "B2"} -> extract_acc_hi(s.acc[AccOf(i)])
      \* A and B have a word of their own in the register file, which no
      \* instruction writes.
      [] OTHER -> 0

\* A part of an accumulator is replaced, the others are kept.
store_reg(s, i, v) ==
    LET a == AccOf(i)
        old == s.acc[a]
        Packed == CASE i \in {"A0", "B0"} -> pack_acc(extract_acc_hi(old),
                                                     extract_acc_mid(old), v)
                    [] i \in {"A1", "B1"} -> WithMid(old, v)
                    [] OTHER -> pack_acc(v % 2^EXT, extract_acc_mid(old),
                                         extract_acc_lo(old))
    IN  IF i \in DOMAIN s.reg THEN [s EXCEPT !.reg[i] = v]
        ELSE [s EXCEPT !.acc[a] = Packed]

\* Mutated: the limit is applied and not recorded.
read_accu24Silent(s, a) ==
    LET r == jit_read_accu24(s.sr, s.acc[a])
    IN  [val |-> r.val, limited |-> r.limited, s |-> s]

read_accu24(s, a) ==
    LET r == jit_read_accu24(s.sr, s.acc[a])
    IN  [val |-> r.val, limited |-> r.limited, s |-> [s EXCEPT !.sr = r.sr]]

\* Reading SSH pops the stack.
jit_read_ssh(s) == [val |-> popped(s.stk)[1], s |-> [s EXCEPT !.stk = stack_pop(@)]]

read_reg_for_move(s, i) ==
    CASE i \in {"A", "B"} -> read_accu24(s, i)
      [] i = "SSH" -> jit_read_ssh(s)
      [] i \in {"A2", "B2"} -> [val |-> mask24(Signed(load_reg(s, i), EXT)), s |-> s]
      [] OTHER -> [val |-> load_reg(s, i), s |-> s]

write_reg_for_move(s, i, v) ==
    CASE i \in {"A", "B"} -> [s EXCEPT !.acc[i] = val24_to_acc56(v)]
      [] i = "SSH" -> [s EXCEPT !.stk = write_ssh(@, v)]
      [] OTHER -> store_reg(s, i, v)

\* The pairs of L memory: A10, B10, X, Y, A, B, AB, BA.  A and B are limited
\* as one long word.
read_l_reg(s, p) ==
    LET one(hi, lo) == [x |-> load_reg(s, hi), y |-> load_reg(s, lo), s |-> s]
        long(a) ==
            LET r == read_accu24(s, a)
                low == load_reg(s, IF a = "A" THEN "A0" ELSE "B0")
            IN  [x |-> r.val, s |-> r.s,
                 y |-> IF ~ r.limited THEN low
                       ELSE IF Bit(r.val, W - 1) = 1 THEN 0 ELSE 2^W - 1]
        two(a, b) ==
            LET f == read_accu24(s, a)
                g == read_accu24(f.s, b)
            IN  [x |-> f.val, y |-> g.val, s |-> g.s]
    IN  CASE p = "A10" -> one("A1", "A0")   [] p = "B10" -> one("B1", "B0")
          [] p = "X" -> one("X1", "X0")     [] p = "Y" -> one("Y1", "Y0")
          [] p = "AB" -> two("A", "B")      [] p = "BA" -> two("B", "A")
          [] OTHER -> long(p)

write_l_reg(s, p, x, y) ==
    LET ext == Bit(x, W - 1) * (2^EXT - 1)
        one == val24_to_acc56(x)
        two == val24_to_acc56(y)
    IN  CASE p \in {"A10", "B10"} ->
               [s EXCEPT !.acc[AccOf(p)] = pack_acc(extract_acc_hi(@), x, y)]
          [] p \in {"A", "B"} -> [s EXCEPT !.acc[p] = pack_acc(ext, x, y)]
          [] p = "X" -> [s EXCEPT !.reg["X1"] = x, !.reg["X0"] = y]
          [] p = "Y" -> [s EXCEPT !.reg["Y1"] = x, !.reg["Y0"] = y]
          [] p = "AB" -> [s EXCEPT !.acc["A"] = one, !.acc["B"] = two]
          [] p = "BA" -> [s EXCEPT !.acc["B"] = one, !.acc["A"] = two]

-------------------------------------------------------------------------------
(* Memory operands, the effective address and the arithmetic unit.         *)

RdConst(s, space, addr) ==
    LET r == read_mem(s.map, s.m, space, addr)
    IN  [val |-> r.val, s |-> [s EXCEPT !.m = r.m]]
RdDyn(s, space, addr) ==
    LET r == read_mem_dyn(s.map, s.m, space, addr)
    IN  [val |-> r.val, s |-> [s EXCEPT !.m = r.m]]
WrConst(s, space, addr, v) == [s EXCEPT !.m = write_mem(s.map, @, space, addr, v)]
WrDyn(s, space, addr, v) == [s EXCEPT !.m = write_mem_dyn(s.map, @, space, addr, v)]

\* An effective address e has a mode, a register and the extension word.
calc_ea(s, e) ==
    LET r == s.reg[e.rn]
        n == Signed(s.reg[IF e.rn = "R0" THEN "N0" ELSE "N4"], W)
        Post(d) == [addr |-> r, imm |-> FALSE,
                    s |-> [s EXCEPT !.reg[e.rn] = (r + d) % 2^W]]
    IN  CASE e.mode = "(R)-N" -> Post(-n)  [] e.mode = "(R)+N" -> Post(n)
          [] e.mode = "(R)-" -> Post(-1)   [] e.mode = "(R)+" -> Post(1)
          [] e.mode = "(R)" -> Post(0)
          [] e.mode = "(R+N)" -> [addr |-> (r + n) % 2^W, imm |-> FALSE, s |-> s]
          [] e.mode = "-(R)" -> [Post(-1) EXCEPT !.addr = (r - 1) % 2^W]
          [] e.mode = "abs" -> [addr |-> e.word, imm |-> FALSE, s |-> s]
          [] e.mode = "imm" -> [addr |-> e.word, imm |-> TRUE, s |-> s]

\* Mode 6 takes an extension word.
inst_len_for_ea(e) == IF e.mode \in {"abs", "imm"} THEN 2 ELSE 1

AluDest(alu) == CASE alu = "move" -> "none" [] alu = "add y0,b" -> "B" [] OTHER -> "A"

\* The result and the condition codes of an operation, from state s.
AluResult(s, alu) ==
    LET a == s.acc["A"]
        Add(d, x) == LET raw == s.acc[d] + val24_to_acc56(x)
                         r == jit_saturate_sm(s.sr, mask56(raw))
                     IN  [val |-> r.val,
                          sr |-> AluAddSub(s.sr, r.val, val24_to_acc56(x), s.acc[d],
                                           raw, FALSE, r.sat)]
    IN  CASE alu = "add x0,a" -> Add("A", s.reg["X0"])
          [] alu = "add y0,b" -> Add("B", s.reg["Y0"])
          [] alu = "tfr b,a" -> [val |-> s.acc["B"], sr |-> s.sr]
          [] alu = "clr a" -> [val |-> 0,
                               sr |-> [s.sr EXCEPT !.E = 0, !.N = 0, !.V = 0,
                                                   !.U = 1, !.Z = 1]]

emit_parallel_alu(s, alu) ==
    IF alu = "move" THEN s
    ELSE [s EXCEPT !.acc[AluDest(alu)] = AluResult(s, alu).val,
                   !.sr = AluResult(s, alu).sr]

-------------------------------------------------------------------------------
(* Parallel moves: every source is read, the arithmetic unit runs, every   *)
(* destination is written.                                                 *)

\* The accumulator goes to memory and X0 or Y0 to the accumulator; when the
\* operation changed the accumulator its result stays.
emit_pm_0(s, i) ==
    LET e == calc_ea(s, i.ea)
        rd == read_reg_for_move(e.s, i.reg)
        xy0 == load_reg(rd.s, IF i.space = "X" THEN "X0" ELSE "Y0")
        al == emit_parallel_alu(rd.s, i.alu)
        mv == write_reg_for_move(WrDyn(al, i.space, e.addr, rd.val), i.reg, xy0)
    IN  IF rd.s.acc[i.reg] # al.acc[i.reg]
        THEN [mv EXCEPT !.acc[i.reg] = al.acc[i.reg]] ELSE mv

\* A memory transfer on one side, an accumulator to the other side's input.
emit_pm_1(s, i) ==
    LET e == calc_ea(s, i.ea)
        one == IF ~ i.w THEN read_reg_for_move(e.s, i.reg)
               ELSE IF e.imm THEN [val |-> e.addr, s |-> e.s]
               ELSE RdDyn(e.s, i.space, e.addr)
        two == read_reg_for_move(one.s, i.src2)
        al == emit_parallel_alu(two.s, i.alu)
        mv == IF i.w THEN write_reg_for_move(al, i.reg, one.val)
              ELSE WrDyn(al, i.space, e.addr, one.val)
    IN  store_reg(mv, i.dst2, two.val)

\* Register to register.
emit_pm_2_2(s, i) ==
    LET rd == read_reg_for_move(s, i.src)
    IN  write_reg_for_move(emit_parallel_alu(rd.s, i.alu), i.reg, rd.val)

\* No move, or an address register update alone.
emit_pm_2(s, i) ==
    emit_parallel_alu(IF i.op = "pm2r" THEN calc_ea(s, i.ea).s ELSE s, i.alu)

\* An 8-bit immediate, in the top bits of a data register.
emit_pm_3(s, i) ==
    LET top == i.reg \in {"X0", "X1", "Y0", "Y1", "A", "B"}
    IN  write_reg_for_move(emit_parallel_alu(s, i.alu), i.reg,
                           IF top THEN i.imm * 2^(W - 2) ELSE i.imm)

\* L memory, at a short absolute address or an effective address.
emit_pm_4x(s, i) ==
    LET e == IF i.op = "pm4a" THEN [addr |-> i.at, s |-> s] ELSE calc_ea(s, i.ea)
        Rd(t, sp) == IF i.op = "pm4a" THEN RdConst(t, sp, e.addr)
                     ELSE RdDyn(t, sp, e.addr)
        Wr(t, sp, v) == IF i.op = "pm4a" THEN WrConst(t, sp, e.addr, v)
                        ELSE WrDyn(t, sp, e.addr, v)
        x == Rd(e.s, "X")
        y == Rd(x.s, "Y")
        pr == read_l_reg(e.s, i.reg)
    IN  IF i.w THEN write_l_reg(emit_parallel_alu(y.s, i.alu), i.reg, x.val, y.val)
        ELSE Wr(Wr(emit_parallel_alu(pr.s, i.alu), "X", pr.x), "Y", pr.y)

\* Mutated: the loaded register is written before the arithmetic unit reads it.
emit_pm_5Early(s, i) ==
    LET e == IF i.op = "pm5a" THEN [addr |-> i.at, imm |-> FALSE, s |-> s]
             ELSE calc_ea(s, i.ea)
        ld == IF e.imm THEN [val |-> e.addr, s |-> e.s] ELSE RdDyn(e.s, i.space, e.addr)
        rd == read_reg_for_move(e.s, i.reg)
    IN  IF i.w THEN emit_parallel_alu(write_reg_for_move(ld.s, i.reg, ld.val), i.alu)
        ELSE WrDyn(emit_parallel_alu(rd.s, i.alu), i.space, e.addr, rd.val)

\* X or Y memory, at a short absolute address, an effective address, or an
\* immediate extension word.
emit_pm_5(s, i) ==
    LET e == IF i.op = "pm5a" THEN [addr |-> i.at, imm |-> FALSE, s |-> s]
             ELSE calc_ea(s, i.ea)
        ld == CASE e.imm -> [val |-> e.addr, s |-> e.s]
                [] ~ e.imm /\ i.op = "pm5a" -> RdConst(e.s, i.space, e.addr)
                [] OTHER -> RdDyn(e.s, i.space, e.addr)
        rd == read_reg_for_move(e.s, i.reg)
        al == emit_parallel_alu(rd.s, i.alu)
    IN  CASE i.w -> write_reg_for_move(emit_parallel_alu(ld.s, i.alu), i.reg, ld.val)
          [] ~ i.w /\ i.op = "pm5a" -> WrConst(al, i.space, e.addr, rd.val)
          [] OTHER -> WrDyn(al, i.space, e.addr, rd.val)

\* X and Y memory at once, through registers of the two banks.
emit_pm_8(s, i) ==
    LET e1 == calc_ea(s, i.ea)
        e2 == calc_ea(e1.s, i.ea2)
        one == IF i.w THEN RdDyn(e2.s, "X", e1.addr) ELSE read_reg_for_move(e2.s, i.reg)
        two == IF i.w2 THEN RdDyn(one.s, "Y", e2.addr)
               ELSE read_reg_for_move(one.s, i.reg2)
        al == emit_parallel_alu(two.s, i.alu)
        mv == IF i.w THEN write_reg_for_move(al, i.reg, one.val)
              ELSE WrDyn(al, "X", e1.addr, one.val)
    IN  IF i.w2 THEN write_reg_for_move(mv, i.reg2, two.val)
        ELSE WrDyn(mv, "Y", e2.addr, two.val)

emit_parallel(s, i) ==
    CASE i.op = "pm0" -> emit_pm_0(s, i)   [] i.op = "pm1" -> emit_pm_1(s, i)
      [] i.op \in {"pm2", "pm2r"} -> emit_pm_2(s, i)
      [] i.op = "pm22" -> emit_pm_2_2(s, i) [] i.op = "pm3" -> emit_pm_3(s, i)
      [] i.op \in {"pm4", "pm4a"} -> emit_pm_4x(s, i)
      [] i.op \in {"pm5", "pm5a"} -> emit_pm_5(s, i)
      [] i.op = "pm8" -> emit_pm_8(s, i)

-------------------------------------------------------------------------------
(* The moves without an arithmetic operation.  w reads memory, or writes   *)
(* the peripheral.                                                         *)

\* MOVEP with a register; at is the peripheral's address.
emit_movep_r(s, i) ==
    LET rd == read_reg_for_move(s, i.reg)
        ld == RdConst(s, i.space, i.at)
    IN  IF i.w THEN WrConst(rd.s, i.space, i.at, rd.val)
        ELSE write_reg_for_move(ld.s, i.reg, ld.val)

\* MOVEP with an effective address in X, Y or P (src2 is its space); P takes
\* no immediate.
emit_movep_ea(s, i) ==
    LET e == calc_ea(s, i.ea)
        from == IF e.imm /\ i.src2 # "P" THEN [val |-> e.addr, s |-> e.s]
                ELSE RdDyn(e.s, i.src2, e.addr)
        ld == RdConst(e.s, i.space, i.at)
    IN  IF i.w THEN WrConst(from.s, i.space, i.at, from.val)
        ELSE WrDyn(ld.s, i.src2, e.addr, ld.val)

\* MOVEC of an immediate and between registers.
emit_movec_imm(s, i) == write_reg_for_move(s, i.reg, i.imm)
emit_movec_reg(s, i) ==
    LET rd == read_reg_for_move(s, i.src) IN write_reg_for_move(rd.s, i.reg, rd.val)

\* MOVEC, MOVEM and the moves with a displacement: one register, one address.
Address(s, i) ==
    CASE i.op \in {"movecea", "movemea"} -> calc_ea(s, i.ea)
      [] i.op = "movedisp" -> [addr |-> mask24(s.reg[i.src] + i.imm), imm |-> FALSE,
                               s |-> s]
      [] OTHER -> [addr |-> i.at, imm |-> FALSE, s |-> s]

emit_move(s, i) ==
    LET e == Address(s, i)
        ld == CASE e.imm /\ i.op = "movecea" -> [val |-> e.addr, s |-> e.s]
                [] i.op = "movecaa" -> RdConst(e.s, i.space, e.addr)
                [] OTHER -> RdDyn(e.s, i.space, e.addr)
        rd == read_reg_for_move(e.s, i.reg)
    IN  CASE i.w -> write_reg_for_move(ld.s, i.reg, ld.val)
          [] ~ i.w /\ i.op = "movecaa" -> WrConst(rd.s, i.space, e.addr, rd.val)
          [] OTHER -> WrDyn(rd.s, i.space, e.addr, rd.val)

\* VSL: the middle word to X, the low word shifted left to Y.
emit_vsl(s, i) ==
    LET e == calc_ea(s, i.ea)
        a == e.s.acc[i.reg]
    IN  WrDyn(WrDyn(e.s, "X", e.addr, extract_acc_mid(a)), "Y", e.addr,
              mask24(2 * extract_acc_lo(a) + i.imm))

\* LUA: the register is updated, the new value kept, the old one restored.
emit_lua(s, i) ==
    LET e == calc_ea(s, i.ea)
        back == [e.s EXCEPT !.reg[i.ea.rn] = s.reg[i.ea.rn]]
    IN  write_reg_for_move(back, i.reg, e.s.reg[i.ea.rn])

emit_lua_rel(s, i) == store_reg(s, i.reg, mask24(s.reg[i.src] + i.imm))
emit_lra_rn(s, i) == write_reg_for_move(s, i.reg, mask24(s.pc + s.reg[i.src]))
emit_lra_disp(s, i) == write_reg_for_move(s, i.reg, mask24(s.pc + i.imm))

-------------------------------------------------------------------------------
(* Bit operations.                                                         *)

apply_bit_op(v, bit, bop) ==
    LET off == v - Bit(v, bit) * 2^bit
    IN  CASE bop = "Clear" -> off
          [] bop = "Set" -> off + 2^bit
          [] bop = "Toggle" -> off + (1 - Bit(v, bit)) * 2^bit

update_carry_from_bit(s, v, bit) == [s EXCEPT !.sr = set_carry(@, Bit(v, bit))]

\* Mutated: the modified word is read again before it is stored.
emit_bit_op_memTwice(s, i) ==
    LET e == IF i.op = "bitea" THEN calc_ea(s, i.ea) ELSE [addr |-> i.at, s |-> s]
        rd == RdDyn(e.s, i.space, e.addr)
        up == update_carry_from_bit(rd.s, rd.val, i.bit)
        again == RdDyn(up, i.space, e.addr)
    IN  IF i.bop = "Test" THEN up
        ELSE WrDyn(again.s, i.space, e.addr, apply_bit_op(again.val, i.bit, i.bop))

\* On a peripheral or short absolute address, and on an effective address.
emit_bit_op_mem(s, i) ==
    LET e == IF i.op = "bitea" THEN calc_ea(s, i.ea) ELSE [addr |-> i.at, s |-> s]
        rd == IF i.op = "bitea" THEN RdDyn(e.s, i.space, e.addr)
              ELSE RdConst(e.s, i.space, e.addr)
        up == update_carry_from_bit(rd.s, rd.val, i.bit)
    IN  CASE i.bop = "Test" -> up
          [] i.bop # "Test" /\ i.op = "bitea" ->
               WrDyn(up, i.space, e.addr, apply_bit_op(rd.val, i.bit, i.bop))
          [] OTHER -> WrConst(up, i.space, e.addr, apply_bit_op(rd.val, i.bit, i.bop))

\* On a register: a test of SSH pops, a change rewrites the top slot; A and B
\* go through the limiter.
emit_bit_op_reg(s, i) ==
    LET rd == CASE i.reg = "SSH" /\ i.bop = "Test" -> jit_read_ssh(s)
                [] i.reg = "SSH" /\ i.bop # "Test" -> [val |-> s.stk.ssh, s |-> s]
                [] i.reg \in {"A", "B"} -> read_accu24(s, i.reg)
                [] OTHER -> [val |-> load_reg(s, i.reg), s |-> s]
        new == apply_bit_op(rd.val, i.bit, i.bop)
        wr == CASE i.bop = "Test" -> rd.s
                [] i.bop # "Test" /\ i.reg = "SSH" ->
                     [rd.s EXCEPT !.stk = write_ssh_tos(@, new)]
                [] i.bop # "Test" /\ i.reg \in {"A", "B"} ->
                     write_reg_for_move(rd.s, i.reg, new)
                [] OTHER -> store_reg(rd.s, i.reg, new)
    IN  update_carry_from_bit(wr, rd.val, i.bit)

CcrBits == {"C", "V", "Z", "N", "U", "E", "L", "S"}

\* ANDI and ORI to CCR; flags is the immediate.
emit_andi(s, i) ==
    [s EXCEPT !.sr = [f \in DOMAIN @ |-> IF f \in CcrBits \ i.flags THEN 0 ELSE @[f]]]
emit_ori(s, i) ==
    [s EXCEPT !.sr = [f \in DOMAIN @ |-> IF f \in i.flags THEN 1 ELSE @[f]]]
===============================================================================
