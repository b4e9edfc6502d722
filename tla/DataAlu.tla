------------------------------- MODULE DataAlu --------------------------------
(***************************************************************************)
(* The data ALU instructions, one action per family of emit/alu.rs and     *)
(* emit/logical.rs.  A guest program is a short sequence of instructions   *)
(* run to its end from chosen register contents; start remembers them.     *)
(* Here the condition codes are computed at once; that deferring them is   *)
(* not observable is the subject of Codegen.                               *)
(*                                                                         *)
(* An instruction is a record; d is its destination accumulator and s its  *)
(* source: an accumulator, a word register, a register pair "X" or "Y", or *)
(* "imm" with the word in n.  s1 and s2 are the factors of a product, k    *)
(* negates it, n a shift count, wd and off the two fields of the control   *)
(* word of EXTRACT and INSERT (abstracted from its layout).                *)
(***************************************************************************)
EXTENDS AluOps, Sequences, Bitwise, TLC

CONSTANTS Cases     \* the programs with the register contents to run them on

VARIABLES acc,      \* the accumulators A and B
          reg,      \* X1, X0, Y1, Y0 and address registers R, R2
          sr,       \* the status register
          prog,     \* the instructions still to run
          start     \* the case: program and contents at its first instruction

vars == <<acc, reg, sr, prog, start>>

Accs == {"A", "B"}
Regs == {"X1", "X0", "Y1", "Y0", "R", "R2"}
Flags == {"S", "L", "E", "U", "N", "Z", "V", "C"}
Modes == {"s1", "s0", "sm", "rm"}

TypeOK == /\ acc \in [Accs -> Acc]
          /\ reg \in [Regs -> Word]
          /\ sr \in [Modes \cup Flags -> 0 .. 1]

\* A case gives the values each register may start with; the flags that are
\* not named start clear.
Init == \E c \in Cases :
          /\ prog = c.prog
          /\ acc \in {("A" :> a) @@ ("B" :> b) : a \in c.A, b \in c.B}
          /\ reg \in {("X1" :> x1) @@ ("X0" :> x0) @@ ("Y1" :> y1) @@
                      ("Y0" :> y0) @@ ("R" :> 0) @@ ("R2" :> 1) :
                        x1 \in c.X1, x0 \in c.X0, y1 \in c.Y1, y0 \in c.Y0}
          /\ \E md \in c.modes, cf \in c.C, vf \in c.V :
               sr = md @@ ("C" :> cf) @@ ("V" :> vf)
                       @@ [f \in Flags \ {"C", "V"} |-> 0]
          /\ start = [prog |-> prog, acc |-> acc, reg |-> reg, sr |-> sr]

\* A source operand as an accumulator value.
OperandIn(i, a, r) ==
    CASE i.s \in Accs -> a[i.s]
      [] i.s = "X" -> xy_as_acc56(r["X1"], r["X0"])
      [] i.s = "Y" -> xy_as_acc56(r["Y1"], r["Y0"])
      [] i.s \in Regs -> val24_to_acc56(r[i.s])
      [] i.s = "imm" -> val24_to_acc56(i.n)
      [] i.s = "one" -> 1
Operand(i) == OperandIn(i, acc, reg)

\* Store an accumulator.
Put(d, v) == acc' = [acc EXCEPT ![d] = v]

-------------------------------------------------------------------------------
(* Addition, subtraction, comparison.                                      *)

\* ADD, SUB, INC, DEC and CMP: CMP neither stores nor saturates.
AddSub(i) ==
    /\ i.op \in {"add", "sub", "cmp"}
    /\ LET isSub == i.op # "add"
           raw == IF isSub THEN acc[i.d] - Operand(i) ELSE acc[i.d] + Operand(i)
           s == IF i.op = "cmp" THEN [val |-> mask56(raw), sat |-> 0]
                ELSE jit_saturate_sm(sr, mask56(raw))
       IN  /\ acc' = IF i.op = "cmp" THEN acc ELSE [acc EXCEPT ![i.d] = s.val]
           /\ sr' = AluAddSub(sr, s.val, Operand(i), acc[i.d], raw, isSub, s.sat)
    /\ UNCHANGED reg

\* ADC and SBC: the carry goes in, the overflow rule does not look at it.
AdcSbc(i) ==
    /\ i.op \in {"adc", "sbc"}
    /\ LET isSub == i.op = "sbc"
           raw == IF isSub THEN acc[i.d] - Operand(i) - sr.C
                           ELSE acc[i.d] + Operand(i) + sr.C
           s == jit_saturate_sm(sr, mask56(raw))
       IN  /\ Put(i.d, s.val)
           /\ sr' = AluAddSub(sr, s.val, Operand(i), acc[i.d], raw, isSub, s.sat)
    /\ UNCHANGED reg

\* ADDR and SUBR halve the destination first.
AddrSubr(i) ==
    /\ i.op \in {"addr", "subr"}
    /\ LET isSub == i.op = "subr"
           half == asr_one(acc[i.d])
           raw == IF isSub THEN half - Operand(i) ELSE half + Operand(i)
           s == jit_saturate_sm(sr, mask56(raw))
       IN  /\ Put(i.d, s.val)
           /\ sr' = AluAddSub(sr, s.val, Operand(i), half, raw, isSub, s.sat)
    /\ UNCHANGED reg

\* ADDL and SUBL double it; the shift adds to V and L but not to C.
AddlSublOp(i) ==
    /\ i.op \in {"addl", "subl"}
    /\ LET isSub == i.op = "subl"
           dbl == mask56(2 * acc[i.d])
           aslV == BitXor(Bit(acc[i.d], N - 1), Bit(dbl, N - 1))
           raw == IF isSub THEN dbl - Operand(i) ELSE dbl + Operand(i)
           s == jit_saturate_sm(sr, mask56(raw))
       IN  /\ Put(i.d, s.val)
           /\ sr' = AddlSubl(sr, s.val, Operand(i), dbl, raw, isSub, aslV, s.sat)
    /\ UNCHANGED reg

\* CMPM compares magnitudes.
Cmpm(i) ==
    /\ i.op = "cmpm"
    /\ LET s == abs56(Operand(i))
           d == abs56(acc[i.d])
       IN  sr' = update_vcl(jit_update_nz(sr, mask56(d - s)), s, d, d - s, TRUE)
    /\ UNCHANGED <<acc, reg>>

\* CMPU compares bits 2W-1 .. 0 without sign; a word is aligned left.
Cmpu(i) ==
    /\ i.op = "cmpu"
    /\ LET low(a) == a % 2^(2 * W)
           src == IF i.s \in Accs THEN low(acc[i.s]) ELSE reg[i.s] * 2^W
           raw == low(acc[i.d]) - src
       IN  sr' = [sr EXCEPT !.C = Bit(raw, 2 * W), !.V = 0,
                            !.Z = B(low(raw) = 0), !.N = Bit(raw, N - 1)]
    /\ UNCHANGED <<acc, reg>>

\* MAX and MAXM: transfer A to B when B - A, wrapped to N bits, is not
\* positive.
Max(i) ==
    /\ i.op \in {"max", "maxm"}
    /\ LET v(a) == IF i.op = "maxm" THEN abs56(a) ELSE a
           diff == mask56(v(acc["B"]) - v(acc["A"]))
           pass == Bit(diff, N - 1) = 1 \/ diff = 0
       IN  /\ Put("B", IF pass THEN acc["A"] ELSE acc["B"])
           /\ sr' = [sr EXCEPT !.C = B(~ pass),
                               !.L = IF sr.V = 1 THEN 1 ELSE @]
    /\ UNCHANGED reg

-------------------------------------------------------------------------------
(* One operand.                                                            *)

Clr(i) ==
    /\ i.op = "clr"
    /\ Put(i.d, 0)
    /\ sr' = [sr EXCEPT !.Z = 1, !.U = 1, !.E = 0, !.N = 0, !.V = 0]
    /\ UNCHANGED reg

Tst(i) == /\ i.op = "tst"
          /\ sr' = NzClearV(sr, acc[i.d])
          /\ UNCHANGED <<acc, reg>>

Tfr(i) == /\ i.op = "tfr"
          /\ Put(i.d, Operand(i))
          /\ UNCHANGED <<reg, sr>>

\* Tcc: an accumulator and an address register move together or not at all.
Tcc(i) == /\ i.op = "tcc"
          /\ IF eval_cc(i.cc, sr)
             THEN Put(i.d, Operand(i)) /\ reg' = [reg EXCEPT !["R"] = reg["R2"]]
             ELSE UNCHANGED <<acc, reg>>
          /\ UNCHANGED sr

NegAbs(i) ==
    /\ i.op \in {"neg", "abs"}
    /\ LET a == acc[i.d]
           minus == mask56(-a)
           o == IF i.op = "neg" THEN B(a = 2^(N - 1))
                ELSE B(Bit(a, N - 1) = 1 /\ Bit(minus, N - 1) = 1)
           s == jit_saturate_sm(sr, IF i.op = "neg" THEN minus ELSE abs56(a))
       IN  Put(i.d, s.val) /\ sr' = NzVlSm(sr, s.val, o, s.sat)
    /\ UNCHANGED reg

\* RND: V when the stored value turned from positive to negative.
Rnd(i) ==
    /\ i.op = "rnd"
    /\ LET s == saturate_sm_rnd(sr, rnd_inline(sr, acc[i.d]))
           o == B(Bit(acc[i.d], N - 1) = 0 /\ Bit(s.val, N - 1) = 1)
       IN  Put(i.d, s.val) /\ sr' = NzVlSm(sr, s.val, o, s.sat)
    /\ UNCHANGED reg

-------------------------------------------------------------------------------
(* Shifts.  A host shift takes its count modulo the width of the host      *)
(* register: Host64 for accumulators, Host32 for words.                    *)

Host64 == 2^(CHOOSE e \in 1 .. N : 2^e > N /\ 2^(e - 1) <= N)
Host32 == 2^(CHOOSE e \in 1 .. N : 2^e > W /\ 2^(e - 1) <= W)
CountMask(v) == v % Host64
Ushr(v, c, host) == v \div 2^(c % host)
Ishl(v, c, host) == (v * 2^(c % host)) % 2^host

\* The shift count of a register form is the low bits of a word.
Count(i) == IF i.s = "imm" THEN i.n ELSE CountMask(reg[i.s])

\* V of a left shift: the bits that pass through the sign are not all equal.
\* The immediate form clamps the start of the field to 0, the register form
\* lets the host shift wrap.
AslV(i, a, c) ==
    LET from == IF i.s = "imm" /\ c > N - 1 THEN 0 ELSE N - 1 - c
        mask == 2^((c + 1) % Host64) - 1
        f == Ushr(a, from, Host64) % (mask + 1)
    IN  B(c # 0 /\ f # 0 /\ f # mask)

\* ASL and ASR by one.
ShiftOne(i) ==
    /\ i.op \in {"asl", "asr"}
    /\ LET a == acc[i.d]
           s == jit_saturate_sm(sr, IF i.op = "asl" THEN mask56(2 * a)
                                                    ELSE asr_one(a))
           o == IF i.op = "asl" THEN BitXor(Bit(a, N - 1), Bit(a, N - 2)) ELSE 0
           c == IF i.op = "asl" THEN Bit(a, N - 1) ELSE Bit(a, 0)
       IN  /\ Put(i.d, s.val)
           /\ sr' = NzSm(set_vl_overflow(set_carry(sr, c), o), s.val, s.sat)
    /\ UNCHANGED reg

\* ASL and ASR by an immediate or a register, from accumulator i.a.
ShiftMany(i) ==
    /\ i.op \in {"aslN", "asrN"}
    /\ LET a == acc[i.a]
           c == Count(i)
           left == i.op = "aslN"
           s == jit_saturate_sm(sr, IF left THEN mask56(Ishl(a, c, Host64))
                                    ELSE mask56(sext56(a) \div 2^c))
           cy == IF left THEN Ushr(a, N - c, Host64) % 2
                 ELSE IF c = 0 THEN 0 ELSE Bit(a, c - 1)
           o == IF left THEN AslV(i, a, c) ELSE 0
       IN  /\ Put(i.d, s.val)
           /\ sr' = NzSm(set_vl_overflow(set_carry(sr, cy), o), s.val, s.sat)
    /\ UNCHANGED reg

\* NORMF shifts left by -S or right by S.
Normf(i) ==
    /\ i.op = "normf"
    /\ LET w == IF i.s \in Accs THEN extract_acc_mid(acc[i.s]) ELSE reg[i.s]
           neg == Bit(w, W - 1) = 1
           c == CountMask(IF neg THEN mask24(-w) ELSE w)
           a == acc[i.d]
           s == jit_saturate_sm(sr, IF neg THEN mask56(Ishl(a, c, Host64))
                                    ELSE mask56(sext56(a) \div 2^c))
           o == IF neg THEN AslV(i, a, c) ELSE 0
       IN  Put(i.d, s.val) /\ sr' = NzVlSm(sr, s.val, o, s.sat)
    /\ UNCHANGED reg

\* One step of normalisation, steered by the flags of the step before.
Norm(i) ==
    /\ i.op = "norm"
    /\ LET a == acc[i.d]
           left == sr.E = 0 /\ sr.U = 1 /\ sr.Z = 0
           right == sr.E = 1
           s == jit_saturate_sm(sr, CASE right -> asr_one(a)
                                      [] left -> mask56(2 * a)
                                      [] OTHER -> a)
           o == IF left THEN BitXor(Bit(a, N - 1), Bit(a, N - 2)) ELSE 0
       IN  /\ Put(i.d, s.val)
           /\ reg' = [reg EXCEPT !["R"] = mask24(CASE right -> @ + 1
                                                   [] left -> @ - 1
                                                   [] OTHER -> @)]
           /\ sr' = NzVlSm(sr, s.val, o, s.sat)

-------------------------------------------------------------------------------
(* Products.                                                               *)

\* A factor is signed unless the instruction takes it unsigned.
Factor(w, unsigned) == IF unsigned THEN w ELSE sext24(w)
FactorWord(i) == IF i.s2 = "imm" THEN i.n ELSE reg[i.s2]
Product(i, u1, u2) ==
    LET p == 2 * Factor(reg[i.s1], u1) * Factor(FactorWord(i), u2)
    IN  mask56(IF i.k THEN -p ELSE p)

\* MPY, MPYR, MAC, MACR and their immediate forms, given the product.
MultiplyTail(i, p) ==
    LET round == i.op \in {"mpyr", "macr"}
        add == i.op \in {"mac", "macr"}
        sum == IF add THEN mask56(acc[i.d] + p) ELSE p
        s == IF round THEN saturate_sm_rnd(sr, jit_rnd56(sr, sum))
                      ELSE jit_saturate_sm(sr, sum)
    IN  /\ Put(i.d, s.val)
        /\ sr' = IF add THEN MacVlSm(sr, s.val, p, acc[i.d], s.sat)
                        ELSE NzClearVSm(sr, s.val, s.sat)

Multiply(i) ==
    /\ i.op \in {"mpy", "mpyr", "mac", "macr"} /\ "s2" \in DOMAIN i
    /\ MultiplyTail(i, Product(i, FALSE, FALSE))
    /\ UNCHANGED reg

\* S * 2^-n: counts 0 and W and above give a zero product.
MulShift(i) ==
    /\ i.op \in {"mpy", "mpyr", "mac", "macr"} /\ "s2" \notin DOMAIN i
    /\ LET p == IF i.n = 0 \/ i.n >= W THEN 0
                ELSE sext24(reg[i.s1]) * 2^(W - i.n)
       IN  MultiplyTail(i, mask56(IF i.k THEN -p ELSE p))
    /\ UNCHANGED reg

\* MPYsu/uu and MACsu/uu do not saturate.
MultiplyUnsigned(i) ==
    /\ i.op \in {"mpysu", "mpyuu", "macsu", "macuu"}
    /\ LET p == Product(i, i.op \in {"mpyuu", "macuu"}, TRUE)
           add == i.op \in {"macsu", "macuu"}
           res == IF add THEN mask56(acc[i.d] + p) ELSE p
       IN  /\ Put(i.d, res)
           /\ sr' = IF add THEN DmacVl(sr, res, p, acc[i.d]) ELSE NzClearV(sr, res)
    /\ UNCHANGED reg

\* Mutated: the second factor of the mixed form is taken with its sign.
DmacSigned(i) ==
    /\ i.op \in {"dmacss", "dmacsu", "dmacuu"}
    /\ LET p == Product(i, i.op = "dmacuu", i.op = "dmacuu")
           sum == mask56((sext56(acc[i.d]) \div 2^W) + p)
           s == IF i.op = "dmacss" THEN jit_saturate_sm(sr, sum)
                                   ELSE [val |-> sum, sat |-> 0]
       IN  Put(i.d, s.val) /\ sr' = NzClearVSm(sr, s.val, s.sat)
    /\ UNCHANGED reg

\* DMAC: the accumulator shifted right one word, plus the product.
Dmac(i) ==
    /\ i.op \in {"dmacss", "dmacsu", "dmacuu"}
    /\ LET p == Product(i, i.op = "dmacuu", i.op # "dmacss")
           sum == mask56((sext56(acc[i.d]) \div 2^W) + p)
           s == IF i.op = "dmacss" THEN jit_saturate_sm(sr, sum)
                                   ELSE [val |-> sum, sat |-> 0]
       IN  Put(i.d, s.val) /\ sr' = NzClearVSm(sr, s.val, s.sat)
    /\ UNCHANGED reg

\* Mutated: the quotient bit of this step goes in, not that of the last.
DivEarlyBit(i) ==
    /\ i.op = "div"
    /\ LET a == acc[i.d]
           src == val24_to_acc56(reg[i.s])
           sh == mask56(2 * a)
           sum == mask56(IF Bit(a, N - 1) # Bit(reg[i.s], W - 1)
                         THEN sh + src ELSE sh - src)
       IN  /\ Put(i.d, sum + 1 - Bit(sum, N - 1))
           /\ sr' = set_carry(sr, 1 - Bit(sum, N - 1))
    /\ UNCHANGED reg

\* One step of the non-restoring division.
Div(i) ==
    /\ i.op = "div"
    /\ LET a == acc[i.d]
           src == val24_to_acc56(reg[i.s])
           sh == mask56(2 * a)
           differ == Bit(a, N - 1) # Bit(reg[i.s], W - 1)
           sum == mask56(IF differ THEN sh + src ELSE sh - src)
           res == sum + IF Bit(sum, 0) = 0 THEN sr.C ELSE 0
       IN  /\ Put(i.d, res)
           /\ sr' = set_vl_overflow(set_carry(sr, 1 - Bit(res, N - 1)),
                                    BitXor(Bit(a, N - 1), Bit(sh, N - 1)))
    /\ UNCHANGED reg

-------------------------------------------------------------------------------
(* Logical operations on A1 and bit fields.                                *)

\* Store A1 and set N, Z, V from it.
PutMid(d, w, status) ==
    Put(d, WithMid(acc[d], w)) /\ sr' = update_nzv_logical(status, w)

Logical(i) ==
    /\ i.op \in {"and", "or", "eor", "not"}
    /\ LET d == extract_acc_mid(acc[i.d])
           w == IF i.op = "not" THEN 0 ELSE IF i.s = "imm" THEN i.n ELSE reg[i.s]
       IN  PutMid(i.d, CASE i.op = "and" -> d & w [] i.op = "or" -> d | w
                         [] i.op = "eor" -> d ^^ w
                         [] i.op = "not" -> d ^^ (2^W - 1), sr)
    /\ UNCHANGED reg

\* Mutated: ROL takes in the bit it shifts out.
Shift24NoCarry(i) ==
    /\ i.op \in {"lsl", "lsr", "rol", "ror"}
    /\ LET w == extract_acc_mid(acc[i.d])
           left == i.op \in {"lsl", "rol"}
           out == Bit(w, IF left THEN W - 1 ELSE 0)
           cin == IF i.op \in {"rol", "ror"} THEN out ELSE 0
           res == IF left THEN mask24(2 * w + cin)
                          ELSE (w \div 2) + cin * 2^(W - 1)
       IN  /\ Put(i.d, WithMid(acc[i.d], res))
           /\ sr' = update_shift24_flags(sr, out, Bit(res, W - 1), res)
    /\ UNCHANGED reg

\* Rotates take the carry in, plain shifts a zero.
Shift24(i) ==
    /\ i.op \in {"lsl", "lsr", "rol", "ror"}
    /\ LET w == extract_acc_mid(acc[i.d])
           cin == IF i.op \in {"rol", "ror"} THEN sr.C ELSE 0
           left == i.op \in {"lsl", "rol"}
           res == IF left THEN mask24(2 * w + cin)
                          ELSE (w \div 2) + cin * 2^(W - 1)
       IN  /\ Put(i.d, WithMid(acc[i.d], res))
           /\ sr' = update_shift24_flags(sr, Bit(w, IF left THEN W - 1 ELSE 0),
                                         Bit(res, W - 1), res)
    /\ UNCHANGED reg

\* LSL and LSR by a count; a count of zero clears the carry.
Shift24Many(i) ==
    /\ i.op \in {"lslN", "lsrN"}
    /\ LET w == extract_acc_mid(acc[i.d])
           c == Count(i)
           left == i.op = "lslN"
           from == IF left THEN (IF i.s = "imm" /\ c > W THEN 0 ELSE W - c)
                           ELSE c - 1
           cy == IF i.s = "imm" /\ c = 0 THEN 0 ELSE Ushr(w, from, Host32) % 2
           res == IF left THEN mask24(Ishl(w, c, Host32)) ELSE Ushr(w, c, Host32)
       IN  PutMid(i.d, res, set_carry(sr, cy))
    /\ UNCHANGED reg

\* Mutated: the count starts from EXT.
ClbShort(i) ==
    /\ i.op = "clb"
    /\ LET a == acc[i.s]
           lead == CHOOSE c \in 1 .. N :
                     /\ Uniform(a, N - 1, N - c)
                     /\ c < N => ~ Uniform(a, N - 1, N - c - 1)
           w == IF a = 0 THEN 0 ELSE mask24(EXT - lead)
       IN  Put(i.d, val24_to_acc56(w)) /\ sr' = update_nzv_logical(sr, w)
    /\ UNCHANGED reg

\* CLB: EXT + 1 less the number of leading sign bits, 0 for a zero.
Clb(i) ==
    /\ i.op = "clb"
    /\ LET a == acc[i.s]
           lead == CHOOSE c \in 1 .. N :
                     /\ Uniform(a, N - 1, N - c)
                     /\ c < N => ~ Uniform(a, N - 1, N - c - 1)
           w == IF a = 0 THEN 0 ELSE mask24(EXT + 1 - lead)
       IN  /\ Put(i.d, val24_to_acc56(w))
           /\ sr' = update_nzv_logical(sr, w)
    /\ UNCHANGED reg

FieldMask(i) == 2^i.wd - 1

\* EXTRACT and EXTRACTU.
Extract(i) ==
    /\ i.op \in {"extract", "extractu"}
    /\ LET f == Ushr(acc[i.a], i.off, Host64) & FieldMask(i)
           neg == i.op = "extract" /\ i.wd > 0 /\ Bit(f, i.wd - 1) = 1
           res == mask56(IF neg THEN f | (FieldMask(i) ^^ (2^N - 1)) ELSE f)
       IN  /\ Put(i.d, res)
           /\ sr' = jit_update_nz([sr EXCEPT !.V = 0, !.C = 0], res)
    /\ UNCHANGED reg

\* Mutated: the destination field is not cleared first.
InsertOr(i) ==
    /\ i.op = "insert"
    /\ LET res == mask56(acc[i.d] | Ishl(reg[i.s] & FieldMask(i), i.off, Host64))
       IN  Put(i.d, res) /\ sr' = jit_update_nz([sr EXCEPT !.V = 0, !.C = 0], res)
    /\ UNCHANGED reg

Insert(i) ==
    /\ i.op = "insert"
    /\ LET f == Ishl(reg[i.s] & FieldMask(i), i.off, Host64)
           hole == Ishl(FieldMask(i), i.off, Host64)
           a == acc[i.d]
           res == mask56((a - (a & hole)) | f)
       IN  /\ Put(i.d, res)
           /\ sr' = jit_update_nz([sr EXCEPT !.V = 0, !.C = 0], res)
    /\ UNCHANGED reg

\* MERGE: the low half of the source above the low half of A1.
Merge(i) ==
    /\ i.op = "merge"
    /\ LET h == 2^(W \div 2)
       IN  PutMid(i.d, ((reg[i.s] % h) * h) + (extract_acc_mid(acc[i.d]) % h), sr)
    /\ UNCHANGED reg

-------------------------------------------------------------------------------
\* One instruction of the program.
Execute ==
    /\ prog # <<>>
    /\ prog' = Tail(prog)
    /\ LET i == Head(prog)
       IN  \/ AddSub(i) \/ AdcSbc(i) \/ AddrSubr(i) \/ AddlSublOp(i)
           \/ Cmpm(i) \/ Cmpu(i) \/ Max(i)
           \/ Clr(i) \/ Tst(i) \/ Tfr(i) \/ Tcc(i) \/ NegAbs(i) \/ Rnd(i)
           \/ ShiftOne(i) \/ ShiftMany(i) \/ Normf(i) \/ Norm(i)
           \/ Multiply(i) \/ MulShift(i) \/ MultiplyUnsigned(i) \/ Dmac(i)
           \/ Div(i)
           \/ Logical(i) \/ Shift24(i) \/ Shift24Many(i)
           \/ Clb(i) \/ Extract(i) \/ Insert(i) \/ Merge(i)
    /\ UNCHANGED start

Next == Execute
Spec == Init /\ [][Next]_vars

-------------------------------------------------------------------------------
(* Reference definitions: what the instructions mean, on integers.         *)

Ended == prog = <<>>
First == start.prog[1]
\* A program of one instruction has run.
One(ops) == Ended /\ Len(start.prog) = 1 /\ First.op \in ops
\* A program of n of one instruction has run, perhaps followed by others.
Repeated(op, n) == Ended /\ Len(start.prog) >= n
                         /\ \A j \in 1 .. n : start.prog[j].op = op

Fits(v, w) == -(2^(w - 1)) <= v /\ v < 2^(w - 1)
Clamp(v, w) == IF v >= 2^(w - 1) THEN 2^(w - 1) - 1
               ELSE IF v < -(2^(w - 1)) THEN -(2^(w - 1)) ELSE v
Magnitude(v) == IF v < 0 THEN -v ELSE v

D0 == sext56(start.acc[First.d])
S0 == sext56(OperandIn(First, start.acc, start.reg))
C0 == start.sr.C
Count0 == IF First.s = "imm" THEN First.n ELSE start.reg[First.s]
P0 == LET p == 2 * sext24(start.reg[First.s1]) *
               (IF First.s2 = "imm" THEN sext24(First.n)
                                    ELSE sext24(start.reg[First.s2]))
      IN  IF First.k THEN -p ELSE p

\* The result the instruction would have with unbounded integers.
Exact(op) ==
    CASE op = "add" -> D0 + S0                [] op = "sub" -> D0 - S0
      [] op = "adc" -> D0 + S0 + C0           [] op = "sbc" -> D0 - S0 - C0
      [] op = "addr" -> (D0 \div 2) + S0      [] op = "subr" -> (D0 \div 2) - S0
      [] op = "addl" -> 2 * D0 + S0           [] op = "subl" -> 2 * D0 - S0
      [] op = "neg" -> -D0                    [] op = "abs" -> Magnitude(D0)
      [] op = "asl" -> 2 * D0                 [] op = "asr" -> D0 \div 2
      [] op = "aslN" -> D0 * 2^Count0         [] op = "asrN" -> D0 \div 2^Count0
      [] op = "mpy" -> P0                     [] op = "mac" -> D0 + P0
      [] op = "dmacss" -> (D0 \div 2^W) + P0

Shifts == {"aslN", "asrN"}
Doubling == {"addl", "subl"}
Arithmetic == {"add", "sub", "adc", "sbc", "addr", "subr", "neg", "abs", "asl",
               "asr", "mpy", "mac", "dmacss"} \cup Doubling \cup Shifts
\* The exact result of the program's instruction; MPY and MAC by a power of
\* two are left to TLC's other checks, shift counts to the documented range.
HasExact == /\ One(Arithmetic)
            /\ First.op \in {"mpy", "mac"} => "s2" \in DOMAIN First
            /\ First.op \in Shifts => Count0 < N

\* Without saturation, V tells exactly whether the result is wrong: a clear V
\* means the stored value is the exact one, and V is set only when it does
\* not fit (or, for ADDL and SUBL, when doubling the destination does not).
\* L follows V.  C is the carry or borrow out of the accumulator.
OverflowExact ==
    HasExact /\ start.sr.sm = 0 =>
      LET e == Exact(First.op)
      IN  /\ acc[First.d] = mask56(e)
          /\ sr.V = 0 => sext56(acc[First.d]) = e
          /\ sr.V = 1 => \/ ~ Fits(e, N)
                         \/ First.op \in Doubling /\ ~ Fits(2 * D0, N)
          /\ sr.L = sr.V
          /\ First.op \in {"add", "adc"} =>
               sr.C = B(start.acc[First.d] + mask56(S0) + (e - D0 - S0) >= 2^N)
          /\ First.op \in {"sub", "sbc"} =>
               sr.C = B(start.acc[First.d] < mask56(S0) + (D0 - S0 - e))

\* With saturation, operands that fit in A1:A0 give the exact result clamped
\* to A1:A0, so the extension is never in use; V and L tell of the clamp.
SaturationExact ==
    /\ HasExact /\ First.op \notin Shifts /\ start.sr.sm = 1
    /\ Fits(D0, 2 * W)
    /\ First.op \in {"add", "sub", "adc", "sbc", "addr", "subr"} \cup Doubling
         => Fits(S0, 2 * W)
    => /\ sext56(acc[First.d]) = Clamp(Exact(First.op), 2 * W)
       /\ sr.V = B(~ Fits(Exact(First.op), 2 * W))
       /\ sr.E = 0 \/ Scaling(sr) = 2

\* A comparison steers every condition code the way the operands compare,
\* also when the difference overflows: CMP as signed numbers, CMPM by
\* magnitude (the most negative number has none), CMPU without sign.  MAX
\* leaves the larger in B as long as the difference is representable.
CompareDecides ==
    LET decides(d, s) == /\ eval_cc("GE", sr) <=> d >= s
                         /\ eval_cc("LT", sr) <=> d < s
                         /\ eval_cc("GT", sr) <=> d > s
                         /\ eval_cc("LE", sr) <=> d <= s
                         /\ eval_cc("EQ", sr) <=> d = s
        low == 2^(2 * W)
        a == sext56(start.acc["A"])
        b == sext56(start.acc["B"])
        v(x) == IF First.op = "maxm" THEN Magnitude(x) ELSE x
    IN  /\ One({"cmp"}) => decides(D0, S0)
        /\ One({"cmpm"}) /\ -(2^(N - 1)) \notin {D0, S0} =>
             decides(Magnitude(D0), Magnitude(S0))
        /\ One({"cmpu"}) => /\ eval_cc("CS", sr) <=> D0 % low < S0 % low
                            /\ eval_cc("EQ", sr) <=> D0 % low = S0 % low
        /\ One({"max", "maxm"}) /\ Fits(b - a, N) /\ -(2^(N - 1)) \notin {a, b} =>
             /\ sext56(acc["B"]) = IF v(a) >= v(b) THEN a ELSE b
             /\ eval_cc("CC", sr) <=> v(a) >= v(b)

\* After every instruction that sets E, U, N and Z from its result: N is its
\* sign, Z zero, E set when it does not fit in the word pair seen through
\* the scaling mode, U set when it would still fit shifted left once, and
\* NR holds for a normalised value or zero.
CcrDescribesResult ==
    /\ One((Arithmetic \cup {"tst", "clr", "rnd", "mpyr", "macr", "normf", "norm",
                              "mpyuu", "macsu", "extract", "insert"}))
    /\ Scaling(sr) # 3
    => LET v == sext56(acc[First.d])
           w == 2 * W + (CASE Scaling(sr) = 1 -> 1 [] Scaling(sr) = 2 -> -1
                           [] OTHER -> 0)
       IN  /\ sr.N = B(v < 0) /\ sr.Z = B(v = 0)
           /\ sr.E = B(~ Fits(v, w))
           /\ sr.E = 0 => sr.U = B(Fits(v, w - 1))
           /\ eval_cc("NR", sr) <=> v = 0 \/ (Fits(v, w) /\ sr.U = 0)

\* RND gives the nearest value of the rounded grid, a tie to the even one
\* (RM = 0) or upwards (RM = 1); V tells that it does not fit.  MPYR and
\* MACR, which round in the helper, store what MPY or MAC followed by the
\* inline RND stores, in every scaling mode but the reserved one.
RoundNearest ==
    /\ One({"rnd"}) /\ start.sr.sm = 0 /\ Scaling(sr) # 3 =>
         LET p == W + (CASE Scaling(sr) = 1 -> 1 [] Scaling(sr) = 2 -> -1
                         [] OTHER -> 0)
             r == IF sr.V = 1 THEN acc[First.d] ELSE sext56(acc[First.d])
             err == 2 * (r - D0)
         IN  /\ r % 2^p = 0
             /\ Magnitude(err) <= 2^p
             /\ Magnitude(err) = 2^p =>
                  IF sr.rm = 0 THEN r % 2^(p + 1) = 0 ELSE err > 0
    /\ (Repeated("mpy", 1) \/ Repeated("mac", 1)) /\ Len(start.prog) = 3 =>
         (Scaling(sr) # 3 => acc["A"] = acc["B"])

\* A move out of an accumulator yields the scaled value, truncated to a word
\* and clamped to the range of a word; L is set exactly when it was clamped.
LimiterExact ==
    \A d \in Accs : Scaling(sr) # 3 =>
      LET v == sext56(acc[d])
          q == CASE Scaling(sr) = 1 -> v \div 2^(W + 1)
                 [] Scaling(sr) = 2 -> v \div 2^(W - 1)
                 [] OTHER -> v \div 2^W
          m == jit_read_accu24(sr, acc[d])
      IN  /\ sext24(m.val) = Clamp(q, W)
          /\ m.limited <=> ~ Fits(q, W)
          /\ m.sr.L = IF m.limited THEN 1 ELSE sr.L

\* A shift by n is n shifts by one (A is shifted step by step, B at once),
\* and W + 1 rotates through the carry restore A1 and the carry.
ShiftsCompose ==
    /\ LET last == start.prog[Len(start.prog)]
       IN  /\ Ended /\ last.op \in {"aslN", "asrN", "lslN", "lsrN"}
           /\ last.n = Len(start.prog) - 1 /\ start.acc["A"] = start.acc["B"]
           => acc["A"] = acc["B"]
    /\ Repeated("rol", W + 1) \/ Repeated("ror", W + 1) =>
         acc["A"] = start.acc["A"] /\ sr.C = C0

\* W division steps with a positive divisor and a dividend below it leave the
\* W-bit quotient in A0 and the carry, and the remainder in A1, to be
\* restored by adding the divisor when it is negative.
DivExact ==
    Repeated("div", W) /\ D0 < start.reg[First.s] * 2^W =>
      LET x == start.reg[First.s]
          r == sext56(acc[First.d]) \div 2^W
          rem == IF r < 0 THEN r + x ELSE r
      IN  /\ 0 <= rem /\ rem < x
          /\ D0 = (2 * extract_acc_lo(acc[First.d]) + sr.C) * x + rem

\* TST followed by N NORM steps, and CLB followed by NORMF, shift A to the
\* one position where it is normalised; NORM counts the shifts in R.
NormalisationAgrees ==
    LET a == sext56(start.acc["A"])
        r == sext24(reg["R"])
        shift(k) == IF k < 0 THEN a * 2^(-k) ELSE a \div 2^k
        w == 2 * W + (CASE Scaling(sr) = 1 -> 1 [] Scaling(sr) = 2 -> -1
                        [] OTHER -> 0)
        normal(v) == v = 0 \/ (Fits(v, w) /\ ~ Fits(v, w - 1))
    IN  /\ Repeated("tst", 1) /\ Len(start.prog) = N + 1 /\ start.sr.sm = 0 =>
             normal(sext56(acc["A"])) /\ sext56(acc["A"]) = shift(r)
        /\ Repeated("clb", 1) /\ Len(start.prog) = 2 /\ start.sr.sm = 0 =>
             /\ normal(sext56(acc["A"]))
             /\ \E k \in -N .. EXT : sext56(acc["A"]) = shift(k)

\* A field inserted and extracted again is the field, with or without sign,
\* and the other bits of the accumulator are untouched.
FieldRoundTrip ==
    Repeated("insert", 1) /\ Len(start.prog) = 2 =>
      LET f == start.reg[First.s] % 2^First.wd
          neg == /\ start.prog[2].op = "extract" /\ First.wd > 0
                 /\ f >= 2^(First.wd - 1)
          rest(v) == v - (((v \div 2^First.off) % 2^First.wd) * 2^First.off)
      IN  /\ acc["B"] = mask56(IF neg THEN f - 2^First.wd ELSE f)
          /\ rest(acc["A"]) = rest(start.acc["A"])

\* The four-instruction double precision product, low words first: A holds
\* the high half of X * Y as a fraction.
DoublePrecision ==
    Ended /\ Repeated("mpyuu", 1) /\ Len(start.prog) = 4 /\ start.sr.sm = 0 =>
      LET pair(hi, lo) == Signed(start.reg[hi] * 2^W + start.reg[lo], 2 * W)
      IN  sext56(acc["A"]) =
            (2 * pair("X1", "X0") * pair("Y1", "Y0")) \div 2^(2 * W)

\* Arithmetic is exact: the stored value, V, L and C of every sum, difference,
\* product and shift, with saturation (jit_saturate_sm) and without
\* (update_vcl and its kin), are those of the integers.
ArithmeticExact == TypeOK /\ OverflowExact /\ SaturationExact

\* An accumulator reduced to a word, by rounding (emit_alu_rnd, jit_rnd56) or
\* by a move through the limiter (jit_read_accu24), is the word it stands for.
WordsExact == RoundNearest /\ LimiterExact

\* The sequences of instructions that only make sense together compute what
\* they are written for: shifts and rotates, division, normalisation, fields,
\* double precision.
IdiomsExact == /\ ShiftsCompose /\ DivExact /\ NormalisationAgrees
               /\ FieldRoundTrip /\ DoublePrecision
===============================================================================
