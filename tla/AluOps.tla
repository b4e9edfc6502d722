-------------------------------- MODULE AluOps --------------------------------
(***************************************************************************)
(* The arithmetic the emitted code and its helpers do on accumulators, and *)
(* the condition code register.  A word has W bits and an accumulator      *)
(* N = EXT + 2W (24, 8 and 56 in the code): A2 is the extension, A1 and A0 *)
(* are words.  Both are kept as the unsigned numbers the registers hold; a *)
(* host integer is an integer, so bit N of a sum or a difference is the    *)
(* carry or the borrow as it is in an i64.                                 *)
(*                                                                         *)
(* SR is a record of bits: s1, s0 the scaling mode, sm saturation, rm the  *)
(* rounding mode, S, L, E, U, N, Z, V, C the condition codes.              *)
(***************************************************************************)
EXTENDS Integers

CONSTANTS W,      \* bits of a word
          EXT     \* bits of the extension

ASSUME WidthAssumption == W \in Nat /\ EXT \in Nat /\ W >= 4 /\ EXT \in 2 .. W

N == EXT + 2 * W
Word == 0 .. 2^W - 1
Acc == 0 .. 2^N - 1

B(p) == IF p THEN 1 ELSE 0
Bit(v, i) == (v \div 2^i) % 2
BitXor(a, b) == (a + b) % 2
Signed(v, w) == IF Bit(v, w - 1) = 1 THEN v - 2^w ELSE v

mask56(v) == v % 2^N
mask24(v) == v % 2^W
sext56(a) == Signed(a, N)
sext24(w) == Signed(w, W)
val24_to_acc56(w) == mask56(sext24(w) * 2^W)
xy_as_acc56(hi, lo) == mask56(Signed(hi * 2^W + lo, 2 * W))
extract_acc_lo(a) == mask24(a)
extract_acc_mid(a) == mask24(a \div 2^W)
extract_acc_hi(a) == a \div 2^(2 * W)
pack_acc(a2, a1, a0) == a2 * 2^(2 * W) + a1 * 2^W + a0
\* A 24-bit operation works on A1 alone.
WithMid(a, w) == pack_acc(extract_acc_hi(a), w, extract_acc_lo(a))
abs56(a) == IF Bit(a, N - 1) = 1 THEN mask56(-a) ELSE a
asr_one(a) == (a \div 2) + Bit(a, N - 1) * 2^(N - 1)

\* The bits hi .. lo of a are all equal.
Uniform(a, hi, lo) ==
    LET f == (a \div 2^lo) % 2^(hi - lo + 1)
    IN  f \in {0, 2^(hi - lo + 1) - 1}

-------------------------------------------------------------------------------
(* The condition codes.                                                    *)

Scaling(sr) == 2 * sr.s1 + sr.s0

\* Mutated: E and U do not move with the scaling mode.
jit_update_nzUnscaled(sr, a) ==
    [sr EXCEPT !.E = B(~ Uniform(a, N - 1, 2 * W - 1)),
               !.U = B(Uniform(a, 2 * W - 1, 2 * W - 2)),
               !.N = Bit(a, N - 1), !.Z = B(a = 0)]

\* E and U look one bit higher when scaling down, one lower when scaling up;
\* the reserved mode clears both.
jit_update_nz(sr, a) ==
    LET top == CASE Scaling(sr) = 1 -> 2 * W
                 [] Scaling(sr) = 2 -> 2 * W - 2
                 [] OTHER -> 2 * W - 1
    IN  [sr EXCEPT !.E = B(Scaling(sr) # 3 /\ ~ Uniform(a, N - 1, top)),
                   !.U = B(Scaling(sr) # 3 /\ Uniform(a, top, top - 1)),
                   !.N = Bit(a, N - 1),
                   !.Z = B(a = 0)]

or_vl(sr, o) == [sr EXCEPT !.V = IF o = 1 THEN 1 ELSE @,
                           !.L = IF o = 1 THEN 1 ELSE @]
set_vl_overflow(sr, o) == or_vl([sr EXCEPT !.V = 0], o)
set_carry(sr, c) == [sr EXCEPT !.C = c]
clear_v_flag(sr) == [sr EXCEPT !.V = 0]

\* Mutated: the overflow rule of the addition for both.
update_vclOneRule(sr, src, dst, raw, isSub) ==
    LET r == Bit(raw, N - 1)
    IN  set_vl_overflow(set_carry(sr, Bit(raw, N)),
                        B(Bit(src, N - 1) # r /\ Bit(dst, N - 1) # r))
update_vcl(sr, src, dst, raw, isSub) ==
    LET s == Bit(src, N - 1)
        d == Bit(dst, N - 1)
        r == Bit(mask56(raw), N - 1)
        o == IF isSub THEN B(s # d /\ r # d) ELSE B(s # r /\ d # r)
    IN  set_vl_overflow(set_carry(sr, Bit(raw, N)), o)

mac_set_vl(sr, product, acc, res) ==
    LET r == Bit(res, N - 1)
    IN  set_vl_overflow(sr, B(Bit(product, N - 1) # r /\ Bit(acc, N - 1) # r))

update_nzv_logical(sr, w) ==
    [sr EXCEPT !.N = Bit(w, W - 1), !.Z = B(w = 0), !.V = 0]
update_shift24_flags(sr, c, n, w) ==
    [sr EXCEPT !.C = c, !.N = n, !.Z = B(w = 0), !.V = 0]

\* The deferred kinds, as flush_pending_flags materialises them.  sat is the
\* saturation marker of the instruction that recorded the kind.
AluAddSub(sr, res, src, dst, raw, isSub, sat) ==
    or_vl(update_vcl(jit_update_nz(sr, res), src, dst, raw, isSub), sat)
AddlSubl(sr, res, src, dst, raw, isSub, aslV, sat) ==
    or_vl(or_vl(update_vcl(jit_update_nz(sr, res), src, dst, raw, isSub), aslV),
          sat)
NzVlSm(sr, res, o, sat) == or_vl(set_vl_overflow(jit_update_nz(sr, res), o), sat)
NzSm(sr, res, sat) == or_vl(jit_update_nz(sr, res), sat)
NzClearV(sr, res) == clear_v_flag(jit_update_nz(sr, res))
NzClearVSm(sr, res, sat) == or_vl(NzClearV(sr, res), sat)
MacVlSm(sr, res, product, acc, sat) ==
    or_vl(mac_set_vl(jit_update_nz(sr, res), product, acc, res), sat)
DmacVl(sr, res, product, acc) ==
    mac_set_vl(jit_update_nz(sr, res), product, acc, res)

\* Mutated: the signed orders look at the sign alone.
eval_ccNoV(cc, sr) ==
    CASE cc = "GE" -> sr.N = 0              [] cc = "LT" -> sr.N = 1
      [] cc = "GT" -> sr.N = 0 /\ sr.Z = 0   [] cc = "LE" -> sr.N = 1 \/ sr.Z = 1
      [] cc = "CC" -> sr.C = 0              [] cc = "CS" -> sr.C = 1
      [] cc = "NR" -> sr.Z = 1 \/ (sr.U = 0 /\ sr.E = 0)
      [] OTHER -> sr.Z = 1

\* The condition of a conditional instruction.
eval_cc(cc, sr) ==
    LET lt == BitXor(sr.N, sr.V)
        nr == IF sr.Z = 1 \/ (sr.U = 0 /\ sr.E = 0) THEN 1 ELSE 0
    IN  CASE cc = "CC" -> sr.C = 0      [] cc = "CS" -> sr.C = 1
          [] cc = "NE" -> sr.Z = 0      [] cc = "EQ" -> sr.Z = 1
          [] cc = "PL" -> sr.N = 0      [] cc = "MI" -> sr.N = 1
          [] cc = "GE" -> lt = 0        [] cc = "LT" -> lt = 1
          [] cc = "GT" -> sr.Z = 0 /\ lt = 0
          [] cc = "LE" -> sr.Z = 1 \/ lt = 1
          [] cc = "NN" -> nr = 0        [] cc = "NR" -> nr = 1
          [] cc = "EC" -> sr.E = 0      [] cc = "ES" -> sr.E = 1
          [] cc = "LC" -> sr.L = 0      [] cc = "LS" -> sr.L = 1

-------------------------------------------------------------------------------
(* Saturation, rounding and the limiter.                                   *)

\* Mutated: only the extension is compared with the sign.
jit_saturate_smExt(sr, a) ==
    LET top == Bit(a, N - 1)
    IN  IF sr.sm = 1 /\ top # Bit(a, 2 * W)
        THEN [val |-> IF top = 1 THEN 2^N - 2^(2 * W - 1) ELSE 2^(2 * W - 1) - 1,
              sat |-> 1]
        ELSE [val |-> a, sat |-> 0]

\* Arithmetic saturation: the marker is set when the value was clamped.
jit_saturate_sm(sr, a) ==
    LET top == Bit(a, N - 1)
    IN  IF sr.sm = 1 /\ ~(top = Bit(a, 2 * W) /\ top = Bit(a, 2 * W - 1))
        THEN [val |-> IF top = 1 THEN 2^N - 2^(2 * W - 1) ELSE 2^(2 * W - 1) - 1,
              sat |-> 1]
        ELSE [val |-> a, sat |-> 0]

\* The rounding instructions clamp to the rounded grid.
saturate_sm_rnd(sr, a) ==
    LET s == jit_saturate_sm(sr, a)
    IN  IF s.sat = 1 THEN [s EXCEPT !.val = (@ \div 2^W) * 2^W] ELSE s

\* Mutated: a tie is rounded up in both modes.
RoundAtUp(a, p, convergent) == (mask56(a + 2^(p - 1)) \div 2^p) * 2^p

\* Round at bit p: add half a unit, clear the bits from p down, and with
\* RM = 0 clear bit p too when the value was half way.
RoundAt(a, p, convergent) ==
    LET sum == mask56(a + 2^(p - 1))
        cut == (sum \div 2^p) * 2^p
    IN  IF convergent /\ sum = cut THEN (sum \div 2^(p + 1)) * 2^(p + 1) ELSE cut

\* The MPYR and MACR helper tests S0 first, the RND emitter S1.
jit_rnd56(sr, a) ==
    RoundAt(a, IF sr.s0 = 1 THEN W + 1 ELSE IF sr.s1 = 1 THEN W - 1 ELSE W,
            sr.rm = 0)
rnd_inline(sr, a) ==
    RoundAt(a, IF sr.s1 = 1 THEN W - 1 ELSE IF sr.s0 = 1 THEN W + 1 ELSE W,
            sr.rm = 0)

\* Mutated: scaling up does not look at the bit that is shifted out.
jit_read_accu24NoFix(sr, a) ==
    LET a2 == extract_acc_hi(a)
        up == (a * 2) \div 2^W
        value == mask24(CASE Scaling(sr) = 1 -> a \div 2^(W + 1)
                          [] Scaling(sr) = 2 -> up
                          [] OTHER -> a \div 2^W)
        ok == a2 = Bit(value, W - 1) * (2^EXT - 1)
    IN  [val |-> IF ok THEN value
                 ELSE IF Bit(a2, EXT - 1) = 1 THEN 2^(W - 1) ELSE 2^(W - 1) - 1,
         limited |-> ~ ok,
         sr |-> [sr EXCEPT !.L = IF ok THEN @ ELSE 1]]

\* An accumulator read as one word, through the data shifter and the limiter.
jit_read_accu24(sr, a) ==
    LET a2 == extract_acc_hi(a)
        a1 == extract_acc_mid(a)
        combined == a2 * 2^W + a1
        value == mask24(CASE Scaling(sr) = 1 -> combined \div 2
                          [] Scaling(sr) = 2 ->
                               combined * 2 + Bit(extract_acc_lo(a), W - 1)
                          [] OTHER -> combined)
        sign == Bit(value, W - 1)
        fits(s) == /\ a2 = s * (2^EXT - 1) /\ sign = s
                   /\ Scaling(sr) = 2 => Bit(a1, W - 1) = s
        ok == fits(0) \/ fits(1)
        top == CASE Scaling(sr) = 1 -> 2 * W - 1
                 [] Scaling(sr) = 2 -> 2 * W - 3
                 [] OTHER -> 2 * W - 2
    IN  [val |-> CASE ok -> value
                   [] ~ ok /\ Bit(a2, EXT - 1) = 1 -> 2^(W - 1)
                   [] OTHER -> 2^(W - 1) - 1,
         limited |-> ~ ok,
         sr |-> [sr EXCEPT !.L = IF ok THEN @ ELSE 1,
                           !.S = IF Uniform(a, top, top - 1) THEN @ ELSE 1]]
===============================================================================
