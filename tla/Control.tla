------------------------------- MODULE Control --------------------------------
(***************************************************************************)
(* Jumps, branches, subroutine calls and returns, on the machine state of  *)
(* Moves.  The emitter of each form fixes the address it pushes and the    *)
(* length it charges (adv, 0 when the code has set PC itself); the decoder *)
(* fixes, on its own, how many words the instruction has.  Single steps    *)
(* advance by the first, blocks by the second.                             *)
(***************************************************************************)
EXTENDS Moves

mask_pc(v) == v % 2^W

-------------------------------------------------------------------------------
(* What the decoder says.                                                  *)

\* The forms that always have a second word, the forms that have one in
\* addressing mode 6, and the rest.
instruction_length(i) ==
    CASE i.op = "flow" /\ i.form \in {"bcc_long", "bra_long", "bsr_long", "bscc_long"} -> 2
      [] i.op = "bittest" \/ i.op = "lradisp" -> 2
      [] i.op = "movedisp" -> IF i.long THEN 2 ELSE 1
      [] i.op = "flow" /\ i.form \in {"jmp_ea", "jsr_ea", "jcc_ea", "jscc_ea"} ->
           inst_len_for_ea(i.ea)
      [] i.op \in {"pm0", "pm1", "pm4", "pm5", "movepea", "movecea", "movemea",
                   "bitea", "vsl"} -> inst_len_for_ea(i.ea)
      [] OTHER -> 1

\* Mutated: a long form is charged one word.
inst_lenShort(i) ==
    IF i.op \in {"pm0", "pm1", "pm4", "pm5", "movepea", "movecea", "movemea", "bitea",
                 "vsl"}
    THEN inst_len_for_ea(i.ea) ELSE 1

\* What the emitters of the moves charge (set_inst_len).
inst_len(i) ==
    CASE i.op \in {"pm0", "pm1", "pm4", "pm5"} ->
           IF i.ea.mode \in {"abs", "imm"} THEN 2 ELSE 1
      [] i.op \in {"movepea", "movecea", "movemea", "bitea", "vsl"} ->
           inst_len_for_ea(i.ea)
      [] i.op = "lradisp" -> 2
      [] i.op = "movedisp" -> IF i.long THEN 2 ELSE 1
      [] OTHER -> 1

-------------------------------------------------------------------------------
(* Jumps and branches on a condition.  A form pushes or not, is            *)
(* conditional or not, finds its target in one of five ways, and takes     *)
(* words words (0: one, or two in mode 6).                                 *)

Form(call, cond, target, words) ==
    [call |-> call, cond |-> cond, target |-> target, words |-> words]

Forms == [
    jmp      |-> Form(FALSE, FALSE, "abs", 1),
    jcc      |-> Form(FALSE, TRUE,  "abs", 1),
    jsr      |-> Form(TRUE,  FALSE, "abs", 1),
    jscc     |-> Form(TRUE,  TRUE,  "abs", 1),
    bra      |-> Form(FALSE, FALSE, "rel", 1),
    bcc      |-> Form(FALSE, TRUE,  "rel", 1),
    bsr      |-> Form(TRUE,  FALSE, "rel", 1),
    bscc     |-> Form(TRUE,  TRUE,  "rel", 1),
    bra_long  |-> Form(FALSE, FALSE, "rel", 2),
    bcc_long  |-> Form(FALSE, TRUE,  "rel", 2),
    bsr_long  |-> Form(TRUE,  FALSE, "rel", 2),
    bscc_long |-> Form(TRUE,  TRUE,  "rel", 2),
    bra_rn   |-> Form(FALSE, FALSE, "rn", 1),
    bcc_rn   |-> Form(FALSE, TRUE,  "rn", 1),
    bsr_rn   |-> Form(TRUE,  FALSE, "rn", 1),
    bscc_rn  |-> Form(TRUE,  TRUE,  "rn", 1),
    jmp_ea   |-> Form(FALSE, FALSE, "ea", 0),
    jcc_ea   |-> Form(FALSE, TRUE,  "ea", 0),
    jsr_ea   |-> Form(TRUE,  FALSE, "ea", 0),
    jscc_ea  |-> Form(TRUE,  TRUE,  "ea", 0)]

EmittedWords(i) == IF Forms[i.form].words = 0 THEN inst_len_for_ea(i.ea)
             ELSE Forms[i.form].words

\* The call pushes the address after it and SR, outside a long interrupt.
push_return(s, words) ==
    [s EXCEPT !.stk = inline_push(@, mask_pc(s.pc + words), s.sr)]

\* The effective address is computed, and its register updated, whether or
\* not the branch is taken.
emit_flow(s, i) ==
    LET f == Forms[i.form]
        e == IF f.target = "ea" THEN calc_ea(s, i.ea) ELSE [addr |-> i.at, s |-> s]
        to == CASE f.target = "rel" -> mask_pc(s.pc + i.at)
                [] f.target = "rn" -> mask24(s.pc + s.reg["R0"])
                [] OTHER -> e.addr
        taken == f.cond => eval_cc(i.cc, e.s.sr)
        pushed == IF f.call THEN push_return(e.s, EmittedWords(i)) ELSE e.s
    IN  IF taken THEN [pushed EXCEPT !.pc = to, !.adv = 0]
        ELSE [e.s EXCEPT !.adv = EmittedWords(i)]

emit_rts(s) ==
    [s EXCEPT !.stk = inline_pop(@), !.pc = inline_popped(s.stk)[1], !.adv = 0]
emit_rti(s) ==
    [s EXCEPT !.stk = inline_pop(@), !.pc = inline_popped(s.stk)[1], !.adv = 0,
              !.sr = inline_popped(s.stk)[2]]

-------------------------------------------------------------------------------
(* Branches on a bit.  The operand is in memory, at a constant address or  *)
(* an effective one, or a register: SSH pops, the others are read plainly. *)

read_bit_test_operand(s, i) ==
    CASE i.operand = "const" -> RdConst(s, i.space, i.at)
      [] i.operand = "ea" -> LET e == calc_ea(s, i.ea) IN RdDyn(e.s, i.space, e.addr)
      [] i.operand = "reg" /\ i.reg = "SSH" -> jit_read_ssh(s)
      [] OTHER -> [val |-> load_reg(s, i.reg), s |-> s]

bit_test_predicate(v, bit, set) == (Bit(v, bit) = 1) = set

\* Mutated: the frame is pushed before the operand is read.
emit_bit_test_branchEager(s, i) ==
    LET pushed == IF i.call THEN push_return(s, 2) ELSE s
        rd == read_bit_test_operand(pushed, i)
    IN  IF bit_test_predicate(rd.val, i.bit, i.set)
        THEN [rd.s EXCEPT !.pc = IF i.rel THEN mask_pc(s.pc + i.to) ELSE i.to, !.adv = 0]
        ELSE [read_bit_test_operand(s, i).s EXCEPT !.adv = 2]

\* JCLR, JSET, BRCLR, BRSET and their subroutine forms.
emit_bit_test_branch(s, i) ==
    LET rd == read_bit_test_operand(s, i)
        pushed == IF i.call THEN push_return(rd.s, 2) ELSE rd.s
    IN  IF bit_test_predicate(rd.val, i.bit, i.set)
        THEN [pushed EXCEPT !.pc = IF i.rel THEN mask_pc(s.pc + i.to) ELSE i.to, !.adv = 0]
        ELSE [rd.s EXCEPT !.adv = 2]

-------------------------------------------------------------------------------
\* The end of an instruction, in a single step and at the end of a block.
advance_pc(s) == [s EXCEPT !.pc = mask_pc(@ + s.adv)]
FallThrough(s, i) ==
    IF s.adv = 0 THEN s ELSE [s EXCEPT !.pc = mask_pc(@ + instruction_length(i))]
===============================================================================
