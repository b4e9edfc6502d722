------------------------------- MODULE LoopStep -------------------------------
(***************************************************************************)
(* DO and REP loops, one instruction at a time: what execute_one does,     *)
(* that is, the instruction compiled alone followed by advance_pc.  This   *)
(* is the reference the block machine (LoopBlock) is compared with.        *)
(*                                                                         *)
(* The machine is a record m:                                              *)
(*   pc, la, lc, temp   registers; LC counts modulo LcMod                  *)
(*   lf, fv             the loop flags of SR                               *)
(*   rep                loop_rep: a REP repeats the instruction at pc      *)
(*   stk                the hardware stack (StackOps)                      *)
(*   armed              a stack error has been posted                      *)
(* pc_on_rep is set and consumed inside the step of the REP itself.  What  *)
(* follows a posted error is the subject of Interrupts; here the core just *)
(* goes on in its shadow.                                                  *)
(*                                                                         *)
(* An instruction is [op, len, arg, to]:                                   *)
(*   plain, exit   no effect on control; exit writes a peripheral          *)
(*   do, forever   DO with count arg and loop address to; DO FOREVER       *)
(*   enddo, brk    ENDDO, BRKcc                                            *)
(*   bcc, jmp      conditional branch and jump to address to               *)
(*   rep           REP with count arg                                      *)
(*   pop           a move from SSH                                         *)
(*   setla         a move of to into LA                                    *)
(* The source's other DO, DOR and REP forms differ in where the count and  *)
(* the loop address come from.                                             *)
(* Whether a condition holds depends on data the model leaves out: taken   *)
(* is chosen freely.                                                       *)
(***************************************************************************)
EXTENDS StackOps

CONSTANTS Size,     \* words of program memory
          Codes,    \* the programs considered
          LcMod     \* LC wraps here (2^24 in the code)

Addrs == 0 .. Size - 1
mask_pc(a) == a % Size
Ops == {"plain", "exit", "do", "forever", "enddo", "brk", "bcc", "jmp", "rep",
        "pop", "setla"}
IsLoop(i) == i.op \in {"do", "forever"}

\* No instruction reaches behind the memory; REP repeats one word.
ASSUME LoopAssumption ==
    /\ Size \in Nat \ {0} /\ LcMod \in Nat \ {0}
    /\ \A c \in Codes : \A a \in Addrs :
          /\ c[a].op \in Ops /\ c[a].len \in {1, 2} /\ a + c[a].len <= Size
          /\ IsLoop(c[a]) => c[a].len = 2
          /\ c[a].to \in Addrs /\ c[a].arg \in 0 .. LcMod - 1
          /\ c[a].op = "rep" =>
                /\ c[a].len = 1 /\ a + 1 < Size
                /\ c[a + 1].op \in {"plain", "pop"} /\ c[a + 1].len = 1

\* A slot holds addresses and LA in one half, LC and the flags of SR in the
\* other.
ASSUME WidthAssumption == LcMod > 3 /\ Addrs \cup 0 .. LcMod - 1 \subseteq Words

VARIABLES code,   \* P memory, not written here
          m       \* the machine

Machine ==
    [pc |-> 0, la |-> 0, lc |-> 0, temp |-> 0, lf |-> FALSE, fv |-> FALSE,
     rep |-> FALSE, stk |-> EmptyStack(0), armed |-> FALSE]

StepInit == code \in Codes /\ m = Machine

-------------------------------------------------------------------------------
(* The loop frames: (LA, LC) below (body start, SR).  Only LF and FV of SR *)
(* come back.                                                              *)

SrWord(s) == (IF s.lf THEN 2 ELSE 0) + (IF s.fv THEN 1 ELSE 0)
WithSr(s, w) == [s EXCEPT !.lf = w >= 2, !.fv = w % 2 = 1]

Decremented(n) == IF n = 0 THEN LcMod - 1 ELSE n - 1

do_setup(s, a, n, forever) ==
    LET one == inline_push(s.stk, s.la, s.lc)
    IN  [s EXCEPT !.stk = inline_push(one, mask_pc(s.pc + 2), SrWord(s)),
                  !.la = a, !.lc = n, !.lf = TRUE, !.fv = forever,
                  !.armed = @ \/ PushFaults(s.stk) \/ PushFaults(one)]

enddo_cleanup(s) ==
    LET one == inline_pop(s.stk)
        top == inline_popped(one)
    IN  [WithSr(s, inline_popped(s.stk)[2]) EXCEPT
            !.stk = inline_pop(one), !.la = top[1], !.lc = top[2],
            !.armed = @ \/ PopFaults(s.stk) \/ PopFaults(one)]

\* The pops at the end of a loop in advance_pc and in the run loop.
LoopExit(s) ==
    LET one == stack_pop(s.stk)
        top == popped(one)
    IN  [WithSr(s, popped(s.stk)[2]) EXCEPT
            !.stk = stack_pop(one), !.la = top[1], !.lc = top[2],
            !.armed = @ \/ PopFaults(s.stk) \/ PopFaults(one)]

\* A sequential arrival at LA+1 ends the loop or goes back to its start.
LoopBack(s, adv) ==
    LET t == [s EXCEPT !.lc = Decremented(@)]
    IN  IF ~(s.lf /\ adv # 0 /\ s.pc = mask_pc(s.la + 1)) THEN s
        ELSE IF t.lc = 0 /\ ~s.fv THEN LoopExit(t)
        ELSE [t EXCEPT !.pc = s.stk.ssh]

-------------------------------------------------------------------------------
(* Exec is the instruction at pc compiled alone: the new state and         *)
(* pc_advance, which is 0 when the instruction has set pc itself.          *)

Jump(s, a) == <<[s EXCEPT !.pc = mask_pc(a)], 0>>

ExecDo(s, i) ==
    LET t == do_setup(s, i.to, i.arg, FALSE)
    IN  IF i.arg = 0 THEN Jump(enddo_cleanup(t), i.to + 1) ELSE <<t, i.len>>

ExecRep(s, i) == [s EXCEPT !.temp = s.lc, !.lc = i.arg, !.rep = TRUE]

ExecPop(s) == [s EXCEPT !.stk = stack_pop(s.stk), !.armed = @ \/ PopFaults(s.stk)]

Exec(s, i, taken) ==
    CASE i.op = "do" -> ExecDo(s, i)
      [] i.op = "forever" -> <<do_setup(s, i.to, s.lc, TRUE), i.len>>
      [] i.op = "enddo" -> <<enddo_cleanup(s), i.len>>
      [] i.op = "brk" /\ taken -> Jump(enddo_cleanup(s), s.la + 1)
      [] i.op = "jmp" \/ (i.op = "bcc" /\ taken) -> Jump(s, i.to)
      [] i.op = "rep" -> <<ExecRep(s, i), i.len>>
      [] i.op = "pop" -> <<ExecPop(s), i.len>>
      [] i.op = "setla" -> <<[s EXCEPT !.la = i.to], i.len>>
      [] OTHER -> <<s, i.len>>

\* The REP part of advance_pc; first: the instruction was the REP itself.
RepAdvance(s, adv, first) ==
    LET done == [s EXCEPT !.rep = FALSE, !.lc = s.temp]
        left == Decremented(s.lc)
    IN  IF ~s.rep THEN <<s, adv>>
        ELSE IF first THEN (IF s.lc = 0 THEN <<done, adv + 1>> ELSE <<s, adv>>)
        ELSE IF left > 0 THEN <<[s EXCEPT !.lc = left], 0>>
        ELSE <<done, adv>>

AdvancePc(s, adv, first) ==
    LET r == RepAdvance(s, adv, first)
    IN  LoopBack([r[1] EXCEPT !.pc = mask_pc(@ + r[2])], r[2])

ExecuteOne(s, taken) ==
    LET i == code[s.pc]
        e == Exec(s, i, taken)
    IN  AdvancePc(e[1], e[2], i.op = "rep")

Step == \E taken \in BOOLEAN : m' = ExecuteOne(m, taken) /\ UNCHANGED code

StepSpec == StepInit /\ [][Step]_<<code, m>>

===============================================================================
