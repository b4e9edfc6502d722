------------------------------- MODULE HwStack --------------------------------
(***************************************************************************)
(* The hardware stack as the instructions of a running program use it,     *)
(* with the stack-error interrupt it posts and the shadow word budget that *)
(* goes with the post.  One action per kind of instruction that touches    *)
(* the stack.  Compiled code reaches the stack either through the inlined  *)
(* sequences (JSR, RTS, DO, ENDDO), which store their budget into          *)
(* InterruptPipeline::fault_budget, or through helpers (moves and bit      *)
(* operations on SSH, SSL, SP), which spill the budget to                  *)
(* DspState::fault_budget_hint first; the helper moves the hint into       *)
(* fault_budget if it faults.  The run loop's own end-of-loop pops and the *)
(* frame of a long interrupt call the methods with no spill at all.        *)
(***************************************************************************)
EXTENDS StackOps

CONSTANTS Zero,      \* the reset value of a slot half
          Pairs,     \* the pairs calls, DO and interrupts push
          SpValues,  \* the values <<pointer, SE, UF>> the guest writes to SP
          ScValues,  \* the values the guest writes to SC, before the register mask
          Lengths,   \* word counts of the instructions considered (1 and 2 in the code)
          AnchorBumps \* extra words of a memory-destination pop (0 and 1 in the code)

ASSUME ZeroAssumption == Zero \in Words /\ Pairs \subseteq Words \X Words
ASSUME SpAssumption == SpValues \subseteq Slots \X BOOLEAN \X BOOLEAN
ASSUME ScAssumption == ScValues \subseteq Nat
ASSUME LengthAssumption == Lengths \subseteq {1, 2} /\ AnchorBumps \subseteq {0, 1}

VARIABLES stk,       \* stack, registers SP SC SSH SSL
          out,       \* the pair the last pop handed to its instruction
          posted,    \* STACK_ERROR pending
          budget,    \* InterruptPipeline::fault_budget
          hint,      \* DspState::fault_budget_hint
          moved,     \* history: the guest has written SP itself
          drift      \* history: how far SC was ahead of the pointer when the
                     \* guest last wrote one of them itself

vars == <<stk, out, posted, budget, hint, moved, drift>>

-------------------------------------------------------------------------------
(* Fault classes.  A budget counts stream words and depends on the length *)
(* of the instruction.                                                    *)

NoBudget == -1                                \* INVALID_FAULT_BUDGET
PopBudgets == {6 + n : n \in AnchorBumps}     \* memory destinations add 1
PushBudgets == {9 - n : n \in Lengths}        \* also the JSR family
SpWriteBudgets == {6 - n : n \in Lengths}
ReturnBudget == 2               \* RTS, RTI: 3 - len
DoBudget == 3
EndDoBudget == 5
Budgets == {NoBudget, ReturnBudget, DoBudget, EndDoBudget}
             \cup PopBudgets \cup PushBudgets \cup SpWriteBudgets

Init == /\ stk = EmptyStack(Zero)
        /\ out = <<Zero, Zero>>
        /\ posted = FALSE
        /\ budget = NoBudget
        /\ hint = NoBudget
        /\ moved = FALSE
        /\ drift = 0

\* A helper called with hint h posts when it faults and consumes the hint.
HelperPost(faults, h) ==
    /\ posted' = (posted \/ faults)
    /\ budget' = IF faults THEN h ELSE budget
    /\ hint' = IF faults THEN NoBudget ELSE h

\* An inlined sequence posts with its own budget and knows no hint.
InlinePost(faults, b) ==
    /\ posted' = (posted \/ faults)
    /\ budget' = IF faults THEN b ELSE budget
    /\ UNCHANGED hint

-------------------------------------------------------------------------------
(* Instructions that reach the stack through helpers.                     *)

MoveToSSH(v) ==
    \E b \in PushBudgets :
        /\ stk' = write_ssh(stk, v)
        /\ HelperPost(PushFaults(stk), b)
        /\ UNCHANGED <<out, moved, drift>>

\* Any read of SSH: a move, BTST, or a bit-test branch.
MoveFromSSH ==
    \E b \in PopBudgets :
        /\ stk' = stack_pop(stk)
        /\ out' = popped(stk)
        /\ HelperPost(PopFaults(stk), b)
        /\ UNCHANGED <<moved, drift>>

\* BSET, BCLR, BCHG on SSH.  This helper never clears the hint.
BitOpSSH(v) ==
    /\ stk' = write_ssh_tos(stk, v)
    /\ posted' = (posted \/ TosFaults(stk))
    /\ hint' \in PopBudgets
    /\ budget' = IF TosFaults(stk) THEN hint' ELSE budget
    /\ UNCHANGED <<out, moved, drift>>

MoveToSSL(v) ==
    /\ stk' = write_ssl(stk, v)
    /\ UNCHANGED <<out, posted, budget, hint, moved, drift>>

MoveToSP(v) ==
    \E b \in SpWriteBudgets :
        /\ stk' = write_sp(stk, v[1], v[2], v[3])
        /\ HelperPost(WriteSpFaults(stk, v[2]), b)
        /\ moved' = TRUE
        /\ drift' = Drift(stk')
        /\ UNCHANGED out

\* MOVEC and the bit operations on SC, which no helper sees.
MoveToSC(v) ==
    /\ stk' = write_sc(stk, v)
    /\ drift' = Drift(stk')
    /\ UNCHANGED <<out, posted, budget, hint, moved>>

-------------------------------------------------------------------------------
(* Instructions with inlined sequences.                                   *)

CallSubroutine(f) ==
    \E b \in PushBudgets :
        /\ stk' = inline_push(stk, f[1], f[2])
        /\ InlinePost(PushFaults(stk), b)
        /\ UNCHANGED <<out, moved, drift>>

Return ==
    /\ stk' = inline_pop(stk)
    /\ out' = inline_popped(stk)
    /\ InlinePost(PopFaults(stk), ReturnBudget)
    /\ UNCHANGED <<moved, drift>>

\* DO stacks f = <<LA, LC>> and then g = <<PC, SR>>.
Do(f, g) ==
    LET s1 == inline_push(stk, f[1], f[2]) IN
    /\ stk' = inline_push(s1, g[1], g[2])
    /\ InlinePost(PushFaults(stk) \/ PushFaults(s1), DoBudget)
    /\ UNCHANGED <<out, moved, drift>>

EndDo ==
    LET s1 == inline_pop(stk) IN
    /\ stk' = inline_pop(s1)
    /\ out' = inline_popped(s1)
    /\ InlinePost(PopFaults(stk) \/ PopFaults(s1), EndDoBudget)
    /\ UNCHANGED <<moved, drift>>

-------------------------------------------------------------------------------
(* The run loop and the interrupt pipeline, which spill nothing.          *)

\* advance_pc / run: two pops when a DO loop runs out.
LoopEnd ==
    LET s1 == stack_pop(stk) IN
    /\ stk' = stack_pop(s1)
    /\ out' = popped(s1)
    /\ HelperPost(PopFaults(stk) \/ PopFaults(s1), hint)
    /\ UNCHANGED <<moved, drift>>

\* detect_long_interrupt: the frame of a long interrupt.
InterruptFrame(f) ==
    /\ stk' = stack_push(stk, f[1], f[2])
    /\ HelperPost(PushFaults(stk), hint)
    /\ UNCHANGED <<out, moved, drift>>

\* process_pending_interrupts clears the pending bit at dispatch; the
\* budget is reset when the fault is delivered.
Deliver ==
    /\ posted
    /\ posted' = FALSE
    /\ budget' = NoBudget
    /\ UNCHANGED <<stk, out, hint, moved, drift>>

Next ==
    \/ \E v \in Words : MoveToSSH(v) \/ BitOpSSH(v) \/ MoveToSSL(v)
    \/ MoveFromSSH
    \/ \E v \in SpValues : MoveToSP(v)
    \/ \E v \in ScValues : MoveToSC(v)
    \/ \E f \in Pairs : CallSubroutine(f) \/ InterruptFrame(f)
    \/ Return
    \/ \E f, g \in Pairs : Do(f, g)
    \/ EndDo
    \/ LoopEnd
    \/ Deliver

Spec == Init /\ [][Next]_vars
-------------------------------------------------------------------------------
(* Properties.                                                            *)

TypeOK == /\ stk \in StackRecords
          /\ out \in Words \X Words
          /\ posted \in BOOLEAN
          /\ budget \in Budgets
          /\ hint \in Budgets
          /\ moved \in BOOLEAN
          /\ drift \in Slots

\* The mirror registers SSH and SSL always show the slot under the pointer,
\* whatever mix of helpers, inlined sequences, in-place rewrites and SP
\* writes ran.  load_reg(SSH) and every bit operation on SSH or SSL read the
\* mirror ("kept coherent by every push/pop").
MirrorsShowTop == Coherent(stk)

\* The inlined sequences and the methods of DspState are one stack: from any
\* reachable state both pushes lead to the same stack, and both pops lead to
\* the same stack and hand out the same pair, although one reads the slot and
\* the other the mirrors.
PathsAgree ==
    /\ \A h, l \in Words : inline_push(stk, h, l) = stack_push(stk, h, l)
    /\ inline_pop(stk) = stack_pop(stk)
    /\ inline_popped(stk) = popped(stk)

\* The counter SC follows the pointer modulo the number of slots: every path
\* that moves one moves the other by as much, the error paths included, so
\* the distance between them is the one the guest's last own write to SP or
\* SC left (none after a reset), whatever calls, loops and interrupts ran.
CounterFollowsPointer == CounterAgrees(stk, drift)

\* One STACK_ERROR per latching of SE: a post needs SE clear before and set
\* after, and SE is never set silently on a stack whose UF bit is clear.
\* (The two pushes of DO and the two pops of ENDDO post once between them.)
ErrorPostedAtLatch ==
    [][/\ posted' /\ ~posted => ~stk.se /\ stk'.se
       /\ ~stk.se /\ stk'.se /\ ~stk.uf => posted']_vars

\* The refinement: while no error is latched and the guest leaves SP alone,
\* slots 1 .. ptr are the frames of a stack of capacity Depth - 1.  Slot 0
\* belongs to no frame.
AbsStatus == IF moved THEN "moved" ELSE IF stk.se THEN "failed" ELSE "ok"

AbsFrames == IF AbsStatus = "ok"
             THEN [k \in 1 .. stk.ptr |-> <<stk.hi[k], stk.lo[k]>>]
             ELSE << >>

Abs == INSTANCE BoundedStack WITH Capacity <- Depth - 1, FrameSet <- Words \X Words,
                                  frames <- AbsFrames, out <- out, status <- AbsStatus

\* The hardware stack implements the bounded stack: frames come back last in,
\* first out across all three implementations, and it fails only when full or
\* empty.
ImplementsBoundedStack == Abs!Spec

-------------------------------------------------------------------------------
(* Statements of the repository's comments that the code does not meet.   *)

\* "A UF-only write does NOT fault at the write; the poisoned SP faults on
\* the next stack operation instead" (jit_write_sp).
PoisonedSpFaults ==
    [][stk.uf /\ ~stk.se /\ stk'.sc # stk.sc /\ stk'.ptr # stk.ptr => posted']_vars

\* fault_budget_hint is the "shadow word budget of the instruction currently
\* executing" and invalid when unknown: a fault posted by the end-of-loop
\* pops, which spill no budget, carries none.
LoopEndHasNoBudget ==
    [][LoopEnd /\ ~posted /\ posted' => budget' = NoBudget]_vars

===============================================================================
