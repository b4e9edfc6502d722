---------------------------- MODULE HwStackProofs -----------------------------
(***************************************************************************)
(* Proofs about the hardware stack for any number of slots and any set of  *)
(* words.  Each stack operation is first shown to keep a well-typed,       *)
(* coherent stack; the invariants of HwStack follow action by action.      *)
(***************************************************************************)
EXTENDS HwStack, Sequences, TLAPS

\* A stack whose fields have their types, whose mirrors show the top slot.
Sound(s) == s \in StackRecords /\ Coherent(s)

USE DepthAssumption

\* Every push and pop keeps the pointer and the counter in range, and moves
\* them together.
LEMMA PointerArithmetic ==
    ASSUME NEW p \in Slots, NEW c \in 0 .. 2 * Depth - 1
    PROVE  /\ Up(p) \in Slots /\ Down(p) \in Slots
           /\ ScUp(c) \in 0 .. 2 * Depth - 1 /\ ScDown(c) \in 0 .. 2 * Depth - 1
           /\ \A d \in Slots : c - p \in {d - Depth, d, d + Depth} =>
                 /\ ScUp(c) - Up(p) \in {d - Depth, d, d + Depth}
                 /\ ScDown(c) - Down(p) \in {d - Depth, d, d + Depth}
BY DEF Slots, Up, Down, ScUp, ScDown

\* Every counter is some distance ahead of every pointer, so the drift that a
\* write of SP or SC records is the one of the stack it leaves.
LEMMA DriftExists ==
    ASSUME NEW s \in StackRecords
    PROVE  Drift(s) \in Slots /\ CounterAgrees(s, Drift(s))
<1>. DEFINE x == s.sc - s.ptr
            d == IF x < 0 THEN x + Depth ELSE IF x < Depth THEN x ELSE x - Depth
<1>1. d \in Slots /\ CounterAgrees(s, d)
  BY DEF StackRecords, Slots, CounterAgrees
<1>. HIDE DEF d
<1>. QED BY <1>1 DEF Drift

\* DspState::stack_push on a sound stack.
LEMMA PushSound ==
    ASSUME NEW s, Sound(s), NEW h \in Words, NEW l \in Words
    PROVE  /\ Sound(stack_push(s, h, l))
           /\ \A d \in Slots : CounterAgrees(s, d) => CounterAgrees(stack_push(s, h, l), d)
BY PointerArithmetic DEF Sound, StackRecords, Coherent, CounterAgrees, stack_push, Slots

\* DspState::stack_pop on a sound stack, and the pair it returns.
LEMMA PopSound ==
    ASSUME NEW s, Sound(s)
    PROVE  /\ Sound(stack_pop(s))
           /\ \A d \in Slots : CounterAgrees(s, d) => CounterAgrees(stack_pop(s), d)
           /\ popped(s) \in Words \X Words
BY PointerArithmetic DEF Sound, StackRecords, Coherent, CounterAgrees, stack_pop, popped, Slots

\* Stack records are equal when their fields are.
LEMMA StackExtensionality ==
    ASSUME NEW a \in StackRecords, NEW b \in StackRecords,
           a.ptr = b.ptr, a.se = b.se, a.uf = b.uf, a.sc = b.sc,
           a.hi = b.hi, a.lo = b.lo, a.ssh = b.ssh, a.ssl = b.ssl
    PROVE  a = b
BY DEF StackRecords

\* The inlined sequences do what the methods do; the popped pairs agree
\* because the mirrors show the slot.
LEMMA InlineMatches ==
    ASSUME NEW s, Sound(s)
    PROVE  /\ \A h, l \in Words : inline_push(s, h, l) = stack_push(s, h, l)
           /\ inline_pop(s) = stack_pop(s)
           /\ inline_popped(s) = popped(s)
<1>1. ASSUME NEW h \in Words, NEW l \in Words
      PROVE  inline_push(s, h, l) = stack_push(s, h, l)
  <2>1. inline_push(s, h, l) \in StackRecords
    BY PointerArithmetic DEF Sound, StackRecords, inline_push, Slots
  <2>2. stack_push(s, h, l) \in StackRecords
    BY PushSound DEF Sound
  <2>. DEFINE a == inline_push(s, h, l)  b == stack_push(s, h, l)
  <2>3. /\ a.ptr = b.ptr /\ a.se = b.se /\ a.uf = b.uf /\ a.sc = b.sc
        /\ a.hi = b.hi /\ a.lo = b.lo /\ a.ssh = b.ssh /\ a.ssl = b.ssl
    BY PointerArithmetic DEF Sound, StackRecords, inline_push, stack_push, Slots
  <2>. HIDE DEF a, b
  <2>. QED BY <2>1, <2>2, <2>3, StackExtensionality DEF a, b
<1>2. inline_pop(s) = stack_pop(s)
  <2>1. inline_pop(s) \in StackRecords
    BY PointerArithmetic DEF Sound, StackRecords, inline_pop, Slots
  <2>2. stack_pop(s) \in StackRecords
    BY PopSound DEF Sound
  <2>. DEFINE a == inline_pop(s)  b == stack_pop(s)
  <2>3. /\ a.ptr = b.ptr /\ a.se = b.se /\ a.uf = b.uf /\ a.sc = b.sc
        /\ a.hi = b.hi /\ a.lo = b.lo /\ a.ssh = b.ssh /\ a.ssl = b.ssl
    BY PointerArithmetic DEF Sound, StackRecords, inline_pop, stack_pop, Slots
  <2>. HIDE DEF a, b
  <2>. QED BY <2>1, <2>2, <2>3, StackExtensionality DEF a, b
<1>3. inline_popped(s) = popped(s)
  BY DEF Sound, Coherent, inline_popped, popped
<1>. QED BY <1>1, <1>2, <1>3

\* The helpers behind moves to SSH, SSL and SP and bit operations on SSH.
LEMMA HelpersSound ==
    ASSUME NEW s, Sound(s), NEW v \in Words,
           NEW p \in Slots, NEW e \in BOOLEAN, NEW u \in BOOLEAN
    PROVE  /\ Sound(write_ssh(s, v)) /\ Sound(write_ssh_tos(s, v))
           /\ Sound(write_ssl(s, v)) /\ Sound(write_sp(s, p, e, u))
           /\ \A d \in Slots : CounterAgrees(s, d) =>
                 /\ CounterAgrees(write_ssh(s, v), d)
                 /\ CounterAgrees(write_ssh_tos(s, v), d)
                 /\ CounterAgrees(write_ssl(s, v), d)
<1>1. /\ Sound(write_ssh(s, v))
      /\ \A d \in Slots : CounterAgrees(s, d) => CounterAgrees(write_ssh(s, v), d)
  BY PointerArithmetic DEF Sound, StackRecords, Coherent, CounterAgrees, write_ssh, Slots
<1>2. /\ Sound(write_ssh_tos(s, v))
      /\ \A d \in Slots : CounterAgrees(s, d) => CounterAgrees(write_ssh_tos(s, v), d)
  BY DEF Sound, StackRecords, Coherent, CounterAgrees, write_ssh_tos, Slots
<1>3. /\ Sound(write_ssl(s, v))
      /\ \A d \in Slots : CounterAgrees(s, d) => CounterAgrees(write_ssl(s, v), d)
  BY DEF Sound, StackRecords, Coherent, CounterAgrees, write_ssl, Slots
<1>4. Sound(write_sp(s, p, e, u))
  BY DEF Sound, StackRecords, Coherent, write_sp, Slots
<1>. QED BY <1>1, <1>2, <1>3, <1>4

\* A write of SC moves nothing but the counter.
LEMMA ScWriteSound ==
    ASSUME NEW s, Sound(s), NEW v \in Nat
    PROVE  /\ Sound(write_sc(s, v))
           /\ LET a == write_sc(s, v) IN
                 a.ptr = s.ptr /\ a.se = s.se /\ a.hi = s.hi /\ a.lo = s.lo
<1>1. v % (2 * Depth) \in 0 .. 2 * Depth - 1
  OBVIOUS
<1>. QED BY <1>1 DEF Sound, StackRecords, Coherent, write_sc
-------------------------------------------------------------------------------
(* The invariants.  ErrorPostedAtLatch is a property of single steps.      *)

\* The inductive invariant: types, coherent mirrors, counter and pointer.
IInv == TypeOK /\ MirrorsShowTop /\ CounterFollowsPointer

\* The start of a program: an empty stack.
LEMMA InitIInv == Init => IInv
<1>. SUFFICES ASSUME Init PROVE IInv
  OBVIOUS
<1>1. 0 \in Slots /\ 0 \in 0 .. 2 * Depth - 1
  BY DEF Slots
<1>2. EmptyStack(Zero) \in StackRecords
  BY <1>1, ZeroAssumption DEF EmptyStack, StackRecords
<1>3. Coherent(EmptyStack(Zero)) /\ CounterAgrees(EmptyStack(Zero), 0)
  BY <1>1 DEF EmptyStack, Coherent, CounterAgrees
<1>4. NoBudget \in Budgets
  BY DEF Budgets
<1>. QED BY <1>1, <1>2, <1>3, <1>4, ZeroAssumption
     DEF Init, IInv, TypeOK, MirrorsShowTop, CounterFollowsPointer

\* The posting discipline of the helpers and of the inlined sequences keeps
\* the budget registers in their sets.
LEMMA PostType ==
    ASSUME TypeOK, NEW f \in BOOLEAN, NEW b \in Budgets,
           HelperPost(f, b) \/ InlinePost(f, b)
    PROVE  posted' \in BOOLEAN /\ budget' \in Budgets /\ hint' \in Budgets
BY DEF TypeOK, HelperPost, InlinePost, Budgets, NoBudget

\* Every action keeps the inductive invariant.
LEMMA NextIInv == IInv /\ [Next]_vars => IInv'
<1>. SUFFICES ASSUME IInv, [Next]_vars PROVE IInv'
  OBVIOUS
<1>. USE DEF IInv, TypeOK, MirrorsShowTop, CounterFollowsPointer
<1>0. Sound(stk)
  BY DEF Sound
<1>1. ASSUME NEW v \in Words, MoveToSSH(v) PROVE IInv'
  <2>1. PICK b \in PushBudgets : HelperPost(PushFaults(stk), b)
    BY <1>1 DEF MoveToSSH
  <2>2. b \in Budgets /\ PushFaults(stk) \in BOOLEAN
    BY DEF Budgets, PushFaults, StackRecords
  <2>3. posted' \in BOOLEAN /\ budget' \in Budgets /\ hint' \in Budgets
    BY <2>1, <2>2, PostType
  <2>4. Sound(stk') /\ (CounterAgrees(stk, drift) => CounterAgrees(stk', drift))
    BY <1>0, <1>1, HelpersSound DEF MoveToSSH, Slots
  <2>. QED BY <1>1, <2>3, <2>4 DEF MoveToSSH, Sound
<1>2. ASSUME MoveFromSSH PROVE IInv'
  <2>1. PICK b \in PopBudgets : HelperPost(PopFaults(stk), b)
    BY <1>2 DEF MoveFromSSH
  <2>2. b \in Budgets /\ PopFaults(stk) \in BOOLEAN
    BY DEF Budgets, PopFaults, StackRecords
  <2>3. posted' \in BOOLEAN /\ budget' \in Budgets /\ hint' \in Budgets
    BY <2>1, <2>2, PostType
  <2>4. Sound(stk') /\ (CounterAgrees(stk, drift) => CounterAgrees(stk', drift)) /\ out' \in Words \X Words
    BY <1>0, <1>2, PopSound DEF MoveFromSSH
  <2>. QED BY <1>2, <2>3, <2>4 DEF MoveFromSSH, Sound
<1>3. ASSUME NEW v \in Words, BitOpSSH(v) PROVE IInv'
  <2>1. posted' \in BOOLEAN /\ budget' \in Budgets /\ hint' \in Budgets
    BY <1>3 DEF BitOpSSH, Budgets, TosFaults, StackRecords
  <2>2. Sound(stk') /\ (CounterAgrees(stk, drift) => CounterAgrees(stk', drift))
    BY <1>0, <1>3, HelpersSound DEF BitOpSSH, Slots
  <2>. QED BY <1>3, <2>1, <2>2 DEF BitOpSSH, Sound
<1>4. ASSUME NEW v \in Words, MoveToSSL(v) PROVE IInv'
  <2>1. Sound(stk') /\ (CounterAgrees(stk, drift) => CounterAgrees(stk', drift))
    BY <1>0, <1>4, HelpersSound DEF MoveToSSL, Slots
  <2>. QED BY <1>4, <2>1 DEF MoveToSSL, Sound
<1>5. ASSUME NEW v \in SpValues, MoveToSP(v) PROVE IInv'
  <2>1. v[1] \in Slots /\ v[2] \in BOOLEAN /\ v[3] \in BOOLEAN
    BY SpAssumption
  <2>2. PICK b \in SpWriteBudgets : HelperPost(WriteSpFaults(stk, v[2]), b)
    BY <1>5 DEF MoveToSP
  <2>3. b \in Budgets /\ WriteSpFaults(stk, v[2]) \in BOOLEAN
    BY <2>1 DEF Budgets, WriteSpFaults, StackRecords
  <2>4. posted' \in BOOLEAN /\ budget' \in Budgets /\ hint' \in Budgets
    BY <2>2, <2>3, PostType
  <2>5. Sound(stk')
    BY <1>0, <1>5, <2>1, HelpersSound, ZeroAssumption DEF MoveToSP
  <2>6. drift' \in Slots /\ CounterAgrees(stk', drift')
    BY <1>5, <2>5, DriftExists DEF MoveToSP, Sound
  <2>. QED BY <1>5, <2>4, <2>5, <2>6 DEF MoveToSP, Sound
<1>6. ASSUME NEW f \in Pairs, CallSubroutine(f) PROVE IInv'
  <2>1. f[1] \in Words /\ f[2] \in Words
    BY ZeroAssumption
  <2>2. PICK b \in PushBudgets : InlinePost(PushFaults(stk), b)
    BY <1>6 DEF CallSubroutine
  <2>3. b \in Budgets /\ PushFaults(stk) \in BOOLEAN
    BY DEF Budgets, PushFaults, StackRecords
  <2>4. posted' \in BOOLEAN /\ budget' \in Budgets /\ hint' \in Budgets
    BY <2>2, <2>3, PostType
  <2>5. Sound(stk') /\ (CounterAgrees(stk, drift) => CounterAgrees(stk', drift))
    BY <1>0, <1>6, <2>1, PushSound, InlineMatches DEF CallSubroutine
  <2>. QED BY <1>6, <2>4, <2>5 DEF CallSubroutine, Sound
<1>7. ASSUME NEW f \in Pairs, InterruptFrame(f) PROVE IInv'
  <2>1. f[1] \in Words /\ f[2] \in Words
    BY ZeroAssumption
  <2>2. PushFaults(stk) \in BOOLEAN
    BY DEF PushFaults, StackRecords
  <2>3. posted' \in BOOLEAN /\ budget' \in Budgets /\ hint' \in Budgets
    BY <1>7, <2>2, PostType DEF InterruptFrame
  <2>4. Sound(stk') /\ (CounterAgrees(stk, drift) => CounterAgrees(stk', drift))
    BY <1>0, <1>7, <2>1, PushSound DEF InterruptFrame
  <2>. QED BY <1>7, <2>3, <2>4 DEF InterruptFrame, Sound
<1>8. ASSUME Return PROVE IInv'
  <2>1. ReturnBudget \in Budgets /\ PopFaults(stk) \in BOOLEAN
    BY DEF Budgets, PopFaults, StackRecords
  <2>2. posted' \in BOOLEAN /\ budget' \in Budgets /\ hint' \in Budgets
    BY <1>8, <2>1, PostType DEF Return
  <2>3. Sound(stk') /\ (CounterAgrees(stk, drift) => CounterAgrees(stk', drift)) /\ out' \in Words \X Words
    BY <1>0, <1>8, PopSound, InlineMatches DEF Return
  <2>. QED BY <1>8, <2>2, <2>3 DEF Return, Sound
<1>9. ASSUME NEW f \in Pairs, NEW g \in Pairs, Do(f, g) PROVE IInv'
  <2>. DEFINE s1 == inline_push(stk, f[1], f[2])
  <2>1. f[1] \in Words /\ f[2] \in Words /\ g[1] \in Words /\ g[2] \in Words
    BY ZeroAssumption
  <2>2. Sound(s1) /\ (CounterAgrees(stk, drift) => CounterAgrees(s1, drift))
    <3>1. s1 = stack_push(stk, f[1], f[2])
      BY <1>0, <2>1, InlineMatches
    <3>. QED BY <1>0, <2>1, <3>1, PushSound
  <2>3. Sound(stk') /\ (CounterAgrees(s1, drift) => CounterAgrees(stk', drift))
    <3>. HIDE DEF s1
    <3>1. stk' = inline_push(s1, g[1], g[2])
      BY <1>9 DEF Do, s1
    <3>2. stk' = stack_push(s1, g[1], g[2])
      BY <2>1, <2>2, <3>1, InlineMatches
    <3>. QED BY <2>1, <2>2, <3>2, PushSound
  <2>4. DoBudget \in Budgets /\ (PushFaults(stk) \/ PushFaults(s1)) \in BOOLEAN
    BY DEF Budgets
  <2>5. posted' \in BOOLEAN /\ budget' \in Budgets /\ hint' \in Budgets
    <3>1. InlinePost(PushFaults(stk) \/ PushFaults(s1), DoBudget)
      BY <1>9 DEF Do
    <3>. QED BY <2>4, <3>1, PostType
  <2>6. UNCHANGED <<out, moved, drift>>
    BY <1>9 DEF Do
  <2>. HIDE DEF s1
  <2>. QED BY <2>2, <2>3, <2>5, <2>6 DEF Sound
<1>10. ASSUME EndDo PROVE IInv'
  <2>. DEFINE s1 == inline_pop(stk)
  <2>1. Sound(s1) /\ (CounterAgrees(stk, drift) => CounterAgrees(s1, drift))
    BY <1>0, PopSound, InlineMatches
  <2>2. Sound(stk') /\ (CounterAgrees(s1, drift) => CounterAgrees(stk', drift)) /\ out' \in Words \X Words
    <3>. HIDE DEF s1
    <3>1. stk' = inline_pop(s1) /\ out' = inline_popped(s1)
      BY <1>10 DEF EndDo, s1
    <3>. QED BY <2>1, <3>1, PopSound, InlineMatches
  <2>3. EndDoBudget \in Budgets /\ (PopFaults(stk) \/ PopFaults(s1)) \in BOOLEAN
    BY DEF Budgets
  <2>4. posted' \in BOOLEAN /\ budget' \in Budgets /\ hint' \in Budgets
    <3>1. InlinePost(PopFaults(stk) \/ PopFaults(s1), EndDoBudget)
      BY <1>10 DEF EndDo
    <3>. QED BY <2>3, <3>1, PostType
  <2>5. UNCHANGED <<moved, drift>>
    BY <1>10 DEF EndDo
  <2>. HIDE DEF s1
  <2>. QED BY <2>1, <2>2, <2>4, <2>5 DEF Sound
<1>11. ASSUME LoopEnd PROVE IInv'
  <2>. DEFINE s1 == stack_pop(stk)
  <2>1. Sound(s1) /\ (CounterAgrees(stk, drift) => CounterAgrees(s1, drift))
    BY <1>0, PopSound
  <2>2. Sound(stk') /\ (CounterAgrees(s1, drift) => CounterAgrees(stk', drift)) /\ out' \in Words \X Words
    <3>. HIDE DEF s1
    <3>1. stk' = stack_pop(s1) /\ out' = popped(s1)
      BY <1>11 DEF LoopEnd, s1
    <3>. QED BY <2>1, <3>1, PopSound
  <2>3. (PopFaults(stk) \/ PopFaults(s1)) \in BOOLEAN
    OBVIOUS
  <2>4. posted' \in BOOLEAN /\ budget' \in Budgets /\ hint' \in Budgets
    <3>1. HelperPost(PopFaults(stk) \/ PopFaults(s1), hint)
      BY <1>11 DEF LoopEnd
    <3>. QED BY <2>3, <3>1, PostType
  <2>5. UNCHANGED <<moved, drift>>
    BY <1>11 DEF LoopEnd
  <2>. HIDE DEF s1
  <2>. QED BY <2>1, <2>2, <2>4, <2>5 DEF Sound
<1>12. ASSUME Deliver PROVE IInv'
  BY <1>12 DEF Deliver, Budgets
<1>13. ASSUME NEW v \in ScValues, MoveToSC(v) PROVE IInv'
  <2>1. Sound(stk')
    BY <1>0, <1>13, ScAssumption, ScWriteSound DEF MoveToSC
  <2>2. drift' \in Slots /\ CounterAgrees(stk', drift')
    BY <1>13, <2>1, DriftExists DEF MoveToSC, Sound
  <2>. QED BY <1>13, <2>1, <2>2 DEF MoveToSC, Sound
<1>14. ASSUME UNCHANGED vars PROVE IInv'
  BY <1>14 DEF vars
<1>. QED BY <1>1, <1>2, <1>3, <1>4, <1>5, <1>6, <1>7, <1>8, <1>9, <1>10, <1>11, <1>12, <1>13, <1>14
     DEF Next

\* Every reachable state is typed, coherent and counted right.
THEOREM StackInvariant == Spec => []IInv
BY InitIInv, NextIInv, PTL DEF Spec

\* SSH and SSL mirror the top slot in every reachable state, for every mix of
\* helpers, inlined sequences, rewrites and SP writes.
THEOREM MirrorsCorrect == Spec => []MirrorsShowTop
BY StackInvariant, PTL DEF IInv

\* SC follows the pointer at the distance the guest's last own write to SP or
\* SC left, and at none before it: no call, loop, interrupt or helper changes it.
THEOREM CounterCorrect == Spec => []CounterFollowsPointer
BY StackInvariant, PTL DEF IInv

\* The inlined push and pop are interchangeable with the methods in every
\* reachable state.
THEOREM InlineIsMethod == Spec => []PathsAgree
<1>1. IInv => PathsAgree
  BY InlineMatches DEF IInv, TypeOK, MirrorsShowTop, PathsAgree, Sound
<1>. QED BY <1>1, StackInvariant, PTL

-------------------------------------------------------------------------------
(* One post per latch.                                                     *)

\* What a single step may do to the latch and to the pending bit.
LatchStep == /\ posted' /\ ~posted => ~stk.se /\ stk'.se
             /\ ~stk.se /\ stk'.se /\ ~stk.uf => posted'

\* How each operation moves SE, in terms of its own fault test.
LEMMA PushLatch ==
    ASSUME NEW s \in StackRecords, NEW h, NEW l
    PROVE  /\ stack_push(s, h, l).se = (s.se \/ PushFaults(s))
           /\ inline_push(s, h, l).se = (s.se \/ PushFaults(s))
           /\ write_ssh(s, h).se = (s.se \/ PushFaults(s))
           /\ write_ssl(s, l).se = s.se
BY DEF StackRecords, stack_push, inline_push, write_ssh, write_ssl, PushFaults

\* The same for the pops and for the in-place write.
LEMMA PopLatch ==
    ASSUME NEW s \in StackRecords
    PROVE  /\ stack_pop(s).se = (s.se \/ PopFaults(s))
           /\ inline_pop(s).se = (s.se \/ PopFaults(s))
           /\ \A h : write_ssh_tos(s, h).se = (s.se \/ TosFaults(s))
BY DEF StackRecords, stack_pop, inline_pop, write_ssh_tos, PopFaults, TosFaults

\* Every action latches and posts together.
LEMMA NextLatch == IInv /\ [Next]_vars => LatchStep
<1>. SUFFICES ASSUME IInv, [Next]_vars PROVE LatchStep
  OBVIOUS
<1>0. stk \in StackRecords /\ stk.se \in BOOLEAN /\ Sound(stk)
  BY DEF IInv, TypeOK, StackRecords, MirrorsShowTop, Sound
<1>. USE DEF LatchStep
<1>1. ASSUME NEW v \in Words, MoveToSSH(v) PROVE LatchStep
  <2>1. stk'.se = (stk.se \/ PushFaults(stk))
    BY <1>0, <1>1, PushLatch DEF MoveToSSH
  <2>2. posted' = (posted \/ PushFaults(stk))
    BY <1>1 DEF MoveToSSH, HelperPost
  <2>. QED BY <1>0, <2>1, <2>2 DEF PushFaults
<1>2. ASSUME MoveFromSSH PROVE LatchStep
  <2>1. stk'.se = (stk.se \/ PopFaults(stk))
    BY <1>0, <1>2, PopLatch DEF MoveFromSSH
  <2>2. posted' = (posted \/ PopFaults(stk))
    BY <1>2 DEF MoveFromSSH, HelperPost
  <2>. QED BY <1>0, <2>1, <2>2 DEF PopFaults
<1>3. ASSUME NEW v \in Words, BitOpSSH(v) PROVE LatchStep
  <2>1. stk'.se = (stk.se \/ TosFaults(stk))
    BY <1>0, <1>3, PopLatch DEF BitOpSSH
  <2>2. posted' = (posted \/ TosFaults(stk))
    BY <1>3 DEF BitOpSSH
  <2>. QED BY <1>0, <2>1, <2>2 DEF TosFaults
<1>4. ASSUME NEW v \in Words, MoveToSSL(v) PROVE LatchStep
  BY <1>0, <1>4, PushLatch DEF MoveToSSL
<1>5. ASSUME NEW v \in SpValues, MoveToSP(v) PROVE LatchStep
  <2>1. v[2] \in BOOLEAN
    BY SpAssumption
  <2>2. stk'.se = v[2]
    BY <1>0, <1>5, <2>1 DEF MoveToSP, write_sp, StackRecords
  <2>3. posted' = (posted \/ WriteSpFaults(stk, v[2]))
    BY <1>5 DEF MoveToSP, HelperPost
  <2>. QED BY <1>0, <2>1, <2>2, <2>3 DEF WriteSpFaults
<1>6. ASSUME NEW f \in Pairs, CallSubroutine(f) PROVE LatchStep
  <2>1. stk'.se = (stk.se \/ PushFaults(stk))
    BY <1>0, <1>6, PushLatch DEF CallSubroutine
  <2>2. posted' = (posted \/ PushFaults(stk))
    BY <1>6 DEF CallSubroutine, InlinePost
  <2>. QED BY <1>0, <2>1, <2>2 DEF PushFaults
<1>7. ASSUME NEW f \in Pairs, InterruptFrame(f) PROVE LatchStep
  BY <1>0, <1>7, PushLatch DEF InterruptFrame, HelperPost, PushFaults
<1>8. ASSUME Return PROVE LatchStep
  BY <1>0, <1>8, PopLatch DEF Return, InlinePost, PopFaults
<1>9. ASSUME NEW f \in Pairs, NEW g \in Pairs, Do(f, g) PROVE LatchStep
  <2>. DEFINE s1 == inline_push(stk, f[1], f[2])
  <2>1. s1 \in StackRecords
    <3>1. f[1] \in Words /\ f[2] \in Words
      BY ZeroAssumption
    <3>2. s1 = stack_push(stk, f[1], f[2])
      BY <1>0, <3>1, InlineMatches
    <3>. QED BY <1>0, <3>1, <3>2, PushSound DEF Sound
  <2>2. s1.se = (stk.se \/ PushFaults(stk))
    BY <1>0, PushLatch
  <2>3. /\ stk' = inline_push(s1, g[1], g[2])
        /\ InlinePost(PushFaults(stk) \/ PushFaults(s1), DoBudget)
    BY <1>9 DEF Do
  <2>. HIDE DEF s1
  <2>4. stk'.se = (s1.se \/ PushFaults(s1))
    BY <2>1, <2>3, PushLatch
  <2>. QED BY <1>0, <2>2, <2>3, <2>4 DEF InlinePost, PushFaults
<1>10. ASSUME EndDo PROVE LatchStep
  <2>. DEFINE s1 == inline_pop(stk)
  <2>1. s1 \in StackRecords
    BY <1>0, PopSound, InlineMatches DEF Sound
  <2>2. s1.se = (stk.se \/ PopFaults(stk))
    BY <1>0, PopLatch
  <2>3. /\ stk' = inline_pop(s1)
        /\ InlinePost(PopFaults(stk) \/ PopFaults(s1), EndDoBudget)
    BY <1>10 DEF EndDo
  <2>. HIDE DEF s1
  <2>4. stk'.se = (s1.se \/ PopFaults(s1))
    BY <2>1, <2>3, PopLatch
  <2>. QED BY <1>0, <2>2, <2>3, <2>4 DEF InlinePost, PopFaults
<1>11. ASSUME LoopEnd PROVE LatchStep
  <2>. DEFINE s1 == stack_pop(stk)
  <2>1. s1 \in StackRecords
    BY <1>0, PopSound DEF Sound
  <2>2. s1.se = (stk.se \/ PopFaults(stk))
    BY <1>0, PopLatch
  <2>3. /\ stk' = stack_pop(s1)
        /\ HelperPost(PopFaults(stk) \/ PopFaults(s1), hint)
    BY <1>11 DEF LoopEnd
  <2>. HIDE DEF s1
  <2>4. stk'.se = (s1.se \/ PopFaults(s1))
    BY <2>1, <2>3, PopLatch
  <2>. QED BY <1>0, <2>2, <2>3, <2>4 DEF HelperPost, PopFaults
<1>12. ASSUME Deliver PROVE LatchStep
  BY <1>12 DEF Deliver
<1>13. ASSUME NEW v \in ScValues, MoveToSC(v) PROVE LatchStep
  <2>1. Sound(stk)
    BY DEF IInv, TypeOK, MirrorsShowTop, Sound
  <2>. QED BY <1>13, <2>1, ScAssumption, ScWriteSound DEF MoveToSC
<1>14. ASSUME UNCHANGED vars PROVE LatchStep
  BY <1>14 DEF vars
<1>. QED BY <1>1, <1>2, <1>3, <1>4, <1>5, <1>6, <1>7, <1>8, <1>9, <1>10, <1>11, <1>12, <1>13, <1>14
     DEF Next

\* A STACK_ERROR is posted exactly when SE is latched, once per latch.
THEOREM OnePostPerLatch == Spec => ErrorPostedAtLatch
<1>1. IInv /\ [Next]_vars => [LatchStep]_vars
  BY NextLatch
<1>. QED BY <1>1, StackInvariant, PTL DEF Spec, ErrorPostedAtLatch, LatchStep

-------------------------------------------------------------------------------
(* The refinement of BoundedStack.  The frames of a stack record are its   *)
(* slots 1 .. ptr; each operation is first described by what it does to    *)
(* them, then each action is matched with an abstract one.                 *)

FramesOf(s) == [k \in 1 .. s.ptr |-> <<s.hi[k], s.lo[k]>>]

\* The frames form a sequence as long as the pointer.
LEMMA FramesAreSeq ==
    ASSUME NEW s \in StackRecords
    PROVE  /\ FramesOf(s) \in Seq(Words \X Words)
           /\ Len(FramesOf(s)) = s.ptr
           /\ s.ptr \in Nat /\ s.ptr < Depth
           /\ DOMAIN FramesOf(s) = 1 .. s.ptr
           /\ \A k \in 1 .. s.ptr : FramesOf(s)[k] = <<s.hi[k], s.lo[k]>>
<1>1. s.ptr \in Nat /\ s.ptr < Depth /\ 1 .. s.ptr \subseteq Slots
  BY DEF StackRecords, Slots
<1>2. \A k \in 1 .. s.ptr : <<s.hi[k], s.lo[k]>> \in Words \X Words
  BY <1>1 DEF StackRecords
<1>3. FramesOf(s) \in [1 .. s.ptr -> Words \X Words]
  BY <1>2 DEF FramesOf
<1>4. FramesOf(s) \in Seq(Words \X Words) /\ Len(FramesOf(s)) = s.ptr
  BY <1>1, <1>3
<1>. QED BY <1>1, <1>4 DEF FramesOf

\* A push with room appends a frame.  A move to SSH takes the low half that
\* the slot already holds.
LEMMA PushFrames ==
    ASSUME NEW s \in StackRecords, NEW h \in Words, NEW l \in Words, s.ptr < Depth - 1
    PROVE  /\ FramesOf(stack_push(s, h, l)) = Append(FramesOf(s), <<h, l>>)
           /\ FramesOf(write_ssh(s, h)) = Append(FramesOf(s), <<h, s.lo[s.ptr + 1]>>)
           /\ s.lo[s.ptr + 1] \in Words
           /\ stack_push(s, h, l).ptr = s.ptr + 1
<1>1. s.ptr \in Nat /\ s.ptr + 1 \in Slots /\ Up(s.ptr) = s.ptr + 1 /\ 1 .. s.ptr + 1 \subseteq Slots
  BY DEF StackRecords, Slots, Up
<1>2. s.hi \in [Slots -> Words] /\ s.lo \in [Slots -> Words]
  BY DEF StackRecords
<1>. DEFINE F == FramesOf(s)  a == stack_push(s, h, l)  b == write_ssh(s, h)
<1>3. F \in Seq(Words \X Words) /\ Len(F) = s.ptr
      /\ \A k \in 1 .. s.ptr : F[k] = <<s.hi[k], s.lo[k]>>
  BY FramesAreSeq
<1>4. /\ a.ptr = s.ptr + 1
      /\ a.hi = [s.hi EXCEPT ![s.ptr + 1] = h] /\ a.lo = [s.lo EXCEPT ![s.ptr + 1] = l]
  BY <1>1 DEF stack_push
<1>5. /\ b.ptr = s.ptr + 1
      /\ b.hi = [s.hi EXCEPT ![s.ptr + 1] = h] /\ b.lo = s.lo
  BY <1>1 DEF write_ssh, StackRecords
<1>. HIDE DEF a, b, F
<1>6. FramesOf(a) = Append(F, <<h, l>>)
  <2>1. FramesOf(a) = [k \in 1 .. s.ptr + 1 |-> IF k = s.ptr + 1 THEN <<h, l>> ELSE F[k]]
    <3>1. ASSUME NEW k \in 1 .. s.ptr + 1
          PROVE  <<a.hi[k], a.lo[k]>> = IF k = s.ptr + 1 THEN <<h, l>> ELSE F[k]
      <4>1. k \in Slots /\ (k # s.ptr + 1 => k \in 1 .. s.ptr)
        BY <1>1
      <4>2. CASE k = s.ptr + 1
        BY <1>2, <1>4, <4>1, <4>2
      <4>3. CASE k # s.ptr + 1
        <5>1. a.hi[k] = s.hi[k] /\ a.lo[k] = s.lo[k]
          BY <1>2, <1>4, <4>1, <4>3
        <5>. QED BY <1>3, <4>1, <4>3, <5>1
      <4>. QED BY <4>2, <4>3
    <3>. QED BY <1>4, <3>1 DEF FramesOf
  <2>. QED BY <1>1, <1>3, <2>1
<1>7. FramesOf(b) = Append(F, <<h, s.lo[s.ptr + 1]>>)
  <2>1. FramesOf(b) = [k \in 1 .. s.ptr + 1 |->
                         IF k = s.ptr + 1 THEN <<h, s.lo[s.ptr + 1]>> ELSE F[k]]
    <3>1. ASSUME NEW k \in 1 .. s.ptr + 1
          PROVE  <<b.hi[k], b.lo[k]>> = IF k = s.ptr + 1 THEN <<h, s.lo[s.ptr + 1]>> ELSE F[k]
      <4>1. k \in Slots /\ (k # s.ptr + 1 => k \in 1 .. s.ptr)
        BY <1>1
      <4>2. CASE k = s.ptr + 1
        BY <1>2, <1>5, <4>1, <4>2
      <4>3. CASE k # s.ptr + 1
        <5>1. b.hi[k] = s.hi[k] /\ b.lo[k] = s.lo[k]
          BY <1>2, <1>5, <4>1, <4>3
        <5>. QED BY <1>3, <4>1, <4>3, <5>1
      <4>. QED BY <4>2, <4>3
    <3>. QED BY <1>5, <3>1 DEF FramesOf
  <2>. QED BY <1>1, <1>3, <2>1
<1>. QED BY <1>1, <1>2, <1>4, <1>6, <1>7 DEF a, b, F

\* A pop of a non-empty stack drops the newest frame and hands it out.
LEMMA PopFrames ==
    ASSUME NEW s, Sound(s), s.ptr > 0
    PROVE  /\ FramesOf(stack_pop(s)) = SubSeq(FramesOf(s), 1, s.ptr - 1)
           /\ popped(s) = FramesOf(s)[s.ptr]
           /\ stack_pop(s).ptr = s.ptr - 1
<1>0. s \in StackRecords
  BY DEF Sound
<1>. DEFINE F == FramesOf(s)  a == stack_pop(s)
<1>1. /\ s.ptr \in Nat /\ F \in Seq(Words \X Words) /\ Len(F) = s.ptr
      /\ \A k \in 1 .. s.ptr : F[k] = <<s.hi[k], s.lo[k]>>
  BY <1>0, FramesAreSeq
<1>2. a.ptr = s.ptr - 1 /\ a.hi = s.hi /\ a.lo = s.lo
  BY <1>1 DEF stack_pop, Down
<1>. HIDE DEF a, F
<1>3. FramesOf(a) = [k \in 1 .. s.ptr - 1 |-> F[k]]
  BY <1>1, <1>2 DEF FramesOf
<1>4. FramesOf(a) = SubSeq(F, 1, s.ptr - 1)
  BY <1>1, <1>3
<1>5. popped(s) = F[s.ptr]
  BY <1>1 DEF Sound, Coherent, popped
<1>. QED BY <1>2, <1>4, <1>5 DEF a, F

\* Two pops of two frames: the second newest frame is handed out last.
LEMMA PopTwoFrames ==
    ASSUME NEW s, Sound(s), s.ptr > 1
    PROVE  /\ FramesOf(stack_pop(stack_pop(s))) = SubSeq(FramesOf(s), 1, s.ptr - 2)
           /\ popped(stack_pop(s)) = FramesOf(s)[s.ptr - 1]
<1>. DEFINE F == FramesOf(s)  a == stack_pop(s)
<1>0. s.ptr \in Nat /\ F \in Seq(Words \X Words) /\ Len(F) = s.ptr
  BY FramesAreSeq DEF Sound
<1>1. FramesOf(a) = SubSeq(F, 1, s.ptr - 1) /\ a.ptr = s.ptr - 1
  BY <1>0, PopFrames
<1>2. Sound(a)
  BY PopSound
<1>. HIDE DEF a, F
<1>3. /\ FramesOf(stack_pop(a)) = SubSeq(FramesOf(a), 1, a.ptr - 1)
      /\ popped(a) = FramesOf(a)[a.ptr]
  BY <1>0, <1>1, <1>2, PopFrames
<1>. QED BY <1>0, <1>1, <1>3 DEF a, F

\* A bit operation on SSH and a move to SSL rewrite the newest frame.
LEMMA RewriteFrames ==
    ASSUME NEW s \in StackRecords, NEW v \in Words, s.ptr > 0
    PROVE  /\ FramesOf(write_ssh_tos(s, v)) = [FramesOf(s) EXCEPT ![s.ptr] = <<v, s.lo[s.ptr]>>]
           /\ FramesOf(write_ssl(s, v)) = [FramesOf(s) EXCEPT ![s.ptr] = <<s.hi[s.ptr], v>>]
           /\ s.hi[s.ptr] \in Words /\ s.lo[s.ptr] \in Words
           /\ write_ssh_tos(s, v).se = s.se
<1>1. s.ptr \in Nat /\ s.ptr \in Slots /\ 1 .. s.ptr \subseteq Slots
  BY DEF StackRecords, Slots
<1>2. s.hi \in [Slots -> Words] /\ s.lo \in [Slots -> Words]
  BY DEF StackRecords
<1>. DEFINE a == write_ssh_tos(s, v)  b == write_ssl(s, v)
<1>3. a.ptr = s.ptr /\ a.hi = [s.hi EXCEPT ![s.ptr] = v] /\ a.lo = s.lo /\ a.se = s.se
  <2>1. a = [s EXCEPT !.hi[s.ptr] = v, !.ssh = v]
    BY <1>1 DEF write_ssh_tos
  <2>. HIDE DEF a
  <2>. QED BY <2>1 DEF StackRecords
<1>4. b.ptr = s.ptr /\ b.hi = s.hi /\ b.lo = [s.lo EXCEPT ![s.ptr] = v]
  BY DEF write_ssl, StackRecords
<1>. HIDE DEF a, b
<1>5. FramesOf(a) = [FramesOf(s) EXCEPT ![s.ptr] = <<v, s.lo[s.ptr]>>]
  BY <1>1, <1>2, <1>3 DEF FramesOf
<1>6. FramesOf(b) = [FramesOf(s) EXCEPT ![s.ptr] = <<s.hi[s.ptr], v>>]
  BY <1>1, <1>2, <1>4 DEF FramesOf
<1>. QED BY <1>1, <1>2, <1>3, <1>5, <1>6 DEF a, b

\* Once an error is latched or SP was written, whatever moves frames is the
\* abstract Limp.
LEMMA LimpStep ==
    ASSUME IInv', moved' = moved, AbsStatus # "ok", stk.se => stk'.se
    PROVE  Abs!Next
<1>1. AbsStatus' = AbsStatus /\ AbsFrames' = << >>
  BY DEF AbsStatus, AbsFrames
<1>2. out' \in Words \X Words
  BY DEF IInv, TypeOK
<1>. QED BY <1>1, <1>2 DEF Abs!Next, Abs!Limp

\* The step that latches the error: the stack was full or empty, up to the
\* two frames one instruction moves.
LEMMA FailStep ==
    ASSUME IInv, IInv', moved' = moved, AbsStatus = "ok", stk'.se,
           stk.ptr + 1 >= Depth - 1 \/ stk.ptr <= 1
    PROVE  Abs!Next
<1>1. AbsStatus' = "failed" /\ AbsFrames' = << >> /\ AbsFrames = FramesOf(stk)
  BY DEF AbsStatus, AbsFrames, FramesOf
<1>2. out' \in Words \X Words /\ Len(AbsFrames) = stk.ptr
  BY <1>1, FramesAreSeq DEF IInv, TypeOK
<1>. QED BY <1>1, <1>2 DEF Abs!Next, Abs!Fail

\* While the stack is intact its frames are those of the record.
LEMMA IntactFrames ==
    ASSUME IInv, AbsStatus = "ok", moved' = moved, ~stk'.se
    PROVE  /\ AbsStatus' = "ok" /\ AbsFrames = FramesOf(stk) /\ AbsFrames' = FramesOf(stk')
           /\ ~moved /\ ~stk.se /\ Len(AbsFrames) = stk.ptr
           /\ AbsFrames \in Seq(Words \X Words) /\ stk.ptr \in Nat
<1>1. AbsStatus' = "ok" /\ ~moved /\ ~stk.se
  BY DEF AbsStatus
<1>2. AbsFrames = FramesOf(stk) /\ AbsFrames' = FramesOf(stk')
  BY <1>1 DEF AbsFrames, FramesOf
<1>. QED BY <1>1, <1>2, FramesAreSeq DEF IInv, TypeOK

\* A push by any of the three implementations.
LEMMA PushStep ==
    ASSUME IInv, IInv', UNCHANGED <<out, moved>>, NEW h \in Words, NEW l \in Words,
           stk' = stack_push(stk, h, l) \/ stk' = write_ssh(stk, h)
    PROVE  Abs!Next
<1>0. stk \in StackRecords /\ stk.se \in BOOLEAN /\ stk.ptr \in 0 .. Depth - 1
  BY DEF IInv, TypeOK, StackRecords, Slots
<1>1. stk'.se = (stk.se \/ PushFaults(stk))
  BY <1>0, PushLatch
<1>2. CASE AbsStatus # "ok"
  BY <1>1, <1>2, LimpStep
<1>3. CASE AbsStatus = "ok" /\ stk'.se
  <2>1. stk.ptr = Depth - 1
    BY <1>0, <1>1, <1>3 DEF PushFaults, AbsStatus
  <2>. QED BY <1>0, <1>3, <2>1, FailStep
<1>4. CASE AbsStatus = "ok" /\ ~stk'.se
  <2>1. /\ AbsStatus' = "ok" /\ AbsFrames = FramesOf(stk) /\ AbsFrames' = FramesOf(stk')
        /\ ~stk.se /\ Len(AbsFrames) = stk.ptr
    BY <1>4, IntactFrames
  <2>2. stk.ptr < Depth - 1
    <3>1. ~PushFaults(stk)
      BY <1>1, <1>4
    <3>. QED BY <1>0, <2>1, <3>1 DEF PushFaults
  <2>3. PICK f \in Words \X Words : FramesOf(stk') = Append(FramesOf(stk), f)
    <3>1. /\ stk.lo[stk.ptr + 1] \in Words
          /\ \/ FramesOf(stk') = Append(FramesOf(stk), <<h, l>>)
             \/ FramesOf(stk') = Append(FramesOf(stk), <<h, stk.lo[stk.ptr + 1]>>)
      BY <1>0, <2>2, PushFrames
    <3>2. <<h, l>> \in Words \X Words /\ <<h, stk.lo[stk.ptr + 1]>> \in Words \X Words
      BY <3>1
    <3>. QED BY <3>1, <3>2
  <2>4. Abs!Push(f)
    BY <1>4, <2>1, <2>2, <2>3 DEF Abs!Push
  <2>. QED BY <2>4 DEF Abs!Next
<1>. QED BY <1>2, <1>3, <1>4

\* A pop by any of them.
LEMMA PopStep ==
    ASSUME IInv, IInv', moved' = moved, stk' = stack_pop(stk), out' = popped(stk)
    PROVE  Abs!Next
<1>0. /\ stk \in StackRecords /\ stk.se \in BOOLEAN /\ stk.ptr \in 0 .. Depth - 1
      /\ Sound(stk)
  BY DEF IInv, TypeOK, StackRecords, Slots, MirrorsShowTop, Sound
<1>1. stk'.se = (stk.se \/ PopFaults(stk))
  BY <1>0, PopLatch
<1>2. CASE AbsStatus # "ok"
  BY <1>1, <1>2, LimpStep
<1>3. CASE AbsStatus = "ok" /\ stk'.se
  <2>1. stk.ptr = 0
    BY <1>0, <1>1, <1>3 DEF PopFaults, AbsStatus
  <2>. QED BY <1>3, <2>1, FailStep
<1>4. CASE AbsStatus = "ok" /\ ~stk'.se
  <2>1. /\ AbsStatus' = "ok" /\ AbsFrames = FramesOf(stk) /\ AbsFrames' = FramesOf(stk')
        /\ ~stk.se /\ Len(AbsFrames) = stk.ptr
    BY <1>4, IntactFrames
  <2>2. stk.ptr > 0
    <3>1. ~PopFaults(stk)
      BY <1>1, <1>4
    <3>. QED BY <1>0, <2>1, <3>1 DEF PopFaults
  <2>3. /\ AbsFrames' = SubSeq(AbsFrames, 1, stk.ptr - 1)
        /\ out' = AbsFrames[stk.ptr]
    BY <1>0, <2>1, <2>2, PopFrames
  <2>4. Abs!Pop(1)
    BY <1>0, <1>4, <2>1, <2>2, <2>3 DEF Abs!Pop
  <2>. QED BY <2>4 DEF Abs!Next
<1>. QED BY <1>2, <1>3, <1>4

\* The two pops of ENDDO and of the end of a loop.
LEMMA PopTwoStep ==
    ASSUME IInv, IInv', moved' = moved,
           stk' = stack_pop(stack_pop(stk)), out' = popped(stack_pop(stk))
    PROVE  Abs!Next
<1>. DEFINE s1 == stack_pop(stk)
<1>0. /\ stk \in StackRecords /\ stk.se \in BOOLEAN /\ stk.ptr \in 0 .. Depth - 1
      /\ Sound(stk)
  BY DEF IInv, TypeOK, StackRecords, Slots, MirrorsShowTop, Sound
<1>1. s1.se = (stk.se \/ PopFaults(stk)) /\ s1 \in StackRecords
      /\ (stk.ptr > 0 => s1.ptr = stk.ptr - 1)
  BY <1>0, PopLatch, PopSound, PopFrames DEF Sound
<1>. HIDE DEF s1
<1>2. stk'.se = (s1.se \/ PopFaults(s1))
  BY <1>1, PopLatch DEF s1
<1>3. CASE AbsStatus # "ok"
  BY <1>1, <1>2, <1>3, LimpStep
<1>4. CASE AbsStatus = "ok" /\ stk'.se
  <2>1. stk.ptr <= 1
    BY <1>0, <1>1, <1>2, <1>4 DEF PopFaults, AbsStatus
  <2>. QED BY <1>4, <2>1, FailStep
<1>5. CASE AbsStatus = "ok" /\ ~stk'.se
  <2>1. /\ AbsStatus' = "ok" /\ AbsFrames = FramesOf(stk) /\ AbsFrames' = FramesOf(stk')
        /\ ~stk.se /\ Len(AbsFrames) = stk.ptr
    BY <1>5, IntactFrames
  <2>2. stk.ptr > 1
    <3>1. ~PopFaults(stk) /\ ~PopFaults(s1) /\ ~s1.se
      BY <1>1, <1>2, <1>5
    <3>. QED BY <1>0, <1>1, <2>1, <3>1 DEF PopFaults
  <2>3. /\ AbsFrames' = SubSeq(AbsFrames, 1, stk.ptr - 2)
        /\ out' = AbsFrames[stk.ptr - 1]
    BY <1>0, <2>1, <2>2, PopTwoFrames
  <2>4. Abs!Pop(2)
    BY <1>0, <1>5, <2>1, <2>2, <2>3 DEF Abs!Pop
  <2>. QED BY <2>4 DEF Abs!Next
<1>. QED BY <1>3, <1>4, <1>5

\* The two pushes of DO.
LEMMA PushTwoStep ==
    ASSUME IInv, IInv', UNCHANGED <<out, moved>>,
           NEW f \in Words \X Words, NEW g \in Words \X Words,
           stk' = stack_push(stack_push(stk, f[1], f[2]), g[1], g[2])
    PROVE  Abs!Next
<1>. DEFINE s1 == stack_push(stk, f[1], f[2])
<1>0. /\ stk \in StackRecords /\ stk.se \in BOOLEAN /\ stk.ptr \in 0 .. Depth - 1
      /\ Sound(stk) /\ f = <<f[1], f[2]>> /\ g = <<g[1], g[2]>>
      /\ f[1] \in Words /\ f[2] \in Words /\ g[1] \in Words /\ g[2] \in Words
  BY DEF IInv, TypeOK, StackRecords, Slots, MirrorsShowTop, Sound
<1>1. s1.se = (stk.se \/ PushFaults(stk)) /\ s1 \in StackRecords
      /\ (stk.ptr < Depth - 1 => /\ s1.ptr = stk.ptr + 1
                                 /\ FramesOf(s1) = Append(FramesOf(stk), f))
  <2>1. s1.se = (stk.se \/ PushFaults(stk))
    BY <1>0, PushLatch
  <2>2. s1 \in StackRecords
    BY <1>0, PushSound DEF Sound
  <2>3. ASSUME stk.ptr < Depth - 1
        PROVE  s1.ptr = stk.ptr + 1 /\ FramesOf(s1) = Append(FramesOf(stk), <<f[1], f[2]>>)
    BY <1>0, <2>3, PushFrames
  <2>. HIDE DEF s1
  <2>. QED BY <1>0, <2>1, <2>2, <2>3
<1>. HIDE DEF s1
<1>2. stk'.se = (s1.se \/ PushFaults(s1))
  BY <1>1, PushLatch DEF s1
<1>3. CASE AbsStatus # "ok"
  BY <1>1, <1>2, <1>3, LimpStep
<1>4. CASE AbsStatus = "ok" /\ stk'.se
  <2>1. stk.ptr + 1 >= Depth - 1
    BY <1>0, <1>1, <1>2, <1>4 DEF PushFaults, AbsStatus
  <2>. QED BY <1>4, <2>1, FailStep
<1>5. CASE AbsStatus = "ok" /\ ~stk'.se
  <2>1. /\ AbsStatus' = "ok" /\ AbsFrames = FramesOf(stk) /\ AbsFrames' = FramesOf(stk')
        /\ ~stk.se /\ Len(AbsFrames) = stk.ptr /\ AbsFrames \in Seq(Words \X Words)
    BY <1>5, IntactFrames
  <2>2. stk.ptr + 1 < Depth - 1
    <3>1. ~PushFaults(stk) /\ ~PushFaults(s1) /\ ~s1.se
      BY <1>1, <1>2, <1>5
    <3>. QED BY <1>0, <1>1, <2>1, <3>1 DEF PushFaults
  <2>3. AbsFrames' = Append(FramesOf(s1), g)
    <3>1. s1.ptr < Depth - 1 /\ stk' = stack_push(s1, g[1], g[2])
      BY <1>0, <1>1, <2>2 DEF s1
    <3>2. FramesOf(stk') = Append(FramesOf(s1), <<g[1], g[2]>>)
      BY <1>0, <1>1, <3>1, PushFrames
    <3>. QED BY <1>0, <2>1, <3>2
  <2>4. AbsFrames' = Append(Append(AbsFrames, f), g)
    BY <1>0, <1>1, <2>1, <2>2, <2>3
  <2>5. Append(Append(AbsFrames, f), g) = AbsFrames \o <<f, g>>
    BY <2>1
  <2>6. Abs!PushTwo(f, g)
    BY <1>0, <1>5, <2>1, <2>2, <2>4, <2>5 DEF Abs!PushTwo
  <2>. QED BY <2>6 DEF Abs!Next
<1>. QED BY <1>3, <1>4, <1>5

\* A bit operation on SSH.
LEMMA BitOpStep ==
    ASSUME IInv, IInv', NEW v \in Words, BitOpSSH(v)
    PROVE  Abs!Next
<1>0. /\ stk \in StackRecords /\ stk.se \in BOOLEAN /\ stk.ptr \in 0 .. Depth - 1
      /\ stk' = write_ssh_tos(stk, v) /\ moved' = moved /\ out' = out
  BY DEF IInv, TypeOK, StackRecords, Slots, BitOpSSH
<1>1. stk'.se = (stk.se \/ TosFaults(stk))
  BY <1>0, PopLatch
<1>2. CASE AbsStatus # "ok"
  BY <1>0, <1>1, <1>2, LimpStep
<1>3. CASE AbsStatus = "ok" /\ stk'.se
  <2>1. stk.ptr = 0
    BY <1>0, <1>1, <1>3 DEF TosFaults, AbsStatus
  <2>. QED BY <1>0, <1>3, <2>1, FailStep
<1>4. CASE AbsStatus = "ok" /\ ~stk'.se
  <2>1. /\ AbsStatus' = "ok" /\ AbsFrames = FramesOf(stk) /\ AbsFrames' = FramesOf(stk')
        /\ ~stk.se /\ Len(AbsFrames) = stk.ptr
    BY <1>0, <1>4, IntactFrames
  <2>2. stk.ptr > 0
    <3>1. ~TosFaults(stk)
      BY <1>1, <1>4
    <3>. QED BY <1>0, <2>1, <3>1 DEF TosFaults
  <2>3. PICK f \in Words \X Words : AbsFrames' = [AbsFrames EXCEPT ![stk.ptr] = f]
    <3>1. /\ FramesOf(stk') = [FramesOf(stk) EXCEPT ![stk.ptr] = <<v, stk.lo[stk.ptr]>>]
          /\ stk.lo[stk.ptr] \in Words
      BY <1>0, <2>2, RewriteFrames
    <3>2. <<v, stk.lo[stk.ptr]>> \in Words \X Words
      BY <3>1
    <3>. QED BY <2>1, <3>1, <3>2
  <2>4. Abs!Rewrite(f)
    BY <1>0, <1>4, <2>1, <2>2, <2>3 DEF Abs!Rewrite
  <2>. QED BY <2>4 DEF Abs!Next
<1>. QED BY <1>2, <1>3, <1>4

\* A move to SSL: at pointer 0 it writes slot 0, which holds no frame.
LEMMA SslStep ==
    ASSUME IInv, IInv', NEW v \in Words, MoveToSSL(v)
    PROVE  [Abs!Next]_(Abs!vars)
<1>0. /\ stk \in StackRecords /\ stk.se \in BOOLEAN /\ stk.ptr \in 0 .. Depth - 1
      /\ stk' = write_ssl(stk, v) /\ moved' = moved /\ out' = out
  BY DEF IInv, TypeOK, StackRecords, Slots, MoveToSSL
<1>1. stk'.se = stk.se
  BY <1>0, PushLatch
<1>2. CASE AbsStatus # "ok"
  BY <1>0, <1>1, <1>2, LimpStep
<1>3. CASE AbsStatus = "ok"
  <2>1. /\ AbsStatus' = "ok" /\ AbsFrames = FramesOf(stk) /\ AbsFrames' = FramesOf(stk')
        /\ ~stk.se /\ Len(AbsFrames) = stk.ptr
    BY <1>0, <1>1, <1>3, IntactFrames DEF AbsStatus
  <2>2. CASE stk.ptr = 0
    <3>1. stk'.ptr = 0
      BY <1>0, <2>2 DEF write_ssl, StackRecords
    <3>2. AbsFrames' = AbsFrames
      BY <2>1, <2>2, <3>1 DEF FramesOf
    <3>. QED BY <1>0, <1>3, <2>1, <3>2 DEF Abs!vars
  <2>3. CASE stk.ptr > 0
    <3>1. PICK f \in Words \X Words : AbsFrames' = [AbsFrames EXCEPT ![stk.ptr] = f]
      <4>1. /\ FramesOf(stk') = [FramesOf(stk) EXCEPT ![stk.ptr] = <<stk.hi[stk.ptr], v>>]
            /\ stk.hi[stk.ptr] \in Words
        BY <1>0, <2>3, RewriteFrames
      <4>2. <<stk.hi[stk.ptr], v>> \in Words \X Words
        BY <4>1
      <4>. QED BY <2>1, <4>1, <4>2
    <3>2. Abs!Rewrite(f)
      BY <1>0, <1>3, <2>1, <2>3, <3>1 DEF Abs!Rewrite
    <3>. QED BY <3>2 DEF Abs!Next
  <2>. QED BY <1>0, <2>2, <2>3
<1>. QED BY <1>2, <1>3

\* Every step of the program is a step of the bounded stack or leaves it alone.
LEMMA NextRefines == IInv /\ IInv' /\ [Next]_vars => [Abs!Next]_(Abs!vars)
<1>. SUFFICES ASSUME IInv, IInv', [Next]_vars PROVE [Abs!Next]_(Abs!vars)
  OBVIOUS
<1>0. Sound(stk)
  BY DEF IInv, TypeOK, MirrorsShowTop, Sound
<1>1. ASSUME NEW v \in Words, MoveToSSH(v) PROVE Abs!Next
  <2>1. stk' = write_ssh(stk, v) /\ UNCHANGED <<out, moved>>
    BY <1>1 DEF MoveToSSH
  <2>. QED BY <2>1, PushStep
<1>2. ASSUME MoveFromSSH PROVE Abs!Next
  BY <1>2, PopStep DEF MoveFromSSH
<1>3. ASSUME NEW v \in Words, BitOpSSH(v) PROVE Abs!Next
  BY <1>3, BitOpStep
<1>4. ASSUME NEW v \in Words, MoveToSSL(v) PROVE [Abs!Next]_(Abs!vars)
  BY <1>4, SslStep
<1>5. ASSUME NEW v \in SpValues, MoveToSP(v) PROVE Abs!Next
  <2>1. moved' /\ out' = out
    BY <1>5 DEF MoveToSP
  <2>2. AbsStatus' = "moved" /\ AbsFrames' = << >>
    BY <2>1 DEF AbsStatus, AbsFrames
  <2>. QED BY <2>1, <2>2 DEF Abs!Next, Abs!GuestWritesSp
<1>6. ASSUME NEW f \in Pairs, CallSubroutine(f) \/ InterruptFrame(f) PROVE Abs!Next
  <2>1. f[1] \in Words /\ f[2] \in Words
    BY ZeroAssumption
  <2>2. stk' = stack_push(stk, f[1], f[2]) /\ UNCHANGED <<out, moved>>
    BY <1>0, <1>6, <2>1, InlineMatches DEF CallSubroutine, InterruptFrame
  <2>. QED BY <2>1, <2>2, PushStep
<1>7. ASSUME Return PROVE Abs!Next
  <2>1. stk' = stack_pop(stk) /\ out' = popped(stk) /\ moved' = moved
    BY <1>0, <1>7, InlineMatches DEF Return
  <2>. QED BY <2>1, PopStep
<1>8. ASSUME NEW f \in Pairs, NEW g \in Pairs, Do(f, g) PROVE Abs!Next
  <2>1. f \in Words \X Words /\ g \in Words \X Words
    BY ZeroAssumption
  <2>2. f[1] \in Words /\ f[2] \in Words /\ g[1] \in Words /\ g[2] \in Words
    BY <2>1
  <2>. DEFINE s1 == stack_push(stk, f[1], f[2])
  <2>3. inline_push(stk, f[1], f[2]) = s1 /\ Sound(s1)
    BY <1>0, <2>2, InlineMatches, PushSound
  <2>4. UNCHANGED <<out, moved>> /\ stk' = inline_push(inline_push(stk, f[1], f[2]), g[1], g[2])
    BY <1>8 DEF Do
  <2>. HIDE DEF s1
  <2>5. stk' = stack_push(s1, g[1], g[2])
    BY <2>2, <2>3, <2>4, InlineMatches
  <2>. QED BY <2>1, <2>4, <2>5, PushTwoStep DEF s1
<1>9. ASSUME EndDo \/ LoopEnd PROVE Abs!Next
  <2>. DEFINE s1 == stack_pop(stk)
  <2>1. inline_pop(stk) = s1 /\ Sound(s1)
    BY <1>0, InlineMatches, PopSound
  <2>2. /\ moved' = moved
        /\ stk' \in {inline_pop(inline_pop(stk)), stack_pop(s1)}
        /\ out' \in {inline_popped(inline_pop(stk)), popped(s1)}
    BY <1>9, <2>1 DEF EndDo, LoopEnd
  <2>. HIDE DEF s1
  <2>3. stk' = stack_pop(s1) /\ out' = popped(s1)
    BY <2>1, <2>2, InlineMatches
  <2>. QED BY <2>2, <2>3, PopTwoStep DEF s1
<1>10. ASSUME Deliver \/ UNCHANGED vars \/ \E v \in ScValues : MoveToSC(v)
       PROVE  UNCHANGED Abs!vars
  <2>1. /\ out' = out /\ moved' = moved /\ stk'.ptr = stk.ptr /\ stk'.se = stk.se
        /\ stk'.hi = stk.hi /\ stk'.lo = stk.lo
    BY <1>0, <1>10, ScAssumption, ScWriteSound DEF Deliver, MoveToSC, vars
  <2>2. AbsStatus' = AbsStatus
    BY <2>1 DEF AbsStatus
  <2>3. AbsFrames' = AbsFrames
    BY <2>1, <2>2 DEF AbsFrames
  <2>. QED BY <2>1, <2>2, <2>3 DEF Abs!vars
<1>. QED BY <1>1, <1>2, <1>3, <1>4, <1>5, <1>6, <1>7, <1>8, <1>9, <1>10 DEF Next

\* The program starts with no frames.
LEMMA InitRefines == Init => Abs!Init
<1>. SUFFICES ASSUME Init PROVE Abs!Init
  OBVIOUS
<1>1. stk.ptr = 0 /\ ~stk.se /\ ~moved /\ out \in Words \X Words
  BY ZeroAssumption DEF Init, EmptyStack
<1>2. AbsStatus = "ok"
  BY <1>1 DEF AbsStatus
<1>3. AbsFrames = << >>
  BY <1>1, <1>2 DEF AbsFrames
<1>. QED BY <1>1, <1>2, <1>3 DEF Abs!Init

\* The hardware stack, in all three of its implementations, is a LIFO stack of
\* Depth - 1 frames until an error is latched or the guest writes SP.
THEOREM StackRefinement == Spec => ImplementsBoundedStack
<1>1. IInv /\ IInv' /\ [Next]_vars => [Abs!Next]_(Abs!vars)
  BY NextRefines
<1>2. Init => Abs!Init
  BY InitRefines
<1>. QED BY <1>1, <1>2, StackInvariant, PTL DEF Spec, ImplementsBoundedStack, Abs!Spec

===============================================================================
