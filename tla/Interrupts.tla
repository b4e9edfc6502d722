------------------------------ MODULE Interrupts ------------------------------
(***************************************************************************)
(* Interrupts and core faults: the pipeline of InterruptPipeline (core.rs) *)
(* driven by the run loop and the single-step path of jit.rs, over a small *)
(* program.  The machine is one record m, so that the code's sequence      *)
(*      execute ; advance_pc ; process_pending_interrupts                  *)
(* is a composition of operators; its fields are                           *)
(*   pc, adv        pc and pc_advance                                      *)
(*   ipl            the mask bits I1 I0 of SR                              *)
(*   stk, hint      the hardware stack (StackOps) and fault_budget_hint    *)
(*   rep, onrep, lc loop_rep, pc_on_rep, LC                                *)
(*   power          power_state                                           *)
(*   st, stage, vec, saved, raise, pending, budget, countdown, spw         *)
(*                  the fields of InterruptPipeline                        *)
(* and, as history, frames: the return addresses a correct program expects *)
(* on the stack; levels: the priorities of the long handlers in progress;  *)
(* owed: the sources dispatched but not yet vectored; frame: the interrupt *)
(* in flight has stacked a frame.                                          *)
(*                                                                         *)
(* An instruction is [op, len, arg].  The values of data registers do not  *)
(* matter here: every instruction that does not touch the pipeline, the    *)
(* stack or the PC is "plain".                                             *)
(***************************************************************************)
EXTENDS StackOps, Sequences, FiniteSets

CONSTANTS Size,        \* words of program memory; mask_pc is modulo Size
          Codes,       \* the programs considered
          StackError, Illegal, Trap,   \* the core faults
          Sources,     \* all interrupt sources; the index orders them
          Ipl,         \* InterruptPipeline::ipl, set up by the host
          MaxPosts     \* bound: interrupts the peripherals post

Addrs == 0 .. Size - 1
mask_pc(a) == a % Size
CoreFaults == {StackError, Illegal, Trap}
Ops == {"plain", "jmp", "jsr", "jscc", "rts", "rti", "fault", "wait", "stop",
        "rep", "mask", "spwrite", "pop"}

ASSUME CodeAssumption ==
    /\ Size \in Nat \ {0} /\ MaxPosts \in Nat
    /\ \A c \in Codes : \A a \in Addrs :
           /\ c[a].op \in Ops /\ c[a].len \in {1, 2}
           /\ c[a].op \in {"jmp", "jsr", "jscc"} => c[a].arg \in Addrs
           /\ c[a].op = "fault" => c[a].arg \in CoreFaults
           /\ c[a].op = "mask" => c[a].arg \in 0 .. 3
           /\ c[a].op = "spwrite" => c[a].arg \in Slots
           /\ c[a].op = "rep" => /\ c[a].len = 1 /\ c[a].arg \in Nat
                                /\ c[mask_pc(a + 1)].op \in {"plain", "pop"}
ASSUME SourceAssumption ==
    /\ Sources \subseteq Nat /\ IsFiniteSet(Sources) /\ CoreFaults \subseteq Sources
    /\ \A i \in Sources : 2 * i + 1 \in Addrs /\ Ipl[i] \in 0 .. 3
    /\ \A i \in CoreFaults : Ipl[i] = 3

VARIABLES code,     \* the program in P memory
          m,        \* the machine
          inblock,  \* the run loop is inside a compiled block
          posts     \* interrupts posted so far

vars == <<code, m, inblock, posts>>

vector_addr(i) == 2 * i          \* VBA is 0
None == -1                       \* 0xFFFF in saved_pc, INVALID_FAULT_BUDGET
Least(S) == CHOOSE i \in S : \A j \in S : i <= j
Lesser(a, b) == IF a <= b THEN a ELSE b
Greater(a, b) == IF a >= b THEN a ELSE b

Machine ==
    [pc |-> 0, adv |-> 0, ipl |-> 0, stk |-> EmptyStack(0), hint |-> None,
     rep |-> FALSE, onrep |-> FALSE, lc |-> 0, power |-> "Normal",
     st |-> "None", stage |-> 0, vec |-> None, saved |-> None, raise |-> 0,
     pending |-> {}, budget |-> None, countdown |-> 0, spw |-> FALSE,
     frames |-> << >>, levels |-> << >>, owed |-> {}, frame |-> FALSE]

\* The host may start the program with any interrupt mask.
Init == /\ code \in Codes
        /\ \E l \in 0 .. 3 : m = [Machine EXCEPT !.ipl = l]
        /\ inblock = FALSE
        /\ posts = 0

-------------------------------------------------------------------------------
(* detect_long_interrupt and the deliveries.                              *)

IsLong(i) == i.op \in {"jsr", "jscc"}

\* History: what the stack should hold is only known until an error is
\* latched or the guest moves SP; "lost" is then left in its place.
Lost == <<None>>
Expect(x, fs) == IF x.stk.se \/ x.frames = Lost THEN Lost ELSE fs

\* Mutated: the mask is not raised.
DetectLongNoMask(x, c) ==
    IF IsLong(c[x.pc]) /\ x.st # "Long"
    THEN LET faults == PushFaults(x.stk) IN
         [x EXCEPT !.st = "Long", !.frame = TRUE,
                   !.stk = stack_push(@, x.saved, x.ipl),
                   !.pending = IF faults THEN @ \cup {StackError} ELSE @,
                   !.budget = IF faults THEN x.hint ELSE @,
                   !.hint = IF faults THEN None ELSE @,
                   !.frames = IF faults THEN Lost ELSE Expect(x, Append(@, x.saved)),
                   !.levels = Append(@, x.raise)]
    ELSE x

\* A JSR at the vector stacks the frame itself and raises the mask; the
\* push is the DspState method, which consumes whatever hint is there.
DetectLong(x, c) ==
    IF IsLong(c[x.pc]) /\ x.st # "Long"
    THEN LET faults == PushFaults(x.stk) IN
         [x EXCEPT !.st = "Long", !.ipl = x.raise, !.frame = TRUE,
                   !.stk = stack_push(@, x.saved, x.ipl),
                   !.pending = IF faults THEN @ \cup {StackError} ELSE @,
                   !.budget = IF faults THEN x.hint ELSE @,
                   !.hint = IF faults THEN None ELSE @,
                   !.frames = IF faults THEN Lost ELSE Expect(x, Append(@, x.saved)),
                   !.levels = Append(@, x.raise)]
    ELSE x

\* Pipeline stage 4: save the PC, fetch the vector.
FetchVector(x, c) ==
    DetectLong([x EXCEPT !.saved = x.pc, !.pc = x.vec, !.frame = FALSE,
                         !.owed = @ \ {i \in Sources : vector_addr(i) = x.vec}], c)

\* Mutated: delivery leaves the consumed budget behind.
DeliverArmedKeepsBudget(x, c) ==
    [FetchVector([x EXCEPT !.st = "Fast"], c) EXCEPT !.stage = 3]

DeliverArmed(x, c) ==
    [FetchVector([x EXCEPT !.st = "Fast", !.budget = None], c) EXCEPT !.stage = 3]

DeliverParked(x, c) ==
    LET ready == {i \in x.pending : Ipl[i] = 3}
        idx == Least(ready)
    IN IF ready = {} THEN [x EXCEPT !.st = "None"]
       ELSE DeliverArmed([x EXCEPT !.pending = @ \ {idx}, !.vec = vector_addr(idx),
                                   !.raise = 3, !.owed = @ \cup {idx}], c)

-------------------------------------------------------------------------------
(* process_pending_interrupts.                                            *)

\* Mutated: a source of the level of the mask is masked.
ArbitrateStrict(x) ==
    LET top == {i \in x.pending : Ipl[i] = 3}
        open == {i \in x.pending : Ipl[i] > x.ipl}
        best == {i \in open : \A j \in open : Ipl[j] <= Ipl[i]}
    IN IF top # {} THEN Least(top) ELSE IF best # {} THEN Least(best) ELSE None

\* The source arbitration picks, None when every pending one is masked: the
\* first level-3 source, else the first of the highest unmasked level.
Arbitrate(x) ==
    LET top == {i \in x.pending : Ipl[i] = 3}
        open == {i \in x.pending : Ipl[i] >= x.ipl}
        best == {i \in open : \A j \in open : Ipl[j] <= Ipl[i]}
    IN IF top # {} THEN Least(top) ELSE IF best # {} THEN Least(best) ELSE None

\* Take the source off the pending set and start its pipeline; a core fault
\* with a shadow budget is armed instead.
Dispatch(x) ==
    LET idx == Arbitrate(x) IN
    IF idx = None THEN x
    ELSE LET y == [x EXCEPT !.pending = @ \ {idx}, !.vec = vector_addr(idx),
                            !.raise = Lesser(Ipl[idx] + 1, 3), !.owed = @ \cup {idx}]
         IN IF idx \in CoreFaults /\ x.budget # None
            THEN [y EXCEPT !.st = "Armed"]
            ELSE [y EXCEPT !.st = "Fast", !.stage = 5]

\* Mutated: the note of an SP write stays set.
TickParkedNoted(x, c) ==
    LET n == IF x.countdown > 0 THEN x.countdown - 1 ELSE 0
        d == IF x.spw THEN Greater(n, 3) ELSE n
        y == [x EXCEPT !.countdown = d]
    IN IF d = 0 THEN DeliverParked(y, c) ELSE y

\* One tick of the countdown of a parked fault.
TickParked(x, c) ==
    LET n == IF x.countdown > 0 THEN x.countdown - 1 ELSE 0
        d == IF x.spw THEN Greater(n, 3) ELSE n
        y == [x EXCEPT !.countdown = d, !.spw = FALSE]
    IN IF d = 0 THEN DeliverParked(y, c) ELSE y

\* Mutated: the restore of stage 2 expects the PC one word early.
TickFastEarly(x, c) ==
    CASE x.stage \in {5, 1} -> [x EXCEPT !.stage = @ - 1]
      [] x.stage = 4 -> [FetchVector(x, c) EXCEPT !.stage = 3]
      [] x.stage = 3 -> [(IF x.pc = mask_pc(x.vec + 1) THEN DetectLong(x, c) ELSE x)
                            EXCEPT !.stage = 2]
      [] x.stage = 2 -> [x EXCEPT !.pc = IF x.pc = mask_pc(x.vec + 1) THEN x.saved ELSE @,
                                  !.stage = 1]
      [] OTHER -> LET y == [x EXCEPT !.saved = None, !.vec = None] IN
                  IF x.pending \cap CoreFaults # {}
                  THEN [y EXCEPT !.st = "Parked", !.countdown = 3, !.spw = FALSE]
                  ELSE Dispatch([y EXCEPT !.st = "None"])

\* One tick of the pipeline of an interrupt in flight; stage 0 completes it.
TickFast(x, c) ==
    CASE x.stage \in {5, 1} -> [x EXCEPT !.stage = @ - 1]
      [] x.stage = 4 -> [FetchVector(x, c) EXCEPT !.stage = 3]
      [] x.stage = 3 -> [(IF x.pc = mask_pc(x.vec + 1) THEN DetectLong(x, c) ELSE x)
                            EXCEPT !.stage = 2]
      [] x.stage = 2 -> [x EXCEPT !.pc = IF x.pc = mask_pc(x.vec + 2) THEN x.saved ELSE @,
                                  !.stage = 1]
      [] OTHER -> LET y == [x EXCEPT !.saved = None, !.vec = None] IN
                  IF x.pending \cap CoreFaults # {}
                  THEN [y EXCEPT !.st = "Parked", !.countdown = 3, !.spw = FALSE]
                  ELSE Dispatch([y EXCEPT !.st = "None"])

\* Mutated: arbitration runs over an armed fault.
ProcessPendingOverArmed(x, c) ==
    CASE x.rep -> x
      [] ~x.rep /\ x.st = "Fast" -> TickFast(x, c)
      [] ~x.rep /\ x.st = "Parked" -> TickParked(x, c)
      [] OTHER -> Dispatch(x)

\* process_pending_interrupts: nothing during a REP or an armed window.
ProcessPending(x, c) ==
    CASE x.rep -> x
      [] ~x.rep /\ x.st = "Fast" -> TickFast(x, c)
      [] ~x.rep /\ x.st = "Parked" -> TickParked(x, c)
      [] ~x.rep /\ x.st = "Armed" -> x
      [] OTHER -> Dispatch(x)
-------------------------------------------------------------------------------
(* One instruction.  taken decides a conditional JSR or TRAPcc.           *)

AtVector(x) == x.st \in {"Fast", "Long"} /\ x.pc \in {x.vec, mask_pc(x.vec + 1)}

\* Mutated: the JSR at the vector pushes again.
ExecJsrAlwaysPushes(x, i) ==
    LET ret == mask_pc(x.pc + i.len)
        faults == PushFaults(x.stk)
    IN [x EXCEPT !.adv = 0, !.pc = i.arg, !.st = IF @ = "Long" THEN "Fast" ELSE @,
                 !.frames = IF AtVector(x) THEN @
                            ELSE IF faults THEN Lost ELSE Expect(x, Append(@, ret)),
                 !.stk = inline_push(@, ret, x.ipl),
                 !.pending = IF faults THEN @ \cup {StackError} ELSE @,
                 !.budget = IF faults THEN 9 - i.len ELSE @]

\* The JSR family: emit_interrupt_aware_stack_push skips the push when the
\* pipeline has stacked the frame already.  History expects a return address
\* of every JSR except the one at the vector.
ExecJsr(x, i) ==
    LET ret == mask_pc(x.pc + i.len)
        faults == PushFaults(x.stk)
        y == [x EXCEPT !.adv = 0, !.pc = i.arg,
                       !.frames = IF AtVector(x) THEN @
                                  ELSE IF faults THEN Lost ELSE Expect(x, Append(@, ret))]
    IN IF x.st = "Long" THEN [y EXCEPT !.st = "Fast"]
       ELSE [y EXCEPT !.stk = inline_push(@, ret, x.ipl),
                      !.pending = IF faults THEN @ \cup {StackError} ELSE @,
                      !.budget = IF faults THEN 9 - i.len ELSE @]

ExpectPop(x) == IF PopFaults(x.stk) \/ x.frames = << >> THEN Lost
                ELSE Expect(x, SubSeq(x.frames, 1, Len(x.frames) - 1))

\* RTS and RTI: the inlined pop, budget 3 - len.
ExecReturn(x, i) ==
    LET faults == PopFaults(x.stk)
        top == inline_popped(x.stk)
        y == [x EXCEPT !.adv = 0, !.pc = mask_pc(top[1]), !.stk = inline_pop(@),
                       !.pending = IF faults THEN @ \cup {StackError} ELSE @,
                       !.budget = IF faults THEN 2 ELSE @,
                       !.frames = ExpectPop(x)]
    IN IF i.op = "rts" THEN y
       ELSE [y EXCEPT !.ipl = top[2] % 4,
                      !.levels = IF @ = << >> THEN @ ELSE SubSeq(@, 1, Len(@) - 1)]

\* A read of SSH: the helper pop, with its budget spilled first.
ExecPop(x) ==
    LET faults == PopFaults(x.stk) IN
    [x EXCEPT !.stk = stack_pop(@),
              !.pending = IF faults THEN @ \cup {StackError} ELSE @,
              !.budget = IF faults THEN 6 ELSE @,
              !.hint = IF faults THEN None ELSE 6,
              !.frames = ExpectPop(x)]

\* A write of SP that clears the error bits (jit_write_sp); writing 0
\* abandons every frame and handler.
ExecSpWrite(x, i) ==
    [x EXCEPT !.stk = write_sp(@, i.arg, FALSE, FALSE), !.hint = 6 - i.len,
              !.spw = @ \/ x.st = "Parked",
              !.frames = IF i.arg = 0 THEN << >>
                         ELSE IF @ = Lost \/ Len(@) < i.arg THEN Lost
                         ELSE SubSeq(@, 1, i.arg),
              !.levels = IF i.arg = 0 THEN << >> ELSE @]

Exec(x, c, taken) ==
    LET i == c[x.pc]
        y == [x EXCEPT !.adv = i.len]
    IN CASE i.op = "plain" -> y
         [] i.op = "jmp" -> [y EXCEPT !.adv = 0, !.pc = i.arg]
         [] i.op = "jsr" \/ (i.op = "jscc" /\ taken) -> ExecJsr(y, i)
         [] i.op = "jscc" /\ ~taken -> y
         [] i.op \in {"rts", "rti"} -> ExecReturn(y, i)
         [] i.op = "fault" -> [y EXCEPT !.pending = @ \cup {i.arg}, !.budget = 0]
         [] i.op = "wait" -> [y EXCEPT !.power = "Wait"]
         [] i.op = "stop" -> [y EXCEPT !.power = "Stop"]
         [] i.op = "rep" -> [y EXCEPT !.rep = TRUE, !.onrep = TRUE, !.lc = i.arg]
         [] i.op = "mask" -> [y EXCEPT !.ipl = i.arg]
         [] i.op = "spwrite" -> ExecSpWrite(y, i)
         [] i.op = "pop" -> ExecPop(y)

-------------------------------------------------------------------------------
(* advance_pc: the REP bookkeeping and the PC.  (DO loops: see the README.)*)

\* A REP retiring in an armed window leaves at most one more stream word.
TruncateArmedWindow(x) ==
    IF x.st = "Armed" THEN [x EXCEPT !.budget = Lesser(@, 1)] ELSE x

RepStep(x) ==
    IF ~x.rep THEN x
    ELSE IF x.onrep
    THEN IF x.lc = 0
         THEN TruncateArmedWindow([x EXCEPT !.rep = FALSE, !.onrep = FALSE, !.adv = @ + 1])
         ELSE [x EXCEPT !.onrep = FALSE]
    ELSE IF x.lc > 1 THEN [x EXCEPT !.lc = @ - 1, !.adv = 0]
    ELSE TruncateArmedWindow([x EXCEPT !.lc = 0, !.rep = FALSE])

AdvancePc(x) == LET y == RepStep(x) IN [y EXCEPT !.pc = mask_pc(@ + y.adv)]

-------------------------------------------------------------------------------
(* The step path (step_one) and the block path of run.                    *)

Cost(i) == IF i.op = "rep" THEN 2 ELSE i.len

\* What step_one makes of machine x: an armed fault whose window is too
\* small for the next instruction is delivered, and nothing else happens in
\* that step; otherwise the instruction runs, then advance_pc and the
\* pipeline.  (Intermediate machines are bound by quantifiers over one value,
\* which TLC evaluates once.)
StepOne(x, taken) ==
    LET i == code[x.pc]
        charged == x.st = "Armed" /\ ~x.rep
    IN IF charged /\ Cost(i) > x.budget THEN m' = DeliverArmed(x, code)
       ELSE \E w \in {IF charged THEN [x EXCEPT !.budget = @ - Cost(i)] ELSE x} :
            \E y \in {Exec(w, code, taken)} :
            \E z \in {AdvancePc(y)} : m' = ProcessPending(z, code)

MayArmStackFault(i) == i.op \in {"pop", "spwrite", "rts", "rti", "fault"}
IsBlockTerminator(i) ==
    i.op \in {"jmp", "jsr", "jscc", "rts", "rti", "fault", "wait", "stop", "pop", "spwrite"}

\* REP inside a block is a native loop, unless its target can fault: then
\* the block ends and the step path runs the repetitions.
LegacyRep(i, c, a) == i.op = "rep" /\ MayArmStackFault(c[mask_pc(a + 1)])

InBlock(x, c, taken) ==
    LET i == c[x.pc] IN
    IF LegacyRep(i, c, x.pc)
    THEN IF i.arg = 0
         THEN [x EXCEPT !.onrep = TRUE, !.adv = 0, !.pc = mask_pc(@ + 2)]
         ELSE [x EXCEPT !.rep = TRUE, !.onrep = FALSE, !.lc = i.arg, !.adv = 0,
                        !.pc = mask_pc(@ + 1)]
    ELSE IF i.op = "rep" THEN [x EXCEPT !.adv = 1, !.pc = mask_pc(@ + 2)]
    ELSE LET y == Exec(x, c, taken) IN [y EXCEPT !.pc = mask_pc(@ + y.adv)]

\* The WAIT check at the top of the run loop.
CanWake(x) == \E i \in x.pending : Ipl[i] = 3 \/ Ipl[i] >= x.ipl
Awake(x) == IF x.power = "Wait" /\ CanWake(x) THEN [x EXCEPT !.power = "Normal"] ELSE x

\* While an interrupt is in flight or a REP is live the run loop single
\* steps; a halted core (WAIT not woken, STOP) only burns the cycle budget.
RunStep ==
    \E x \in {Awake(m)}, taken \in BOOLEAN :
        /\ ~inblock /\ x.power = "Normal" /\ (x.st # "None" \/ x.rep)
        /\ StepOne(x, taken)
        /\ UNCHANGED <<code, inblock, posts>>

\* execute_one: the host single-steps, whatever power_state says.
HostStep ==
    \E taken \in BOOLEAN :
        /\ ~inblock
        /\ StepOne(m, taken)
        /\ UNCHANGED <<code, inblock, posts>>

\* Otherwise the run loop runs a compiled block: process_pending_interrupts
\* is called once, when the block ends.  A block ends after a terminator (every
\* instruction that can arm a fault is one) and anywhere its length limit or
\* a loop boundary falls.
RunBlock ==
    \E x \in {IF inblock THEN m ELSE Awake(m)}, taken, ends \in BOOLEAN :
        /\ inblock \/ (x.power = "Normal" /\ x.st = "None" /\ ~x.rep)
        /\ IsBlockTerminator(code[x.pc]) \/ LegacyRep(code[x.pc], code, x.pc) => ends
        /\ \E y \in {InBlock(x, code, taken)} :
               m' = IF ends THEN ProcessPending(y, code) ELSE y
        /\ inblock' = ~ends
        /\ UNCHANGED <<code, posts>>

\* A peripheral posts an interrupt (InterruptPipeline::add).
Post(i) ==
    /\ posts < MaxPosts
    /\ i \notin m.pending
    /\ m' = [m EXCEPT !.pending = @ \cup {i}]
    /\ posts' = posts + 1
    /\ UNCHANGED <<code, inblock>>

Run == RunStep \/ RunBlock
Next == Run \/ HostStep \/ \E i \in Sources \ CoreFaults : Post(i)

\* The host keeps calling run(), so the loop is never left for ever; it need
\* not ever single-step.
Spec == Init /\ [][Next]_vars /\ WF_vars(Run)

-------------------------------------------------------------------------------
(* Properties.                                                            *)

\* How a program that uses interrupts is laid out.  Main is what it executes
\* outside the vectors; a vector holds two instructions of one word that go
\* on with the next one, or a JSR of one or two words, alone or second.
\* (A branch, a REP, a conditional JSR or a two-word instruction in a vector
\* has no pipeline stage to go with it.)
VectorWords == UNION {{vector_addr(i), vector_addr(i) + 1} : i \in Sources}
OneWord(i) == /\ i.len = 1
              /\ i.op \in {"plain", "fault", "wait", "stop", "mask", "spwrite", "pop"}
Handler(i, Main) == i.op = "jsr" /\ i.arg \in Main
Disciplined(c, Main) ==
    /\ Main \subseteq Addrs \ VectorWords /\ 0 \in Main
    /\ \A i \in Sources : LET v == vector_addr(i) IN
           \/ Handler(c[v], Main)
           \/ OneWord(c[v]) /\ (OneWord(c[v + 1]) \/ Handler(c[v + 1], Main))
    /\ \A a \in Main :
           /\ c[a].op \in {"jmp", "jsr", "jscc"} => c[a].arg \in Main
           /\ c[a].op \notin {"jmp", "rts", "rti"} => mask_pc(a + c[a].len) \in Main
           /\ c[a].op = "rep" => mask_pc(a + 2) \in Main

Stacks == [ptr : Slots, se : BOOLEAN, uf : BOOLEAN, sc : 0 .. 2 * Depth - 1,
           hi : [Slots -> Addrs], lo : [Slots -> 0 .. 3], ssh : Addrs, ssl : 0 .. 3]

Machines ==
    [pc : Addrs, adv : 0 .. 3, ipl : 0 .. 3, stk : Stacks, hint : {None} \cup 0 .. 8,
     rep : BOOLEAN, onrep : BOOLEAN, lc : Nat, power : {"Normal", "Wait", "Stop"},
     st : {"None", "Fast", "Long", "Armed", "Parked"}, stage : 0 .. 5,
     vec : Addrs \cup {None}, saved : Addrs \cup {None}, raise : 0 .. 3,
     pending : SUBSET Sources, budget : {None} \cup 0 .. 8, countdown : 0 .. 3,
     spw : BOOLEAN, frames : Seq(Addrs \cup {None}), levels : Seq(0 .. 3),
     owed : SUBSET Sources, frame : BOOLEAN]

TypeOK == /\ m \in Machines /\ code \in Codes
          /\ inblock \in BOOLEAN /\ posts \in 0 .. MaxPosts

\* The hardware stack holds exactly the return addresses of the calls and
\* interrupts that have not returned: an interrupt that becomes long stacks
\* one frame between the pipeline and the JSR at its vector, never two and
\* never none, however interrupts, faults and subroutines nest.  The machine
\* stays well typed.
FramesMatch ==
    /\ TypeOK
    /\ m.frames # Lost /\ ~m.stk.se =>
         /\ m.stk.ptr = Len(m.frames)
         /\ \A k \in 1 .. m.stk.ptr : m.stk.hi[k] = m.frames[k]

\* A long handler is interrupted only by a source of higher priority or by a
\* non-maskable one, and runs with the mask its level calls for; RTI brings
\* back the mask of the handler below.
HandlersNest ==
    /\ \A k \in 1 .. Len(m.levels) - 1 :
           m.levels[k + 1] > m.levels[k] \/ m.levels[k + 1] = 3
    /\ m.levels # << >> => m.ipl >= m.levels[Len(m.levels)]

\* A source taken off the pending set is remembered until its vector is
\* fetched: at most one is on its way, and the pipeline heads for its vector.
DispatchNotLost ==
    m.owed # {} => /\ Cardinality(m.owed) = 1
                   /\ \A i \in m.owed : m.vec = vector_addr(i)
                   /\ m.st = "Armed" \/ (m.st = "Fast" /\ m.stage \in {4, 5})

\* A recorded shadow budget belongs to a core fault that is armed or still
\* pending ("delivery resets the budget to invalid, so it can only fire
\* between arming and delivery", emit_fault_arm_bail).
BudgetHasOwner == m.budget # None => m.st = "Armed" \/ m.pending \cap CoreFaults # {}

\* A fast interrupt executes its two vector words and resumes at the address
\* it interrupted.
FastResumes ==
    [][m.st = "Fast" /\ m.stage = 2 /\ m'.stage = 1 /\ ~m'.frame => m'.pc = m.saved]_vars

\* Every posted interrupt is dispatched, and every dispatched one reaches its
\* vector, provided the program keeps returning to mask 0.
AllServed == \A i \in Sources : /\ i \in m.pending ~> i \notin m.pending
                                /\ i \in m.owed ~> i \notin m.owed

\* A parked fault is put off by fresh SP writes only ("max(dispatch+6,
\* last_sp_write+3)", process_pending_interrupts): it is delivered, or the
\* guest comes to yet another write of SP, whatever REPs, WAITs, peripherals
\* and single steps fall into the countdown.  A handler that writes SP for
\* ever defers its fault for ever, which the formula grants.
ParkedDelivered ==
    m.st = "Parked" ~> \/ m.st # "Parked"
                       \/ code[m.pc].op = "spwrite"
                       \/ m.power = "Stop"

\* "WAIT is cleared on unmasked interrupt" (DspState::power_state): a core
\* that waits while an accepted interrupt is on its way wakes up.
WaitWakes == (m.power = "Wait" /\ m.owed # {}) ~> (m.power = "Normal")

\* "Long interrupt: JSR detected at vector, context stacked" (InterruptState):
\* the pipeline is in the Long state only until the JSR at the vector runs.
LongOnlyAtVector == m.st = "Long" => AtVector(m)

===============================================================================
