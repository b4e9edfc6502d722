------------------------------- MODULE Codegen --------------------------------
(***************************************************************************)
(* Register promotion and deferred condition codes: what one block's code  *)
(* does with the guest registers.                                          *)
(*                                                                         *)
(* The emitter walks the guest instructions once and keeps, at compile     *)
(* time, which registers have a current value in a host variable (valid),  *)
(* which variables are newer than memory (dirty), which first uses are to  *)
(* be loaded before a loop (scopes), and one condition code computation    *)
(* that has not been emitted yet (pending).  Loops make emission order     *)
(* differ from execution order.  The module emits every small program into *)
(* basic blocks, runs them, and runs the guest's architecture beside them. *)
(*                                                                         *)
(* Data is as coarse as the flags allow: A counts modulo 4, 1 + 1          *)
(* overflows, 3 + 1 carries, 3 is outside the range that saturation mode   *)
(* allows.  One accumulator stands for both, R for every register with no  *)
(* rule of its own, one stack frame for the two a DO pushes.               *)
(***************************************************************************)
EXTENDS Naturals, Sequences, SequencesExt, FiniteSets

CONSTANTS Insts,     \* the instructions programs are made of
          MaxInst,   \* bound on the length of a program
          Counts,    \* the loop counts
          Inits      \* the values A starts with

ASSUME CodegenAssumption ==
    /\ MaxInst \in Nat /\ Counts \subseteq 0 .. 3 /\ Inits \subseteq 0 .. 3
    /\ Insts \subseteq {"add", "cmp", "asl", "tst", "ext", "or", "rdsr", "wrsr", "rda", "rdlc",
                       "peri", "tcc", "rn", "lim", "pop", "pmem", "ifcc", "ifccu"}

VARIABLES e,    \* the emitter and the code it has emitted
          s,    \* the running machine
          phase \* "emit", "run" or "done"

vars == <<e, s, phase>>

Val == 0 .. 3
PROMOTED_REGS == {"A", "R", "SR", "LC", "TEMP", "SP"}
None == [kind |-> "none"]

StatusRegisters == [eu : Val, nz : Val, v : BOOLEAN, c : BOOLEAN, l : BOOLEAN,
                    sm : BOOLEAN, lf : BOOLEAN]

-------------------------------------------------------------------------------
(* The kinds of deferred condition code computation.                       *)

\* What materialising each kind does, in order.
Parts == [AluAddSub  |-> <<"nz", "vcl", "sm">>,
          NzClearV   |-> <<"nz", "clrv">>,
          NzOnly     |-> <<"nz">>,
          NzClearVSm |-> <<"nz", "clrv", "sm">>,
          MacVlSm    |-> <<"nz", "vl", "sm">>,
          NzVlSm     |-> <<"nz", "vl", "sm">>,
          NzSm       |-> <<"nz", "sm">>,
          NzVclSub   |-> <<"nz", "vcl">>,
          AddlSubl   |-> <<"nz", "vcl", "vlor", "sm">>,
          DmacVl     |-> <<"nz", "vl">>,
          Shift24    |-> <<"shift">>,
          Logical    |-> <<"logical">>]

\* Mutated: the logical kinds count as rewriting the whole quarter.
rewrites_eunzAll(k) == k # "none"
rewrites_eunz(k) == k \notin {"none", "Shift24", "Logical"}

\* Mutated: shifts are forgotten among the kinds with a saturation marker.
consumes_sm_markerNoNzSm(k) ==
    k \in {"AluAddSub", "NzClearVSm", "MacVlSm", "NzVlSm", "AddlSubl"}
consumes_sm_marker(k) ==
    k \in {"AluAddSub", "NzClearVSm", "MacVlSm", "NzVlSm", "NzSm", "AddlSubl"}

\* One part applied to SR: x holds the computation's captured operands, mark
\* its saturation marker.
ApplyPart(part, sr, x, mark) ==
    CASE part = "nz"      -> [sr EXCEPT !.eu = x.res, !.nz = x.res]
      [] part = "vcl"     -> [sr EXCEPT !.v = x.v, !.c = x.c, !.l = @ \/ x.v]
      [] part = "vl"      -> [sr EXCEPT !.v = x.v, !.l = @ \/ x.v]
      [] part = "vlor"    -> [sr EXCEPT !.v = @ \/ x.v, !.l = @ \/ x.v]
      [] part = "clrv"    -> [sr EXCEPT !.v = FALSE]
      [] part = "sm"      -> [sr EXCEPT !.v = @ \/ mark, !.l = @ \/ mark]
      [] part = "shift"   -> [sr EXCEPT !.nz = x.res, !.c = x.c, !.v = FALSE]
      [] part = "logical" -> [sr EXCEPT !.nz = x.res, !.v = FALSE]

\* The data operations: the result, its overflow and its carry.
AluOps == [add |-> [kind |-> "AluAddSub", sat |-> TRUE,  put |-> TRUE,  early |-> FALSE],
           cmp |-> [kind |-> "AluAddSub", sat |-> FALSE, put |-> FALSE, early |-> FALSE],
           asl |-> [kind |-> "NzSm",      sat |-> TRUE,  put |-> TRUE,  early |-> TRUE],
           tst |-> [kind |-> "NzClearV",  sat |-> FALSE, put |-> FALSE, early |-> FALSE],
           ext |-> [kind |-> "NzOnly",    sat |-> FALSE, put |-> TRUE,  early |-> TRUE],
           or  |-> [kind |-> "Logical",   sat |-> FALSE, put |-> TRUE,  early |-> FALSE]]

Compute(op, a) ==
    CASE op = "add" -> [res |-> (a + 1) % 4, v |-> a = 1, c |-> a = 3]
      [] op = "cmp" -> [res |-> (a + 3) % 4, v |-> a = 2, c |-> a = 0]
      [] op = "asl" -> [res |-> (2 * a) % 4, v |-> a \in {1, 2}, c |-> a >= 2]
      [] op = "tst" -> [res |-> a, v |-> FALSE, c |-> FALSE]
      [] op = "ext" -> [res |-> 3 - a, v |-> FALSE, c |-> FALSE]
      [] op = "or"  -> [res |-> a - (a % 2) + 1, v |-> FALSE, c |-> FALSE]
NeedsSat(x, sm) == sm /\ x.res = 3
Clamped == 2

StackSize == 4
NextR(r, linear) == IF linear THEN (r + 1) % 4 ELSE (r + 3) % 4
Limits(a) == a = 3
MovedToSR == [eu |-> 1, nz |-> 0, v |-> FALSE, c |-> TRUE, l |-> FALSE,
              sm |-> TRUE, lf |-> FALSE]
Holds(cc, sr) == IF cc = "cs" THEN sr.c ELSE sr.nz = 0

-------------------------------------------------------------------------------
(* The architecture: one instruction, no cache, flags at once.             *)

ArchAlu(a, op) ==
    LET x == Compute(op, a.A)
        sat == AluOps[op].sat /\ NeedsSat(x, a.SR.sm)
        res == IF sat THEN Clamped ELSE x.res
        setsVC == op \in {"add", "cmp", "asl", "ext"}
    IN  [a EXCEPT
           !.A = IF AluOps[op].put THEN res ELSE @,
           !.SR = [@ EXCEPT
             !.eu = IF op = "or" THEN @ ELSE res,
             !.nz = res,
             !.v = setsVC /\ (x.v \/ sat),
             !.c = IF setsVC THEN x.c ELSE @,
             !.l = @ \/ (setsVC /\ (x.v \/ sat))]]

\* "do", "rep" and "again" are the loop's own steps; count is the loop count.
Arch(a, i, run) ==
    CASE i \in DOMAIN AluOps -> ArchAlu(a, i)
      [] i = "wrsr" -> [a EXCEPT !.SR = MovedToSR]
      [] i = "tcc" -> IF Holds("eq", a.SR) THEN [a EXCEPT !.A = a.R] ELSE a
      [] i = "rn" -> [a EXCEPT !.R = NextR(@, run.linear)]
      [] i = "lim" -> [a EXCEPT !.SR.l = @ \/ Limits(a.A)]
      [] i = "pop" -> [a EXCEPT !.SP = (@ + StackSize - 1) % StackSize]
      [] i = "ifcc" -> IF Holds("eq", a.SR)
                       THEN [ArchAlu(a, "add") EXCEPT !.SR = a.SR] ELSE a
      [] i = "ifccu" -> IF Holds("eq", a.SR) THEN ArchAlu(a, "add") ELSE a
      [] i = "do" -> LET sp == (a.SP + 1) % StackSize
                     IN  [a EXCEPT !.SP = sp, !.LC = run.count,
                            !.SR.lf = TRUE,
                            !.stk[sp] = [lc |-> a.LC, sr |-> a.SR]]
      [] i = "enddo" -> [a EXCEPT !.LC = a.stk[a.SP].lc,
                           !.SR.lf = a.stk[a.SP].sr.lf,
                           !.SP = (@ + StackSize - 1) % StackSize]
      [] i = "rep" -> [a EXCEPT !.TEMP = a.LC, !.LC = run.count]
      [] i = "endrep" -> [a EXCEPT !.LC = a.TEMP]
      [] i = "again" -> [a EXCEPT !.LC = (@ + 3) % 4]
      [] OTHER -> a

-------------------------------------------------------------------------------
(* The machine that runs the emitted code: var and mem hold each register   *)
(* twice, tmp the captured operands of flag computations, sat the          *)
(* saturation marker variable, saved what IFcc puts back, arch the guest's *)
(* own state, seen every value the last block's code used next to the one  *)
(* the architecture has there.                                             *)

Slots == 1 .. 2 * MaxInst
NoOperands == [res |-> 0, v |-> FALSE, c |-> FALSE]

Saw(m, got, want) == [m EXCEPT !.seen = Append(@, [got |-> got, want |-> want])]

Exec(m, o) ==
    CASE o.op = "load"   -> [m EXCEPT !.var[o.r] = m.mem[o.r]]
      [] o.op = "store"  -> [m EXCEPT !.mem = [r \in PROMOTED_REGS |->
                               IF r \in o.regs THEN m.var[r] ELSE @[r]]]
      [] o.op = "see"    -> Saw(m, m.var[o.r], m.arch[o.r])
      [] o.op = "arch"   -> [m EXCEPT !.arch = Arch(@, o.i, m.run),
                                      !.archCycles = @ + o.cycles]
      [] o.op = "cycles" -> [m EXCEPT !.cycles = @ + o.n]
      [] o.op = "test"   -> LET got == Holds(o.cc, m.var["SR"])
                            IN  [Saw(m, got, Holds(o.cc, m.arch.SR))
                                   EXCEPT !.cond = got]
      [] o.op = "alu"    -> [m EXCEPT !.tmp[o.t] = Compute(o.i, m.var["A"])]
      [] o.op = "sat"    -> LET need == NeedsSat(m.tmp[o.t], m.mem["SR"].sm)
                            IN  [m EXCEPT !.sat = need, !.tmp[o.t].res =
                                            IF need THEN Clamped ELSE @]
      [] o.op = "put"    -> [m EXCEPT !.var["A"] = m.tmp[o.t].res]
      [] o.op = "snap"   -> [m EXCEPT !.mark[o.t] = m.sat, !.sat = FALSE]
      [] o.op = "unsat"  -> [m EXCEPT !.sat = FALSE]
      [] o.op = "flags"  -> [m EXCEPT !.var["SR"] =
                               ApplyPart(o.part, @, m.tmp[o.t],
                                 IF o.mark = 0 THEN m.sat ELSE m.mark[o.mark])]
      [] o.op = "movesr" -> [m EXCEPT !.var["SR"] = MovedToSR]
      [] o.op = "atoa"   -> [m EXCEPT !.var["A"] = m.var["R"]]
      [] o.op = "linear" -> [m EXCEPT !.cond = m.run.linear]
      [] o.op = "next"   -> [m EXCEPT !.var["R"] = NextR(@, TRUE)]
      [] o.op = "jit_update_rn"   -> [m EXCEPT !.mem["R"] = NextR(@, FALSE)]
      [] o.op = "jit_read_accu24" ->
            [Saw(m, m.mem["A"], m.arch.A)
               EXCEPT !.mem["SR"].l = @ \/ Limits(m.mem["A"])]
      [] o.op = "jit_read_ssh"    ->
            [Saw(m, m.stk[m.mem["SP"]], m.arch.stk[m.arch.SP])
               EXCEPT !.mem["SP"] = (@ + StackSize - 1) % StackSize]
      [] o.op = "save"   -> [m EXCEPT !.saved = [A |-> m.var["A"], SR |-> m.var["SR"],
                                                 cond |-> m.cond]]
      [] o.op = "select" -> \* keep the register if the saved condition held
            [m EXCEPT !.var[o.r] = IF m.saved.cond /\ ~o.always
                                   THEN @ ELSE m.saved[o.r]]
      [] o.op = "push"   -> LET sp == (m.var["SP"] + 1) % StackSize
                            IN  [m EXCEPT !.var["SP"] = sp, !.stk[sp] =
                                   [lc |-> m.var["LC"], sr |-> m.var["SR"]]]
      [] o.op = "pull"   -> [m EXCEPT !.frame = m.stk[m.var["SP"]],
                               !.var["SP"] = (@ + StackSize - 1) % StackSize]
      [] o.op = "setlf"  -> [m EXCEPT !.var["SR"].lf = TRUE]
      [] o.op = "getlf"  -> [m EXCEPT !.var["SR"].lf = m.frame.sr.lf]
      [] o.op = "getlc"  -> [m EXCEPT !.var["LC"] = m.frame.lc]
      [] o.op = "count"  -> [m EXCEPT !.var["LC"] = m.run.count,
                                      !.cond = m.run.count = 0]
      [] o.op = "copy"   -> [m EXCEPT !.var[o.to] = m.var[o.from]]
      [] o.op = "latch"  -> [m EXCEPT !.top = m.var["LC"]]
      [] o.op = "dec"    -> LET lc == ((IF o.top THEN m.top ELSE m.var["LC"]) + 3) % 4
                            IN  [Saw(m, lc, m.arch.LC)
                                   EXCEPT !.var["LC"] = lc, !.cond = lc = 0]

-------------------------------------------------------------------------------
(* The emitter: each operator takes the emitter's state and returns it.     *)

Emit(x, o) == [x EXCEPT !.code[x.cur].ops = Append(@, o)]
End(x, term) == [x EXCEPT !.code[x.cur].term = term]
switch_to_block(x, b) == [x EXCEPT !.cur = b]
create_blocks(x, n) ==
    [x EXCEPT !.code = @ \o [i \in 1 .. n |-> [ops |-> <<>>, term |-> <<"none">>]],
              !.base = Len(x.code)]
\* End the block with a branch to two of n new ones; Jump and Block name the
\* k-th of the newest.
Fork(x, n, on, i, j) ==
    End(create_blocks(x, n), <<"branch", on, Len(x.code) + i, Len(x.code) + j>>)
Jump(x, k) == End(x, <<"jump", x.base + k>>)
Block(x, k) == switch_to_block(x, x.base + k)
Scope(x) == x.scopes[Len(x.scopes)]

\* load_reg without SR's own rule: a first use goes to the scope's pre-block,
\* a use after an invalidation is loaded in place.
load_var(x, r) ==
    LET y == [x EXCEPT !.valid = @ \cup {r}]
    IN  IF r \in x.valid THEN x
        ELSE IF r \in Scope(x).entry THEN Emit(y, [op |-> "load", r |-> r])
        ELSE [y EXCEPT !.scopes[Len(x.scopes)].deferred = @ \cup {r}]

store_var(x, r) == [x EXCEPT !.valid = @ \cup {r}, !.dirty = @ \cup {r}]

Flags(x, part, t, mark) ==
    store_var(Emit(load_var(x, "SR"),
                   [op |-> "flags", part |-> part, t |-> t, mark |-> mark]), "SR")

\* update_nz_now: current from here on, unless this is a conditional arm.
update_nz_now(x, t) ==
    [Flags(x, "nz", t, 0) EXCEPT !.eunz_current = @ \/ x.cond_depth = 0]

FlushPart(x, part, p, dead) ==
    CASE part = "nz" -> IF dead THEN x ELSE update_nz_now(x, p.t)
      [] part = "sm" -> [Flags(x, "sm", p.t, x.pending_sm_marker)
                           EXCEPT !.pending_sm_marker = 0]
      [] OTHER -> Flags(x, part, p.t, 0)

\* Materialise the pending computation; a flush inside a keep-flags region
\* panics.
flush_eliding(x, dead) ==
    IF x.pending = None THEN x
    ELSE LET p == x.pending
             Part(y, k) == IF k \in DOMAIN Parts[p.kind]
                           THEN FlushPart(y, Parts[p.kind][k], p, dead) ELSE y
             taken == [x EXCEPT !.pending = None, !.panic = @ \/ x.cond_keep_flags > 0]
         IN  Part(Part(Part(Part(taken, 1), 2), 3), 4)
flush_pending_flags(x) == flush_eliding(x, FALSE)

\* load_reg(SR): a read that a loop must not defer flags across counts as a
\* hazard, unless it is transparent or the quarter is current here.
\* Mutated: a guest read of SR does not count as a hazard.
load_srNoHazard(x, transparent) == load_var(flush_pending_flags(x), "SR")
load_sr(x, transparent) ==
    LET dominated == x.eunz_current \/ rewrites_eunz(x.pending.kind)
        y == IF transparent \/ dominated THEN x
             ELSE [x EXCEPT !.defer_hazard_sites = @ + 1]
    IN  load_var(flush_pending_flags(y), "SR")

\* store_reg(SR): supersedes a pending computation and orphans its marker.
store_sr(x) ==
    LET y == IF x.pending = None THEN x
             ELSE Emit([x EXCEPT !.pending = None, !.pending_sm_marker = 0,
                                 !.panic = @ \/ x.cond_keep_flags > 0],
                       [op |-> "unsat"])
    IN  store_var(y, "SR")

\* A new computation: the previous one materialises, without the E/U/N/Z
\* that the new one rewrites; the saturation marker is captured.
set_pending(x, kind, t) ==
    LET Marked(y) ==
            IF consumes_sm_marker(kind)
            THEN [Emit(y, [op |-> "snap", t |-> t]) EXCEPT !.pending_sm_marker = t]
            ELSE y
    IN  [Marked(flush_eliding(x, rewrites_eunz(kind)))
           EXCEPT !.pending = [kind |-> kind, t |-> t]]

Store(x, regs) == IF regs = {} THEN x ELSE Emit(x, [op |-> "store", regs |-> regs])
flush_reg(x, r) == Store(x, x.dirty \cap {r})
flush_promoted(x) == [Store(x, x.dirty) EXCEPT !.dirty = {}]
flush_all_to_memory(x) ==
    [Store(x, x.dirty) EXCEPT !.defer_hazard_sites = @ + 1]
flush_pending_cycles(x) ==
    IF x.pending_cycles = 0 THEN x
    ELSE [Emit(x, [op |-> "cycles", n |-> x.pending_cycles])
            EXCEPT !.pending_cycles = 0]

refresh_promoted_reg(x, r) ==
    [Emit(x, [op |-> "load", r |-> r])
       EXCEPT !.valid = @ \cup {r}, !.dirty = @ \ {r}]

invalidate_promoted(x) ==
    [x EXCEPT !.valid = {}, !.dirty = {},
              !.scopes = [i \in DOMAIN @ |->
                            [@[i] EXCEPT !.entry = PROMOTED_REGS]]]

push_loop_scope(x, pre) ==
    [x EXCEPT !.scopes = Append(@, [pre |-> pre, deferred |-> {}, entry |-> x.valid])]

Loads(regs) == SetToSeq({[op |-> "load", r |-> r] : r \in regs})

\* First uses inside the loop: loaded before it, or before the outer scope
\* if they were unknown there too.
pop_loop_scope(x, header) ==
    LET inner == Scope(x)
        outer == x.scopes[Len(x.scopes) - 1]
        here == inner.deferred \cap outer.entry
    IN  [x EXCEPT !.scopes = Append(SubSeq(@, 1, Len(@) - 2),
                     [outer EXCEPT !.deferred = @ \cup (inner.deferred \ outer.entry)]),
                  !.code[inner.pre] = [ops |-> Loads(here),
                                       term |-> <<"jump", header>>]]

-------------------------------------------------------------------------------
(* Conditional regions.  arms is the stack of ConditionalStates.            *)

EnterArms(x, record) ==
    [x EXCEPT !.cond_depth = @ + 1,
              !.arms = Append(@, [record |-> record, dirty |-> x.dirty,
                                  valid |-> x.valid, modified |-> {}])]

begin_conditional(x) == EnterArms(flush_pending_flags(x), FALSE)
\* Mutated: the cycles before the branch are left to the fall-through arm.
begin_conditional_skipCycles(x) ==
    EnterArms(flush_promoted(flush_pending_flags(x)), TRUE)
begin_conditional_skip(x) ==
    EnterArms(flush_promoted(flush_pending_cycles(flush_pending_flags(x))), TRUE)
begin_conditional_keep_flags(x) ==
    EnterArms([x EXCEPT !.cond_keep_flags = @ + 1], FALSE)

\* The end of an arm: its writes go to memory, the next arm starts from the
\* state before the branch.
\* Mutated: a carried computation is flushed by the first arm.
ArmFlushedAlways(x) == flush_pending_flags(x)
ArmFlushed(x) == IF x.cond_keep_flags = 0 THEN flush_pending_flags(x) ELSE x
ArmModified(x, cs) ==
    (x.dirty \ cs.dirty) \cup (IF cs.record THEN cs.valid \ x.valid ELSE {})
RestoreArm(x, cs) ==
    [Store(x, x.dirty \ cs.dirty)
       EXCEPT !.dirty = cs.dirty, !.valid = cs.valid,
              !.arms[Len(x.arms)].modified = @ \cup ArmModified(x, cs)]
\* Mutated: the dirty set of the arm is kept.
end_conditional_armDirty(x) ==
    [RestoreArm(ArmFlushed(x), Last(x.arms)) EXCEPT !.dirty = @ \cup x.dirty]
end_conditional_arm(x) == RestoreArm(ArmFlushed(x), Last(x.arms))

merge_conditional(x) ==
    LET modified == Last(x.arms).modified
    IN  [x EXCEPT !.cond_depth = @ - 1, !.arms = Front(@), !.valid = @ \ modified,
                  !.scopes[Len(x.scopes)].entry = @ \cup modified]

\* The part of a flag computation that a back edge has put off: t is its
\* slot, 0 when nothing is.
emit_deferred_nz(x, t) == IF t = 0 THEN x ELSE update_nz_now(x, t)

\* A bail-out: return to the run loop if the host asks for it, with the flags
\* put off computed on the way.
Bail(x, t) ==
    LET leave == Block(Fork(x, 2, "host", 1, 2), 1)
        left == End(flush_all_to_memory(emit_deferred_nz(leave, t)), <<"ret">>)
    IN  [Block(left, 2) EXCEPT !.eunz_current = x.eunz_current]

-------------------------------------------------------------------------------
(* Instructions.                                                           *)

See(x, r) == Emit(load_var(x, r), [op |-> "see", r |-> r])
Test(x, cc) == Emit(load_sr(x, cc = "cs"), [op |-> "test", cc |-> cc])

\* emit_saturate_sm leaves the pending computation alone; the helper reads
\* SR in memory.
emit_saturate_sm(x, t) ==
    Emit([flush_reg(x, "SR") EXCEPT !.dirty = @ \ {"SR"}], [op |-> "sat", t |-> t])

EmitAlu(x, i) ==
    LET op == AluOps[i]
        t == x.slot + 1
        Early(y) == IF op.early THEN Flags(load_sr(y, TRUE), "vcl", t, 0) ELSE y
        Saturated(y) == IF op.sat THEN emit_saturate_sm(y, t) ELSE y
        Put(y) == IF op.put THEN store_var(Emit(y, [op |-> "put", t |-> t]), "A") ELSE y
        a == Emit(load_var([x EXCEPT !.slot = t], "A"), [op |-> "alu", i |-> i, t |-> t])
    IN  set_pending(Put(Saturated(Early(a))), op.kind, t)

emit_tcc(x) ==
    LET a == Block(Fork(begin_conditional(Test(x, "eq")), 2, "cond", 1, 2), 1)
        arm == store_var(Emit(load_var(a, "R"), [op |-> "atoa"]), "A")
    IN  merge_conditional(Block(Jump(end_conditional_arm(arm), 2), 2))

\* The linear arm writes the variable, the other calls a helper that
\* updates memory; a pending computation is carried past both.
RnLinear(x) ==
    LET a == Emit([flush_reg(x, "R") EXCEPT !.dirty = @ \ {"R"}], [op |-> "linear"])
        b == Block(Fork(begin_conditional_keep_flags(a), 3, "cond", 1, 2), 1)
        lin == store_var(Emit(load_var(b, "R"), [op |-> "next"]), "R")
    IN  Block(Jump(end_conditional_arm(lin), 3), 2)
RnMerged(x) ==
    [merge_conditional(Block(Jump(end_conditional_arm(x), 3), 3))
       EXCEPT !.cond_keep_flags = @ - 1]
\* Mutated: the helper's arm leaves the variable to the merge.
emit_update_rnLazy(x) == RnMerged(Emit(RnLinear(x), [op |-> "jit_update_rn"]))
emit_update_rn(x) ==
    RnMerged(refresh_promoted_reg(Emit(RnLinear(x), [op |-> "jit_update_rn"]), "R"))

\* The limiter reads the accumulator and SR in memory and ORs L there.
emit_call_read_accu24(x) ==
    LET a == Store(load_var(x, "A"), {"A"})
        b == [flush_reg(a, "SR") EXCEPT !.dirty = @ \ {"SR"}]
    IN  refresh_promoted_reg(Emit(b, [op |-> "jit_read_accu24"]), "SR")

emit_call_extern_ret(x) ==
    LET a == invalidate_promoted(Emit(flush_promoted(x), [op |-> "jit_read_ssh"]))
    IN  refresh_promoted_reg(refresh_promoted_reg(a, "SR"), "SP")

write_mem_dyn_p(x) == invalidate_promoted(flush_promoted(x))

\* IFcc runs the operation and puts SR, and A if the condition was false,
\* back; IFcc.U keeps SR with the condition.
Select(x, r, always) ==
    store_var(Emit(x, [op |-> "select", r |-> r, always |-> always]), r)
IfccRestored(x, update_ccr) ==
    IF update_ccr THEN Select(load_sr(x, TRUE), "SR", FALSE)
    ELSE Select(Emit([x EXCEPT !.pending = None, !.pending_sm_marker = 0],
                     [op |-> "unsat"]), "SR", TRUE)
IfccTested(x, update_ccr) ==
    LET b == Emit(load_sr(load_var(x, "A"), TRUE), [op |-> "save"])
        c == IfccRestored(EmitAlu(b, "add"), update_ccr)
    IN  Select([load_var(c, "A") EXCEPT !.eunz_current = x.eunz_current], "A", FALSE)
emit_ifcc(x, update_ccr) == IfccTested(Test(x, "eq"), update_ccr)

emit_instruction(x, i) ==
    LET y == CASE i \in DOMAIN AluOps -> EmitAlu(x, i)
               [] i = "rdsr"  -> Emit(load_sr(x, FALSE), [op |-> "see", r |-> "SR"])
               [] i = "wrsr"  -> store_sr(Emit(x, [op |-> "movesr"]))
               [] i = "rda"   -> See(x, "A")
               [] i = "rdlc"  -> See(x, "LC")
               [] i = "peri"  -> See(x, "R")
               [] i = "tcc"   -> emit_tcc(x)
               [] i = "rn"    -> emit_update_rn(See(x, "R"))
               [] i = "lim"   -> emit_call_read_accu24(x)
               [] i = "pop"   -> emit_call_extern_ret(x)
               [] i = "pmem"  -> write_mem_dyn_p(x)
               [] i \in {"ifcc", "ifccu"} -> emit_ifcc(x, i = "ifccu")
    IN  [Emit(y, [op |-> "arch", i |-> i, cycles |-> 1])
           EXCEPT !.pending_cycles = @ + 1]

-------------------------------------------------------------------------------
(* Inline loops and forward skips.                                         *)

Ghost(x, i, cycles) == Emit(x, [op |-> "arch", i |-> i, cycles |-> cycles])
set_cycles(x, n) == [x EXCEPT !.pending_cycles = @ + n]
LoopCycles == 5
SkipCycles == 4

emit_enddo_cleanup(x) ==
    LET a == store_var(Emit(load_var(x, "SP"), [op |-> "pull"]), "SP")
        b == store_sr(Emit(load_sr(a, FALSE), [op |-> "getlf"]))
    IN  Ghost(store_var(Emit(b, [op |-> "getlc"]), "LC"), "enddo", 0)

emit_do_setup(x) ==
    LET a == load_sr(load_var(load_var(x, "LC"), "SP"), FALSE)
        b == store_var(Emit(a, [op |-> "push"]), "SP")
        c == store_sr(Emit(b, [op |-> "setlf"]))
    IN  store_var(Emit(c, [op |-> "count"]), "LC")

\* The pending computation at the back edge: its E/U/N/Z may wait for the
\* exit if nothing in the body can see SR or leave the code.
Deferred(x, mark) ==
    IF x.defer_hazard_sites = mark /\ rewrites_eunz(x.pending.kind)
    THEN x.pending.t ELSE 0

BodyBottom(x, t) == flush_promoted(flush_eliding(x, t # 0))

\* LC is stored and flushed after the body's flush.
DecrementLC(x, top) ==
    flush_reg(store_var(Emit(Ghost(x, "again", 0), [op |-> "dec", top |-> top]), "LC"),
              "LC")

AfterLoop(x, after) ==
    invalidate_promoted([switch_to_block(End(flush_promoted(x), <<"jump", after>>), after)
                           EXCEPT !.eunz_current = FALSE])

OpenLoop(x, pre, header) ==
    [push_loop_scope(switch_to_block(x, header), pre) EXCEPT !.eunz_current = FALSE]

\* The head of emit_do_inline, up to the first instruction of the body.
emit_do_head(x) ==
    LET a == Ghost(emit_do_setup(set_cycles(x, LoopCycles)), "do", LoopCycles)
        b == flush_promoted(flush_pending_flags(Bail(flush_pending_cycles(a), 0)))
        annul == emit_enddo_cleanup(Block(Fork(b, 5, "cond", 1, 2), 1))
        Enter(y, n) ==
            [OpenLoop(y, n + 2, n + 3)
               EXCEPT !.open = Append(@, [kind |-> "do", header |-> n + 3,
                                          exit |-> n + 4, after |-> n + 5,
                                          mark |-> y.defer_hazard_sites])]
        Body(y) == Enter(y, y.base)
    IN  Body(Jump(flush_promoted(annul), 5))

\* Its tail; the exit is taken when LC has reached 0.
emit_do_tail(x) ==
    LET loop == Last(x.open)
        Bottom(y, t) == DecrementLC(load_var(BodyBottom(y, t), "LC"), FALSE)
        BackEdge(y) == End(create_blocks(y, 1),
                           <<"branch", "cond", loop.exit, Len(y.code) + 1>>)
        Leave(y, t) ==
            LET d == Bail(Block(BackEdge(Bottom(y, t)), 1), t)
                f == pop_loop_scope(End(d, <<"jump", loop.header>>), loop.header)
            IN  emit_enddo_cleanup(emit_deferred_nz(switch_to_block(f, loop.exit), t))
        Deferring(y) == Leave(y, Deferred(y, loop.mark))
    IN  [AfterLoop(Deferring(flush_pending_cycles(x)), loop.after) EXCEPT !.open = Front(@)]

\* REP: the count is latched at the top, the instruction is the whole body.
emit_rep_head(x) ==
    LET a == set_cycles(store_var(Emit(load_var(x, "LC"),
               [op |-> "copy", from |-> "LC", to |-> "TEMP"]), "TEMP"), LoopCycles)
        b == Ghost(store_var(Emit(a, [op |-> "count"]), "LC"), "rep", LoopCycles)
        c == flush_promoted(flush_pending_flags(flush_pending_cycles(b)))
        Enter(y) == Emit(load_var(OpenLoop(y, y.base + 1, y.base + 2), "LC"),
                         [op |-> "latch"])
    IN  Enter(Fork(c, 4, "cond", 4, 1))

emit_rep_tail(x, n, mark) ==
    LET Leave(y, t) ==
            LET f == End(DecrementLC(BodyBottom(y, t), TRUE),
                         <<"branch", "cond", n + 3, n + 2>>)
            IN  emit_deferred_nz(switch_to_block(pop_loop_scope(f, n + 2), n + 3), t)
        Deferring(y) == Leave(y, Deferred(y, mark))
        h == load_var(AfterLoop(Deferring(flush_pending_cycles(x)), n + 4), "TEMP")
    IN  Ghost(flush_reg(store_var(Emit(h,
          [op |-> "copy", from |-> "TEMP", to |-> "LC"]), "LC"), "LC"), "endrep", 0)

emit_rep_inline(x, i) ==
    LET Body(y) == emit_rep_tail(emit_instruction(y, i), y.base, y.defer_hazard_sites)
    IN  Body(emit_rep_head(x))

open_skip(x) ==
    LET a == Ghost(Test(set_cycles(x, SkipCycles), "cs"), "skip", SkipCycles)
        Enter(y) == [Block(y, 2) EXCEPT
                       !.open = Append(@, [kind |-> "skip", after |-> y.base + 1])]
    IN  Enter(Fork(begin_conditional_skip(a), 2, "cond", 1, 2))

close_skip(x) ==
    LET after == Last(x.open).after
        b == End(end_conditional_arm(flush_pending_cycles(x)), <<"jump", after>>)
    IN  [merge_conditional(switch_to_block(b, after)) EXCEPT !.open = Front(@)]

finalize_and_return(x) ==
    LET Seal(y) == [y EXCEPT !.code[1] = [ops |-> Loads(y.scopes[1].deferred),
                                          term |-> <<"jump", 2>>]]
    IN  Seal(End(flush_pending_cycles(flush_all_to_memory(flush_pending_flags(x))),
                 <<"ret">>))

-------------------------------------------------------------------------------
(* The specification: emit a program, then run it.                         *)

InitEmitter ==
    [code |-> <<[ops |-> <<>>, term |-> <<"none">>], [ops |-> <<>>, term |-> <<"none">>]>>,
     cur |-> 2, base |-> 1, arms |-> <<>>, valid |-> {}, dirty |-> {},
     scopes |-> <<[pre |-> 1, deferred |-> {}, entry |-> {}]>>,
     pending |-> None, pending_sm_marker |-> 0, slot |-> 0,
     cond_keep_flags |-> 0, cond_depth |-> 0, eunz_current |-> FALSE,
     defer_hazard_sites |-> 0, pending_cycles |-> 0, panic |-> FALSE,
     open |-> <<>>, prog |-> <<>>]

Init == e = InitEmitter /\ s = <<>> /\ phase = "emit"

Kinds == {e.open[i].kind : i \in DOMAIN e.open}
Room == phase = "emit" /\ Len(e.prog) < MaxInst
Ended == e.prog # <<>> /\ Last(e.prog) = <<"plain", "pmem">>

Extend(x, how, i) ==
    /\ e' = [x EXCEPT !.prog = Append(@, <<how, i>>)]
    /\ UNCHANGED <<s, phase>>

\* In a loop body nothing may exit, fault or write P memory; a skip admits no
\* loop; a P write ends the block.
InlineSafe(i) == i \notin {"peri", "pop", "pmem"}

EmitPlain(i) ==
    /\ Room /\ ~Ended
    /\ "do" \in Kinds => InlineSafe(i)
    /\ "skip" \in Kinds => i # "pmem"
    /\ LET Exit(y) == IF InlineSafe(i) \/ i = "pmem" THEN y
                      ELSE Bail(flush_pending_cycles(flush_pending_flags(y)), 0)
       IN  Extend(Exit(emit_instruction(e, i)), "plain", i)

EmitRep(i) ==
    /\ Room /\ ~Ended /\ "skip" \notin Kinds
    /\ IF "do" \in Kinds THEN InlineSafe(i) ELSE i # "pop"
    /\ Extend(emit_rep_inline(e, i), "rep", i)

OpenDo == Room /\ ~Ended /\ Kinds = {} /\ Extend(emit_do_head(e), "do", "")
OpenSkip == Room /\ ~Ended /\ "skip" \notin Kinds /\ Extend(open_skip(e), "skip", "")

Close(x) == e' = x /\ UNCHANGED <<s, phase>>
CloseDo ==
    /\ phase = "emit" /\ e.open # <<>> /\ Last(e.open).kind = "do"
    /\ Last(e.prog)[1] # "do"
    /\ Close(emit_do_tail(e))
CloseSkip ==
    /\ phase = "emit" /\ e.open # <<>> /\ Last(e.open).kind = "skip"
    /\ Last(e.prog)[1] # "skip"
    /\ Close(close_skip(e))

Zero == [eu |-> 0, nz |-> 0, v |-> FALSE, c |-> FALSE, l |-> FALSE, sm |-> FALSE,
         lf |-> FALSE]

Machine(a, sm, linear, count) ==
    LET sr == [Zero EXCEPT !.eu = 3, !.nz = a, !.c = a >= 2, !.sm = sm]
        mem == [A |-> a, R |-> 2, SR |-> sr, LC |-> 3, TEMP |-> 2, SP |-> 1]
        stk == [i \in 0 .. StackSize - 1 |-> [lc |-> i, sr |-> Zero]]
    IN  [pc |-> 1, mem |-> mem, stk |-> stk,
         var |-> [A |-> 0, R |-> 0, SR |-> Zero, LC |-> 0, TEMP |-> 0, SP |-> 0],
         tmp |-> [t \in Slots |-> NoOperands], mark |-> [t \in Slots |-> FALSE],
         sat |-> FALSE, cond |-> FALSE, saved |-> <<>>, frame |-> <<>>, top |-> 0,
         cycles |-> 0, archCycles |-> 0, seen |-> <<>>,
         run |-> [linear |-> linear, count |-> count],
         arch |-> mem @@ [stk |-> stk]]

Uses(field, what) == \E i \in DOMAIN e.prog : e.prog[i][field] \in what

Start ==
    /\ phase = "emit" /\ e.open = <<>> /\ e.prog # <<>>
    /\ e' = finalize_and_return(e)
    /\ \E a \in Inits, sm \in BOOLEAN :
         \E linear \in IF Uses(2, {"rn"}) THEN BOOLEAN ELSE {TRUE} :
           \E count \in IF Uses(1, {"do", "rep"}) THEN Counts ELSE {0} :
             s' = Machine(a, sm, linear, count)
    /\ phase' = "run"

\* Run one basic block; host branches go either way.
RunBlock ==
    /\ phase = "run"
    /\ LET block == e.code[s.pc]
           m == FoldLeft(Exec, [s EXCEPT !.seen = <<>>], block.ops)
           term == block.term
           Goto(b) == s' = [m EXCEPT !.pc = b] /\ UNCHANGED phase
       IN  \/ term[1] = "jump" /\ Goto(term[2])
           \/ term[1] = "ret" /\ s' = m /\ phase' = "done"
           \/ term[1] = "branch" /\ term[2] = "cond" /\ Goto(IF m.cond THEN term[3] ELSE term[4])
           \/ term[1] = "branch" /\ term[2] = "host" /\ (Goto(term[3]) \/ Goto(term[4]))
    /\ UNCHANGED e

Next ==
    \/ \E i \in Insts : EmitPlain(i) \/ EmitRep(i)
    \/ OpenDo \/ CloseDo \/ OpenSkip \/ CloseSkip
    \/ Start \/ RunBlock

Spec == Init /\ [][Next]_vars

-------------------------------------------------------------------------------
(* Properties.                                                             *)

\* The emitter's sets hold registers and its scopes and conditional regions
\* nest with the open structures.
TypeOK ==
    /\ e.valid \subseteq PROMOTED_REGS /\ e.dirty \subseteq PROMOTED_REGS
    /\ Len(e.scopes) = 1 + Cardinality({i \in DOMAIN e.open : e.open[i].kind = "do"})
    /\ e.cond_depth = Cardinality({i \in DOMAIN e.open : e.open[i].kind = "skip"})
    /\ e.cur \in DOMAIN e.code /\ e.slot \in 0 .. 2 * MaxInst
    /\ phase \in {"emit", "run", "done"}

\* Every value an instruction reads (a register, SR, what a helper finds in
\* memory) is the one the architecture has at that point, on every path and
\* in every iteration: lazy loads, conditional merges and deferred flags
\* (load_reg, merge_conditional, refresh_promoted_reg) are never visible.  So
\* is every condition and every loop count the code branches on.  Every branch
\* leads to a block that exists and that the emitter has ended.
ReadsExact ==
    phase # "emit" =>
      /\ \A i \in DOMAIN s.seen : s.seen[i].got = s.seen[i].want
      /\ s.pc \in DOMAIN e.code /\ e.code[s.pc].term # <<"none">>
      /\ s.mem["SR"] \in StatusRegisters /\ s.arch.SR \in StatusRegisters

\* Whenever the code returns to the run loop - at its end, at an exit request,
\* at a fault, at a loop's preemption check - memory holds the whole
\* architectural state, SR and the stack included (flush_all_to_memory,
\* finalize_and_return).
ExitExact ==
    phase = "done" => /\ \A r \in PROMOTED_REGS : s.mem[r] = s.arch[r]
                      /\ s.stk = s.arch.stk

\* The cycles returned are those of the instructions executed on this path
\* (flush_pending_cycles at every branch that could skip some).
CyclesExact == phase = "done" => s.cycles = s.archCycles

\* No flush and no SR store ever happens inside a keep-flags region
\* (the assertions of flush_pending_flags_eliding_eunz and store_reg).
NoStrandedFlags == ~e.panic

\* A pending computation that reads a saturation marker has captured its own,
\* and no captured marker outlives its computation (emit_sm_vl_deferred's
\* fallback is unreachable).
MarkerOwned ==
    /\ e.pending # None /\ (\E i \in DOMAIN Parts[e.pending.kind] :
                              Parts[e.pending.kind][i] = "sm")
         => e.pending_sm_marker = e.pending.t
    /\ e.pending_sm_marker # 0 => e.pending # None /\ e.pending.t = e.pending_sm_marker

\* A variable newer than memory is valid: a flush never stores a placeholder
\* (flush_reg, invalidate_promoted, end_conditional_arm).
DirtyIsValid == e.dirty \subseteq e.valid

\* What the emitter relies on from one instruction to the next holds at every
\* point of every program: no flags stranded, markers owned, dirty variables
\* valid.
EmitterSound == TypeOK /\ NoStrandedFlags /\ MarkerOwned /\ DirtyIsValid
===============================================================================
