------------------------------- MODULE LoopBlock -------------------------------
(***************************************************************************)
(* DO and REP loops in compiled blocks: the run loop, the block cache as   *)
(* far as DO boundaries go, and emit_block with what it inlines (REP, DO   *)
(* nests, forward skips).  m is the machine of LoopStep; while a block     *)
(* runs, m.pc is the place in the compiled code.                           *)
(*                                                                         *)
(* The cycle quantum of inlined loops is left out: a back edge may always  *)
(* bail out.                                                               *)
(***************************************************************************)
EXTENDS LoopStep, Sequences, FiniteSets

CONSTANTS Caps,        \* instruction caps of a block (MAX_BLOCK_LEN is 32)
          MaxInline    \* MAX_INLINE_LEN of is_do_body_inlineable

ASSUME CapAssumption == Caps \subseteq Nat \ {0} /\ MaxInline \in Nat

VARIABLES cap,     \* max_block_len of the engine
          cache,   \* per start address: the boundary compiled for, and end_pc
          blk      \* the running block

(* A running block has                                                     *)
(*   stop, end   the boundary it was compiled for and its end_pc           *)
(*   il          the inst_len variable                                     *)
(*   rep         inside an inlined REP                                     *)
(*   loops       the inlined DO loops entered, innermost last              *)

vars == <<code, m, cap, cache, blk>>

NoStop == Size + 2       \* u32::MAX
NoEntry == [end |-> 0]
NoBlk == [end |-> 0]

StopPc == IF m.lf THEN mask_pc(m.la + 1) ELSE NoStop

Init == /\ StepInit
        /\ cap \in Caps
        /\ cache = [a \in Addrs |-> NoEntry]
        /\ blk = NoBlk

-------------------------------------------------------------------------------
(* What emit_block makes of the instructions.                              *)

At(c, p) == c[mask_pc(p)]
Terminators == {"forever", "enddo", "brk", "bcc", "jmp", "pop"}
MayArmStackFault(i) == i.op \in {"enddo", "pop"}

\* The address behind the instruction, or behind a REP and its target.
Behind(c, p) == p + At(c, p).len + (IF At(c, p).op = "rep" THEN At(c, p + 1).len ELSE 0)

\* The instructions met walking from lo, into loop bodies, up to hi.
Walk(c, lo, hi) ==
    LET from[p \in lo .. hi] ==
            {p} \cup (IF Behind(c, p) <= hi THEN from[Behind(c, p)] ELSE {})
    IN  IF lo <= hi THEN from[lo] ELSE {}

Boundaries(c, lo, hi) == {lo} \cup {Behind(c, p) : p \in Walk(c, lo, hi)}

\* The instruction count the emitter charges: a REP counts with its target.
Charge(c, lo, hi) ==
    LET W == Walk(c, lo, hi)
    IN  Cardinality(W) + Cardinality({p \in W : At(c, p).op = "rep"})

\* Forward skips in [lo, hi] go forward, no further than last, to the start
\* of an instruction, and nest; no loop is under their control.
SkipsNest(c, lo, hi, last) ==
    \A p \in Walk(c, lo, hi) : At(c, p).op = "bcc" =>
        LET t == At(c, p).to IN
        /\ t >= Behind(c, p) /\ t <= last /\ t \in Boundaries(c, lo, hi)
        /\ \A q \in Walk(c, lo, hi) : q > p /\ q < t =>
              /\ At(c, q).op \notin {"do", "rep"}
              /\ At(c, q).op = "bcc" => At(c, q).to <= t

\* is_do_body_inlineable.  The nested bodies are walked with their loops:
\* each ends strictly inside the one around it.  (The limit of 8 levels is
\* left out: nothing but the size of the code depends on it.)
IsDoBodyInlineable(c, start, la, stop) ==
    LET W == Walk(c, start, la)
        Loops == {p \in W : At(c, p).op = "do"}
    IN  /\ la + 1 < stop /\ start <= la /\ la < Size
        /\ la + 1 \in Boundaries(c, start, la)
        /\ Charge(c, start, la) <= MaxInline
        /\ \A p \in W :
              /\ At(c, p).op \in {"plain", "setla", "do", "bcc", "rep"}
              /\ At(c, p).op = "rep" => ~MayArmStackFault(At(c, p + 1))
        /\ SkipsNest(c, start, la, la)
        /\ \A p \in Loops :
              /\ p + 2 <= At(c, p).to /\ At(c, p).to < la
              /\ At(c, p).to + 1 \in Boundaries(c, start, la)
              /\ \A q \in W : q > p /\ q <= At(c, p).to =>
                    /\ At(c, q).op = "do" => At(c, q).to < At(c, p).to
                    /\ At(c, q).op = "bcc" => At(c, q).to <= At(c, p).to

\* straightline_skip_region_len is Some.
IsSkipInlineable(c, p, stop) ==
    LET t == At(c, p).to
        W == Walk(c, Behind(c, p), t - 1)
    IN  /\ t >= Behind(c, p) /\ t < stop /\ t <= Size
        /\ t \in Boundaries(c, Behind(c, p), t - 1)
        /\ \A q \in W : At(c, q).op \in {"plain", "exit", "setla", "bcc"}
        /\ SkipsNest(c, Behind(c, p), t - 1, t)

InlinesDo(c, p, stop) == At(c, p).op = "do" /\ IsDoBodyInlineable(c, p + 2, At(c, p).to, stop)
InlinesRep(c, p) == At(c, p).op = "rep" /\ ~MayArmStackFault(At(c, p + 1))

\* emit_block: where the block ends from p on, with n instructions before p.
EndFrom(c, max, stop) ==
    LET end[p \in 0 .. Size + 1] == [n \in 0 .. max + MaxInline + 2 |->
          LET next == IF InlinesDo(c, p, stop) THEN At(c, p).to + 1 ELSE Behind(c, p)
              count == n + 1 + (IF InlinesDo(c, p, stop) THEN Charge(c, p + 2, At(c, p).to)
                                ELSE IF InlinesRep(c, p) THEN 1 ELSE 0)
              region == 1 + Charge(c, Behind(c, p), At(c, p).to - 1)
          IN  IF n >= max \/ p >= Size THEN p
              ELSE IF At(c, p).op = "bcc" /\ IsSkipInlineable(c, p, stop) /\ n + region <= max
                   THEN end[At(c, p).to][n + region]
              ELSE IF \/ At(c, p).op \in Terminators
                      \/ At(c, p).op = "do" /\ ~InlinesDo(c, p, stop)
                   THEN next
              ELSE IF At(c, p).op = "rep" /\ ~InlinesRep(c, p) THEN p + 1
              ELSE IF next >= stop THEN next
              ELSE end[next][count]]
    IN  end

EndPc(c, max, start, stop) == EndFrom(c, max, stop)[start][0]

-------------------------------------------------------------------------------
(* The run loop.                                                           *)

\* Mutated: a block that runs across the boundary is kept.
UsableAnyStop(e, stop) == e # NoEntry

Usable(e, stop) == e # NoEntry /\ ~(stop > m.pc /\ stop < e.end)

\* The DO-boundary part of the dispatch: evict, compile, enter.
Dispatch ==
    /\ blk = NoBlk /\ ~m.armed /\ ~m.rep
    /\ LET fresh == [stop |-> StopPc, end |-> EndPc(code, cap, m.pc, StopPc)]
           e == IF Usable(cache[m.pc], StopPc) THEN cache[m.pc] ELSE fresh
       IN  /\ cache' = [cache EXCEPT ![m.pc] = e]
           /\ blk' = [stop |-> e.stop, end |-> e.end, il |-> 0, rep |-> FALSE,
                      loops |-> << >>]
    /\ UNCHANGED <<code, m, cap>>

\* Blocks are not used in a fault's shadow nor in a live REP; the host may
\* step at any time between blocks.
StepInRun ==
    /\ blk = NoBlk
    /\ Step
    /\ UNCHANGED <<cap, cache, blk>>

\* The block returns with pc_advance; the run loop looks for a loop end.
Return(s, adv) == m' = LoopBack(s, adv) /\ blk' = NoBlk

\* The compiled code goes on at p.
GoOn(s, b, p) == m' = [s EXCEPT !.pc = p] /\ blk' = b

\* The top level of the block has reached p.
Reach(s, b, p) ==
    IF b.loops = << >> /\ p = b.end THEN Return([s EXCEPT !.pc = mask_pc(p)], b.il)
    ELSE GoOn(s, b, p)

\* Mutated: the back edge keeps the count it started with.
EndInstructionStaleCount(s, b, p) ==
    LET inner == b.loops[Len(b.loops)]
    IN  IF b.loops = << >> \/ p # inner.la + 1 THEN Reach(s, b, p)
        ELSE IF s.lc = 1
        THEN Reach(enddo_cleanup(s), [b EXCEPT !.loops = SubSeq(@, 1, Len(@) - 1)], p)
        ELSE GoOn(s, b, inner.start)

\* Mutated: the exit of an inlined loop forgets the frame.
EndInstructionNoCleanup(s, b, p) ==
    LET inner == b.loops[Len(b.loops)]
        t == [s EXCEPT !.lc = Decremented(@)]
    IN  IF b.loops = << >> \/ p # inner.la + 1 THEN Reach(s, b, p)
        ELSE IF t.lc = 0 THEN Reach(t, [b EXCEPT !.loops = SubSeq(@, 1, Len(@) - 1)], p)
        ELSE GoOn(t, b, inner.start)

\* An instruction of the block has ended and p is next.  At the end of an
\* inlined body: out of the loop, around again, or around again through the
\* run loop (emit_loop_preemption_check).
EndInstruction(s, b, p) ==
    LET inner == b.loops[Len(b.loops)]
        t == [s EXCEPT !.lc = Decremented(@)]
    IN  IF b.loops = << >> \/ p # inner.la + 1 THEN Reach(s, b, p)
        ELSE IF t.lc = 0
        THEN Reach(enddo_cleanup(t), [b EXCEPT !.loops = SubSeq(@, 1, Len(@) - 1)], p)
        ELSE \/ GoOn(t, b, inner.start)
             \/ Return([t EXCEPT !.pc = inner.start], b.il)

-------------------------------------------------------------------------------
(* The instructions of a running block.                                    *)

Cur == At(code, m.pc)
InLoop == blk.loops # << >>
IsInlineDo == Cur.op = "do" /\ (InLoop \/ InlinesDo(code, m.pc, blk.stop))
IsSkip == /\ Cur.op = "bcc"
          /\ InLoop \/ (IsSkipInlineable(code, m.pc, blk.stop) /\ Cur.to <= blk.end)
IsTerminator == \/ Cur.op \in Terminators /\ ~IsSkip
                \/ Cur.op = "do" /\ ~IsInlineDo

Running == blk # NoBlk /\ UNCHANGED <<code, cap, cache>>

\* One iteration of an inlined REP.
RepIteration ==
    /\ Running /\ blk.rep
    /\ LET t == [Exec(m, Cur, FALSE)[1] EXCEPT !.lc = Decremented(m.lc)]
           b == [blk EXCEPT !.il = Cur.len, !.rep = t.lc # 0]
       IN  IF b.rep THEN GoOn(t, b, m.pc)
           ELSE EndInstruction([t EXCEPT !.lc = t.temp], b, m.pc + Cur.len)

\* emit_rep_inline up to its entry guard.
InlineRep ==
    /\ Running /\ ~blk.rep /\ InlinesRep(code, m.pc)
    /\ LET t == [m EXCEPT !.temp = m.lc, !.lc = Cur.arg]
       IN  IF Cur.arg = 0 THEN EndInstruction([t EXCEPT !.lc = t.temp], blk, Behind(code, m.pc))
           ELSE GoOn(t, [blk EXCEPT !.rep = TRUE], m.pc + 1)

\* emit_rep_first_call_arm: the block ends at the REP, branch style.
LegacyRep ==
    /\ Running /\ ~blk.rep /\ Cur.op = "rep" /\ ~InlinesRep(code, m.pc)
    /\ LET t == ExecRep(m, Cur)
       IN  IF Cur.arg = 0
           THEN Return([t EXCEPT !.rep = FALSE, !.lc = t.temp, !.pc = mask_pc(@ + 2)], 0)
           ELSE Return([t EXCEPT !.pc = mask_pc(@ + 1)], 0)

\* emit_do_inline up to the first instruction of the body.  A fault bails
\* out before the annul check.
InlineDo ==
    /\ Running /\ ~blk.rep /\ IsInlineDo
    /\ LET t == do_setup(m, Cur.to, Cur.arg, FALSE)
           b == [blk EXCEPT !.il = 2]
       IN  IF t.armed THEN Return([t EXCEPT !.pc = m.pc + 2], b.il)
           ELSE IF Cur.arg = 0
           THEN Reach(enddo_cleanup(t), [b EXCEPT !.il = 0], Cur.to + 1)
           ELSE GoOn(t, [b EXCEPT !.loops = Append(@, [start |-> m.pc + 2, la |-> Cur.to])],
                     m.pc + 2)

\* A forward skip compiled inside the block.
Skip ==
    /\ Running /\ ~blk.rep /\ IsSkip
    /\ LET b == [blk EXCEPT !.il = Cur.len]
       IN  \/ Reach(m, b, Cur.to)
           \/ EndInstruction(m, b, m.pc + Cur.len)

Terminator ==
    /\ Running /\ ~blk.rep /\ IsTerminator
    /\ \E taken \in BOOLEAN :
          LET e == Exec(m, Cur, taken)
          IN  Return([e[1] EXCEPT !.pc = mask_pc(@ + e[2])], e[2])

\* Any other instruction.  After a peripheral write the host may want the
\* block to return.
Ordinary ==
    /\ Running /\ ~blk.rep /\ ~IsTerminator
    /\ Cur.op \in {"plain", "exit", "setla"}
    /\ LET t == Exec(m, Cur, FALSE)[1]
           next == m.pc + Cur.len
       IN  \/ EndInstruction(t, [blk EXCEPT !.il = Cur.len], next)
           \/ Cur.op = "exit" /\ Return([t EXCEPT !.pc = mask_pc(next)], Cur.len)

InBlock == \/ RepIteration \/ InlineRep \/ LegacyRep \/ InlineDo \/ Skip
           \/ Terminator \/ Ordinary

Next == Dispatch \/ StepInRun \/ InBlock

Spec == Init /\ [][Next]_vars

\* The host keeps running the core and compiled code keeps executing.
FairSpec == Spec /\ WF_vars(Next)

-------------------------------------------------------------------------------
(* Properties.                                                             *)

LoopRecords == [start : Addrs, la : Addrs]

\* The machine, the cache and the running block are of their types: LC and
\* TEMP within the width of the register, pc inside program memory also
\* between the instructions of a block.
TypeOK ==
    /\ m \in [pc : Addrs, la : Addrs, lc : 0 .. LcMod - 1, temp : 0 .. LcMod - 1,
              lf : BOOLEAN, fv : BOOLEAN, rep : BOOLEAN, stk : StackRecords,
              armed : BOOLEAN]
    /\ \A a \in Addrs : cache[a] = NoEntry \/ cache[a].end \in 1 .. Size
    /\ blk = NoBlk \/ (blk.end \in 1 .. Size /\ blk.loops \in Seq(LoopRecords))

\* What the architecture sees of a running block: loop_rep is not set
\* inside an inlined REP.
Arch == [m EXCEPT !.rep = @ \/ (blk # NoBlk /\ blk.rep)]

Reference == INSTANCE LoopStep WITH m <- Arch

\* Running in blocks, with loops inlined, preempted and resumed, blocks
\* cached and evicted at loop boundaries, executes the same instructions
\* with the same loop state as execute_one does one at a time.
ImplementsStep == Reference!StepSpec

\* What the manual asks of a program with loops, of the instruction at pc
\* and of the loop in progress.  LA is not moved to another end.
LaKept == ~m.armed /\ m.lf /\ code[m.pc].op = "setla" => code[m.pc].to = m.la

\* An inner loop has an end of its own, REP is not the last word of a body nor
\* annulled at its end, a branch does not go to the word behind the body; and
\* the stack has room for a loop that is annulled.
Orderly ==
    LET i == code[m.pc]
        behind == mask_pc(m.la + 1)
    IN  /\ LaKept
        /\ ~m.armed /\ i.op = "do" /\ i.arg = 0 => ~do_setup(m, i.to, 0, FALSE).armed
        /\ ~m.armed /\ m.lf =>
              /\ i.op = "do" => i.to # m.la
              /\ i.op = "rep" => m.pc # m.la
              /\ i.op = "rep" /\ i.arg = 0 => mask_pc(m.pc + 2) # behind
              /\ i.op = "bcc" => i.to # behind

\* emit_loop_preemption_check: "Loop state (LF/LA/LC and the loop stack) is
\* architectural at iteration boundaries".  The loops a block is inside of
\* are exactly the frames on top of the hardware stack, the innermost one
\* with its LA in the register.  The machine stays well typed.
InlinedLoopsOnStack ==
    /\ TypeOK
    /\ blk # NoBlk =>
        LET n == Len(blk.loops)
            LaOf(k) == IF k = n THEN m.la ELSE m.stk.hi[m.stk.ptr - 2 * (n - k) + 1]
        IN  /\ n > 0 => m.lf /\ ~m.fv
            /\ m.stk.ptr >= 2 * n
            /\ \A k \in 1 .. n :
                  /\ m.stk.hi[m.stk.ptr - 2 * (n - k)] = blk.loops[k].start
                  /\ LaOf(k) = blk.loops[k].la

\* A counted loop that is entered is left, however often it is preempted at
\* its back edge, evicted or single-stepped on the way.
LoopsEnd == m.lf ~> ~m.lf

===============================================================================
