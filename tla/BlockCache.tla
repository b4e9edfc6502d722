----------------------------- MODULE BlockCache -----------------------------
(***************************************************************************)
(* The translated-code cache of the DSP56300 emulator and the dispatch of  *)
(* compiled blocks over program memory that changes underneath it          *)
(* (crates/emu/src/jit.rs, core.rs, emit/mod.rs, crates/emu-ffi).          *)
(*                                                                         *)
(* P memory is written by the guest (MOVEM, MOVEP to P) and by the host    *)
(* (DMA through the FFI).  A write marks a shared dirty bit and bumps a    *)
(* wrapping generation counter; nothing else happens until the run loop    *)
(* next dispatches a block whose range covers the word.                    *)
(*                                                                         *)
(* A compiled function is represented by what it was compiled from: func   *)
(* maps every address of the block to the word read there, and insts is    *)
(* the set of addresses at which its instructions start.                   *)
(***************************************************************************)
EXTENDS Integers, FiniteSets

CONSTANTS
    PramSize,         \* number of words of P memory (p_space_end)
    MaxBlockLen,      \* instruction cap of a block (MAX_BLOCK_LEN)
    MaxTranslations,  \* cap on retained translations (MAX_TRANSLATIONS)
    GenMod,           \* the generation counter wraps here (2^32 in the code)
    Programs,         \* initial contents of P memory
    Stored,           \* words that writes store in P memory
    Stops,            \* DO boundaries (LA+1) that dispatches happen under
    WriteBound        \* bound: changes of P memory in a behaviour

ASSUME SizeAssumption ==
    /\ PramSize \in Nat \ {0}
    /\ MaxBlockLen \in Nat \ {0}
    /\ MaxTranslations \in Nat
    /\ GenMod \in Nat \ {0}
    /\ WriteBound \in Nat

(***************************************************************************)
(* Words are told apart by what the emitter and the run loop do with them. *)
(*   op     a one-word instruction, also the word read outside P memory    *)
(*   op2    a two-word instruction; any word may be its second one         *)
(*   jmp    a block terminator                                             *)
(*   movem  an instruction that writes P memory                            *)
(*   movep  a peripheral access, whose callback runs host code             *)
(*   repm   REP of an instruction that writes P memory, its second word;   *)
(*          compiled as one native loop                                    *)
(***************************************************************************)
Word == {"op", "op2", "jmp", "movem", "movep", "repm"}

Addr == 0 .. PramSize - 1

(* A DO-loop boundary is LA+1; NoStop stands for u32::MAX (no loop active) *)
(* and for every boundary past the end of P memory.                        *)
NoStop == PramSize + 2

ASSUME ProgramAssumption ==
    /\ Programs \subseteq [Addr -> Word]
    /\ Stored \subseteq Word
    /\ Stops \subseteq 0 .. NoStop

VARIABLES
    pram,          \* P memory
    dirty,         \* addresses whose dirty bit is set
    generation,    \* PramDirtyBitmap.generation
    writes,        \* history: how many times P memory has changed
    blocks,        \* CodeCache.blocks: an entry per start address
    max_span,      \* CodeCache.max_span
    translations,  \* retained translations, keyed by start, stop and words
    run            \* the compiled block being executed, or NoRun

vars == <<pram, dirty, generation, writes, blocks, max_span, translations, run>>

NoBlock == [end_pc |-> 0]
NoRun == [end_pc |-> 0]

ReadPram(p, a) == IF a \in Addr THEN p[a] ELSE "op"

InstLen(w) == IF w \in {"op2", "repm"} THEN 2 ELSE 1

(* What the emitter counts towards the cap: REP and its target are two.    *)
Count(w) == IF w = "repm" THEN 2 ELSE 1

IsBlockTerminator(w) == w = "jmp"
WritesPMemory(w) == w = "movem"
NeedsExitCheck(w) == w = "movep"

(* emit_block inlines this REP: it looks at stack faults, REP and DO in    *)
(* its target, not at P writes, and goes on after it.                      *)
RepeatsPWrite(w) == w = "repm"

-----------------------------------------------------------------------------
(* PramDirtyBitmap.                                                        *)

IsRangeDirty(start_pc, end_pc) ==
    \E a \in start_pc .. end_pc - 1 : a \in dirty

(* Variant: the generation is not bumped.                                  *)
MarkDirtyNoBump(a) ==
    /\ writes < WriteBound
    /\ dirty' = dirty \cup {a}
    /\ writes' = writes + 1
    /\ UNCHANGED generation

MarkDirty(a) ==
    /\ writes < WriteBound
    /\ dirty' = dirty \cup {a}
    /\ generation' = (generation + 1) % GenMod
    /\ writes' = writes + 1

-----------------------------------------------------------------------------
(* emit_block: the block that starts at start_pc covers the instructions   *)
(* insts and ends before end_pc.  Every instruction but the last one is    *)
(* followed by its sequential successor; a terminator, a write to P        *)
(* memory, the DO boundary, the cap and the end of P memory end the block. *)

(* Variant: a write to P memory does not end the block.                    *)
EndsBlockNoPWrite(w, next_pc, stop_pc) ==
    IsBlockTerminator(w) \/ next_pc >= stop_pc

EndsBlock(w, next_pc, stop_pc) ==
    IsBlockTerminator(w) \/ next_pc >= stop_pc \/ WritesPMemory(w)

EmitBlock(start_pc, stop_pc, end_pc, insts) ==
    LET word(i) == ReadPram(pram, i)
        next(i) == i + InstLen(word(i))
        upto(i) == {j \in insts : j <= i}
        counted(i) == Cardinality(upto(i))
                        + Cardinality({j \in upto(i) : Count(word(j)) = 2})
    IN  /\ start_pc \in insts
        /\ insts \subseteq Addr
        /\ \A i \in insts :
              /\ i # start_pc => \E j \in insts : next(j) = i
              /\ \/ /\ next(i) = end_pc
                    /\ \/ EndsBlock(word(i), next(i), stop_pc)
                       \/ counted(i) >= MaxBlockLen
                       \/ next(i) >= PramSize
                 \/ /\ next(i) \in insts
                    /\ ~EndsBlock(word(i), next(i), stop_pc)
                    /\ counted(i) < MaxBlockLen

(* block_words: the words a block covers, as the function its code is.     *)
BlockWords(start_pc, end_pc) ==
    [a \in start_pc .. end_pc - 1 |-> ReadPram(pram, a)]

PramMatches(start_pc, t) ==
    \A a \in start_pc .. t.end_pc - 1 : ReadPram(pram, a) = t.func[a]

(* Retained translations of this start and boundary that still match.      *)
Candidates(start_pc, stop_pc) ==
    {t \in translations :
        t.start = start_pc /\ t.stop = stop_pc /\ PramMatches(start_pc, t)}

CompileBlock(start_pc, stop_pc, end_pc, insts) ==
    /\ EmitBlock(start_pc, stop_pc, end_pc, insts)
    /\ translations' =
          (IF Cardinality(translations) >= MaxTranslations
           THEN {} ELSE translations)
            \cup {[start |-> start_pc, stop |-> stop_pc, end_pc |-> end_pc,
                   insts |-> insts, func |-> BlockWords(start_pc, end_pc)]}

(* get_or_compile_block yields a block ending at end_pc that covers insts. *)
GetOrCompileBlock(start_pc, stop_pc, end_pc, insts) ==
    \/ /\ \E t \in Candidates(start_pc, stop_pc) :
             t.end_pc = end_pc /\ t.insts = insts
       /\ UNCHANGED translations
    \/ /\ Candidates(start_pc, stop_pc) = {}
       /\ CompileBlock(start_pc, stop_pc, end_pc, insts)

-----------------------------------------------------------------------------
(* CodeCache.                                                              *)

(* Variant: blocks that start before lo are not looked at.                 *)
InvalidatedRangeNoWindow(lo, hi) ==
    [pc \in Addr |->
        IF pc >= lo /\ pc <= hi /\ blocks[pc].end_pc > lo
        THEN NoBlock ELSE blocks[pc]]

(* The cache after invalidate_range(lo, hi): only the window the widest    *)
(* block ever inserted allows is scanned.                                  *)
InvalidatedRange(lo, hi) ==
    [pc \in Addr |->
        IF /\ pc >= lo - (IF max_span = 0 THEN 0 ELSE max_span - 1)
           /\ pc <= hi
           /\ blocks[pc].end_pc > lo
        THEN NoBlock ELSE blocks[pc]]

InvalidatedAll == [pc \in Addr |-> NoBlock]

SpanWith(span) == IF span > max_span THEN span ELSE max_span

-----------------------------------------------------------------------------
Init ==
    /\ pram \in Programs
    /\ dirty = {}
    /\ generation = 0
    /\ writes = 0
    /\ blocks = InvalidatedAll
    /\ max_span = 0
    /\ translations = {}
    /\ run = NoRun

(* Variant: a block cached for another loop is kept across its boundary.   *)
NeedsEvictNoBoundary(pc, stop_pc) ==
    /\ blocks[pc].generation # generation
    /\ IsRangeDirty(pc, blocks[pc].end_pc)

NeedsEvict(pc, stop_pc) ==
    \/ stop_pc > pc /\ stop_pc < blocks[pc].end_pc
    \/ /\ blocks[pc].generation # generation
       /\ IsRangeDirty(pc, blocks[pc].end_pc)

Usable(pc, stop_pc) == blocks[pc] # NoBlock /\ ~NeedsEvict(pc, stop_pc)

Enter(pc, stop_pc, block) ==
    run' = [start |-> pc, pc |-> pc, stop |-> stop_pc, end_pc |-> block.end_pc,
            insts |-> block.insts, func |-> block.func]

(* The run loop finds a usable block: its generation is refreshed.         *)
DispatchCached(pc, stop_pc) ==
    /\ run = NoRun
    /\ Usable(pc, stop_pc)
    /\ blocks' = [blocks EXCEPT ![pc].generation = generation]
    /\ Enter(pc, stop_pc, blocks[pc])
    /\ UNCHANGED <<pram, dirty, generation, writes, max_span, translations>>

(* The new block is inserted and entered.  If a word of it is dirty, every *)
(* cached block sharing its words is dropped and then the bits are cleared. *)
Install(pc, stop_pc, end_pc, insts) ==
    LET block == [end_pc |-> end_pc, insts |-> insts, generation |-> generation,
                  func |-> BlockWords(pc, end_pc)]
        stale == IsRangeDirty(pc, end_pc)
        kept == IF stale THEN InvalidatedRange(pc, end_pc - 1) ELSE blocks
    IN  /\ dirty' = IF stale THEN dirty \ (pc .. end_pc - 1) ELSE dirty
        /\ blocks' = [kept EXCEPT ![pc] = block]
        /\ max_span' = SpanWith(end_pc - pc)
        /\ Enter(pc, stop_pc, block)

(* The run loop finds no block, or evicts the one it finds: a translation  *)
(* is built or reused, and installed.                                      *)
DispatchFresh(pc, stop_pc) ==
    /\ run = NoRun
    /\ ~Usable(pc, stop_pc)
    /\ \E end_pc \in pc .. PramSize + 1 :
       \E insts \in SUBSET (pc .. end_pc - 1) :
          /\ GetOrCompileBlock(pc, stop_pc, end_pc, insts)
          /\ Install(pc, stop_pc, end_pc, insts)
    /\ UNCHANGED <<pram, generation, writes>>

Running == run # NoRun

Current == run.func[run.pc]

(* Compiled code goes on to the next instruction of the block, or returns  *)
(* to the run loop at the end of the block or when an exit is requested.   *)
Continue(exit_requested) ==
    LET next_pc == run.pc + InstLen(Current)
    IN  run' = IF exit_requested \/ next_pc >= run.end_pc
               THEN NoRun ELSE [run EXCEPT !.pc = next_pc]

ExecPlain ==
    /\ Running
    /\ ~WritesPMemory(Current) /\ ~RepeatsPWrite(Current)
    /\ Continue(FALSE)
    /\ UNCHANGED <<pram, dirty, generation, writes, blocks, max_span,
                   translations>>

(* jit_write_mem, P space: a word is stored and marked only if it changes. *)
JitWriteMem(a, w) ==
    /\ pram[a] # w
    /\ pram' = [pram EXCEPT ![a] = w]
    /\ MarkDirty(a)
    /\ UNCHANGED <<blocks, max_span, translations>>

(* A block's MOVEM changes a word of P memory.  (One that stores the word  *)
(* already there changes nothing.)  A repeated one is taken to change at   *)
(* most one word.                                                          *)
ExecWriteP ==
    /\ Running
    /\ WritesPMemory(Current) \/ RepeatsPWrite(Current)
    /\ Continue(FALSE)
    /\ \/ \E a \in Addr, w \in Stored : JitWriteMem(a, w)
       \/ UNCHANGED <<pram, dirty, generation, writes, blocks, max_span,
                      translations>>

(* The callback of a peripheral access moves a word into P memory through  *)
(* the FFI and requests an exit, as the exit check after it expects.       *)
ExecCallbackWrite ==
    /\ Running
    /\ NeedsExitCheck(Current)
    /\ Continue(TRUE)
    /\ \E a \in Addr, w \in Stored : JitWriteMem(a, w)

(* Between blocks: a write by a single-stepped MOVEM, or a DMA write of    *)
(* the host (dsp56300_write_memory), which marks under the same condition. *)
WriteBetweenBlocks ==
    /\ run = NoRun
    /\ \E a \in Addr, w \in Stored : JitWriteMem(a, w)
    /\ UNCHANGED run

(* dsp56300_invalidate_cache after the host has changed P memory behind    *)
(* the dirty bitmap, as its documentation asks.                            *)
ExternalLoad ==
    /\ run = NoRun
    /\ writes < WriteBound
    /\ writes' = writes + 1
    /\ \E a \in Addr, w \in Stored : pram' = [pram EXCEPT ![a] = w]
    /\ blocks' = InvalidatedAll
    /\ translations' = {}
    /\ UNCHANGED <<dirty, generation, max_span, run>>

(* JitEngine::invalidate_blocks and invalidate_range, called by embedders. *)
InvalidateBlocks ==
    /\ run = NoRun
    /\ blocks' = InvalidatedAll
    /\ UNCHANGED <<pram, dirty, generation, writes, max_span, translations, run>>

InvalidateRange(lo, hi) ==
    /\ run = NoRun
    /\ blocks' = InvalidatedRange(lo, hi)
    /\ UNCHANGED <<pram, dirty, generation, writes, max_span, translations, run>>

(* dsp56300_reset: a new state (clean bitmap, generation 0), no cache.     *)
Reset ==
    /\ run = NoRun
    /\ dirty' = {}
    /\ generation' = 0
    /\ blocks' = InvalidatedAll
    /\ translations' = {}
    /\ UNCHANGED <<pram, writes, max_span, run>>

Next ==
    \/ \E pc \in Addr, stop_pc \in Stops :
          DispatchCached(pc, stop_pc) \/ DispatchFresh(pc, stop_pc)
    \/ ExecPlain
    \/ ExecWriteP
    \/ ExecCallbackWrite
    \/ WriteBetweenBlocks
    \/ ExternalLoad
    \/ InvalidateBlocks
    \/ \E lo, hi \in Addr : InvalidateRange(lo, hi)
    \/ Reset

Spec == Init /\ [][Next]_vars

-----------------------------------------------------------------------------
Code == UNION {[A -> Word] : A \in SUBSET (0 .. PramSize)}

Block == [end_pc : 0 .. PramSize + 1, insts : SUBSET Addr,
          generation : 0 .. GenMod - 1, func : Code]

Translation == [start : Addr, stop : 0 .. NoStop, end_pc : 0 .. PramSize + 1,
                insts : SUBSET Addr, func : Code]

RunState == [start : Addr, pc : Addr, stop : 0 .. NoStop, end_pc : 0 .. PramSize + 1,
             insts : SUBSET Addr, func : Code]

TypeOK ==
    /\ pram \in [Addr -> Word]
    /\ dirty \subseteq Addr
    /\ generation \in 0 .. GenMod - 1
    /\ writes \in 0 .. WriteBound
    /\ blocks \in [Addr -> Block \cup {NoBlock}]
    /\ max_span \in 0 .. PramSize + 1
    /\ translations \subseteq Translation
    /\ run \in RunState \cup {NoRun}

(* The instruction that compiled code is about to execute is the one in P  *)
(* memory, operand word included, whatever was written before or during    *)
(* the block (run loop eviction, emit_block ending blocks at P writes).    *)
ExecutesCurrentCode ==
    Running => \A a \in run.pc .. run.pc + InstLen(Current) - 1 :
                   run.func[a] = ReadPram(pram, a)

(* A cached block that no longer matches P memory still has a dirty bit in *)
(* its range: clearing the bits of one block (clear_dirty_range) never     *)
(* hides a write from another block that covers the same words.            *)
StaleIsDirty ==
    \A pc \in Addr : blocks[pc] # NoBlock =>
        \A a \in pc .. blocks[pc].end_pc - 1 :
            a \in dirty \/ blocks[pc].func[a] = ReadPram(pram, a)

(* "When this matches the current pram_dirty.generation, the dirty bitmap  *)
(* scan is skipped (the block is known clean)" (jit.rs, CompiledBlock).    *)
GenerationMeansClean ==
    \A pc \in Addr :
        blocks[pc] # NoBlock /\ blocks[pc].generation = generation =>
            ~IsRangeDirty(pc, blocks[pc].end_pc)

\* No instruction of the running block lies at or past its boundary.
BeforeBoundary ==
    Running => \A i \in run.insts : run.stop > run.start => i < run.stop

(* A block dispatched inside a DO loop has no instruction at or past LA+1  *)
(* unless it starts there, so that the run loop sees the sequential        *)
(* arrival at LA+1, also when the block was built for another loop.  The   *)
(* cache stays well typed.                                                 *)
BoundaryRespected == TypeOK /\ BeforeBoundary

-----------------------------------------------------------------------------
(* The inductive strengthening.  A block starts with an instruction, each  *)
(* instruction is followed by another one of the block or by its end, and  *)
(* one that writes P memory by its end.                                    *)
Shaped(start, b) ==
    /\ start \in b.insts
    /\ b.insts \subseteq start .. b.end_pc - 1
    /\ b.func \in [start .. b.end_pc - 1 -> Word]
    /\ \A i \in b.insts :
          LET next == i + InstLen(b.func[i])
          IN  \/ next = b.end_pc
              \/ next \in b.insts /\ ~WritesPMemory(b.func[i])

ShapeInv ==
    /\ \A pc \in Addr : blocks[pc] # NoBlock => Shaped(pc, blocks[pc])
    /\ \A t \in translations : Shaped(t.start, t)
    /\ Running => Shaped(run.start, run) /\ run.pc \in run.insts

(* No cached block is wider than the window invalidate_range looks back.   *)
SpanInv == \A pc \in Addr : blocks[pc].end_pc - pc <= max_span

(* The counter has not wrapped, and no block is ahead of it.               *)
GenInv ==
    /\ generation <= writes
    /\ \A pc \in Addr :
          blocks[pc] # NoBlock => blocks[pc].generation <= generation

(* No REP of an instruction that writes P memory, at the start or written. *)
NoRepeatedWrite ==
    /\ \A p \in Programs : \A a \in Addr : ~RepeatsPWrite(p[a])
    /\ \A w \in Stored : ~RepeatsPWrite(w)

(* The rest of the block being executed is what P memory holds.            *)
RunInv ==
    Running => \A a \in run.pc .. run.end_pc - 1 :
                   run.func[a] = ReadPram(pram, a)

IInv ==
    /\ TypeOK
    /\ ShapeInv
    /\ SpanInv
    /\ GenInv
    /\ StaleIsDirty
    /\ GenerationMeansClean
    /\ RunInv

=============================================================================
