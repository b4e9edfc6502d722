# A TLA+ verification of the DSP56300 emulator

The repository is a DSP56300 toolchain in Rust: a decoder and encoder
(`crates/core`), an assembler (`crates/asm`), a disassembler
(`crates/disasm`), a JIT-compiling emulator (`crates/emu`) and its C interface
(`crates/emu-ffi`). This directory models the emulator: its control (which code
runs after program memory changed, what the hardware stack holds after calls,
loops and faults, what an interrupt or a core fault does to the instruction
stream), its code generator (registers kept in host variables, condition codes
computed late) and its data paths (arithmetic and flags, address generation,
moves and the memory map).

## 1. Inventory

| Component | State | Operations | Interacts with |
|---|---|---|---|
| **Block cache and dispatch** (`jit.rs`, `emit/mod.rs`) | `CodeCache` (a block per start address, `max_span`), retained translations, instruction cache | the run loop's evict / compile / insert / execute, `invalidate_*`, reset | dirty bitmap, P memory, DO boundary (LA+1), host |
| **Dirty bitmap** (`core.rs`, `PramDirtyBitmap`) | one bit per P word packed in `u64`s, a wrapping generation | `mark_dirty`, `is_range_dirty`, `clear_dirty_range` | every P write; the run loop |
| **Hardware stack** (`core.rs`, `emit/mod.rs`, `emit/regs.rs`, `emit/bitops.rs`) | 16 slots of SSH:SSL, SP with UF and SE, SC, the mirror registers SSH and SSL | push/pop as methods, as extern helpers, as inlined code; writes of SP, SSL and SC; in-place writes of SSH | posts STACK_ERROR, with a shadow word budget |
| **Interrupt pipeline** (`core.rs`, `jit.rs`) | pending bits, level per source, pipeline state and stage, vector, saved PC, level to raise, shadow budget, parked countdown | `add`, arbitration, five stages, delivery of armed and parked faults, WAIT/STOP | stack (long frames), JSR family, run loop, single step |
| **Loops** (`emit/loops.rs`, `advance_pc`, run loop) | LA, LC, LF, FV, `loop_rep`, `pc_on_rep` | DO/DOR, ENDDO, BRKcc, REP; step, block and inlined forms | stack, dispatch boundary, pipeline |
| **Address generation** (`update_rn`, `emit/agu.rs`) | Rn, Nn, Mn | linear, modulo, multiple wrap-around and bit-reverse update, effective addresses | moves |
| **Data ALU, condition codes** (`emit/alu.rs`, `logical.rs`, `flags.rs`, helpers in `core.rs`) | A, B, X, Y, CCR; deferred flags at compile time | arithmetic, rounding, scaling, limiting | every instruction |
| **Register promotion, deferred flags** (`emit/regs.rs`, `flags.rs`, `loops.rs`) | which guest registers live in SSA values, one pending flag computation, its saturation marker, pending cycles | load, store, flush, conditional arms and merges, loop scopes | every exit of a block |
| **Moves, memory map** (`emit/moves.rs`, `mem.rs`, `bitops.rs`, `MemoryMap`) | buffers and callbacks | parallel moves, MOVEC/MOVEM/MOVEP, bit operations; constant, fast and general access | host code, dirty bitmap, stack (SSH) |
| **Jumps, branches, calls, returns** (`emit/control.rs`) | PC, stack | every conditional, relative, indirect and bit-test form | stack, decoder's lengths, interrupts |
| **Decode, encode, assembler, disassembler** | tables, symbols | pure translation | |
| **C interface** (`emu-ffi`) | owns state and engine | create, reset, step, run, memory access, snapshots | everything above |

Nothing in the emulator is multi-threaded. What makes it hard is that one
logical machine is implemented several times (methods, helpers, inlined code,
single step, blocks), that facts are cached (compiled words, dirty bits,
mirrors, budgets, registers, flags) and that host callbacks, peripherals and the
guest's own writes come in between. Correct means:

* compiled code is what P memory holds now, and a block stops where the DO loop
  around it must be noticed;
* whichever implementation runs, the stack is one LIFO stack and its error is
  reported once;
* an interrupt is served once, at its priority, with exactly one frame or none,
  and the interrupted code resumes where it stopped;
* step mode and block mode are the same machine;
* compiled code is never observed to have kept a register or a flag elsewhere,
  however the block is left;
* results, condition codes and addresses are those of exact arithmetic cut to the
  width of the machine, and an instruction reads all its operands before it
  writes any.

The hazards, each at its line, are in `PROJECT.json`.

## 2. Modules

| Module | Models | Built on |
|---|---|---|
| `BlockCache` | dispatch and translated-code cache over changing P memory | |
| `DirtyBitmap` | the packed bitmap that `BlockCache` abstracts to a set of addresses | |
| `StackOps` | the stack as operators on a record, one per implementation | |
| `HwStack` | a program using the stack; fault posting and budgets | `StackOps`; implements `BoundedStack` |
| `BoundedStack` | abstract: a LIFO stack of bounded capacity | |
| `Interrupts` | pipeline, faults, REP, WAIT/STOP, step and block execution of small programs | `StackOps` |
| `LoopStep` | DO and REP loops one instruction at a time: the reference | `StackOps` |
| `LoopBlock` | the same loops in compiled blocks; implements `LoopStep` | `LoopStep` |
| `AluOps` | numbers, flags, rounding, saturation, limiting: the helpers of the data ALU as operators | |
| `DataAlu` | the data ALU instructions, in short programs | `AluOps` |
| `Agu` | one address register under every mode and effective address | |
| `Codegen` | the emitter's register and flag bookkeeping, the code it emits, and the architecture beside it | |
| `Memory` | memory map, and the three ways the code reaches it | `AluOps` |
| `Moves` | move, peripheral, address and bit instructions | `Memory`, `StackOps` |
| `Control` | jumps, branches, calls, returns; lengths | `Moves` |
| `Instructions` | the machine that executes `Moves` and `Control`, with what each instruction means | `Control` |
| `BlockCacheProofs`, `DirtyBitmapProofs`, `HwStackProofs`, `InterruptsProofs`, `AguProofs`, `CodegenProofs`, `LoopBlockProofs`, `InstructionsProofs` | theorems and proofs | the module they name |
| `MC*` | instances for TLC | |

Operators whose comment says "Variant" or "Mutated" are deliberately wrong
forms of the definition that follows them. They are used by no action; each one
is there to show that a property notices the slip.

### BlockCache

A block is represented by what it was compiled from: `func` maps the addresses
it covers to the words read there, `insts` says where its instructions start.
Words are told apart only by what the emitter and the run loop do with them:
one- or two-word instruction, terminator, P write, peripheral access.

`DispatchCached` and `DispatchFresh` are the two ways through the dispatch of
`DspState::run`: the block is usable and its generation refreshed, or it is
missing or evicted (`NeedsEvict`) and a translation is reused (`Candidates`,
compared word by word as `pram_matches` does) or compiled (`EmitBlock`), after
which overlapping blocks are dropped and dirty bits cleared if a word is dirty
(`Install`). `EmitBlock` is the termination condition of `emit_block`, stated as
a constraint on the set of instruction starts instead of a loop. Execution is
one action per instruction, so a write can fall anywhere in a block:
`ExecWriteP` (MOVEM, MOVEP to P), `ExecCallbackWrite` (a peripheral callback
that writes P memory and requests an exit). `WriteBetweenBlocks` is a
single-stepped write or a host write (`dsp56300_write_memory`,
`dsp56300_write_memory_run`); `ExternalLoad` a change behind the bitmap followed
by `invalidate_cache`, as the interface asks; `InvalidateBlocks`,
`InvalidateRange`, `Reset` the rest.

Not told apart: a DO body inlined in a block and a forward conditional skip are
straight-line code here (`LoopBlock` has them). A REP of an instruction that
writes P memory is a word of its own, because `emit_block` inlines it and goes
on in the same block.

A callback that writes P memory *without* requesting an exit is not an action:
the words after it in the same block would then be stale by design of the exit
check, which only looks at `exit_requested`.

### DirtyBitmap

Array elements are sets of bit positions; the masks are `!0 << n`,
`(1 << n) - 1` and `range_mask`, with the full-width shift written out as the
code does. The properties compare with the plain set of marked addresses, which
is what `BlockCache` uses.

### StackOps, HwStack, BoundedStack

`stack_push` / `stack_pop` are the `DspState` methods, `inline_push` /
`inline_pop` the emitted sequences (which load the popped pair from the slot
where the method reads the mirrors), `write_ssh`, `write_ssh_tos`, `write_ssl`,
`write_sp` the extern helpers. SP's bit arithmetic becomes a pointer and two
flags: bit 4 of the incremented nibble is the wrap that sets SE, a borrow sets
both. `Depth` is 16 in the code.

`HwStack` has one action per kind of instruction that touches the stack. A
helper is preceded by a spill of its budget into `fault_budget_hint` and moves
the hint into `fault_budget` if it faults; inlined sequences store their budget
themselves; `LoopEnd` and `InterruptFrame` spill nothing. SC is a register like
others to the emitter: a MOVEC or a bit operation on it is a masked store
(`MoveToSC`) that no part of the stack notices. `moved` and `drift` are history:
the guest wrote SP, and how far SC was ahead of the pointer, modulo `Depth`, after the
guest's last write of SP or SC. `CounterFollowsPointer` says that it is still that far
ahead: nothing else moves one without the other. The refinement mapping takes slots
`1 .. ptr` as the frames of `BoundedStack` until an error is latched or SP is written;
a write of SC is no step of it.

### Interrupts

The machine is one record, and the code's sequence *execute; advance_pc;
process_pending_interrupts* is a composition of operators on it. `StepOne` is
`step_one` (with the armed window charged first), `RunStep` the run loop's
single-step legs (pipeline busy, or a legacy REP live), `RunBlock` a compiled
block, executed one instruction per step so that peripherals can post inside
it, with the pipeline ticked once when it ends; where a block may end other than
after a terminator is left open. `HostStep` is `execute_one`, which does not
look at `power_state`. `Post` is `InterruptPipeline::add`. Data registers are
abstracted; a condition is a free choice.

`frames`, `levels`, `owed` and `frame` are history variables: the return
addresses a correct program expects on the stack, the levels of the long
handlers in progress, the source dispatched but not vectored yet, and whether
the interrupt in flight stacked a frame. After a latched stack error or a guest
SP write, what the stack should hold is unknown (`Lost`), until SP is set to 0.

VBA is 0. LC and TEMP are only followed while a REP is live. SR is its two mask
bits; DO loops (LF) are in `LoopStep` and `LoopBlock`.

### LoopStep, LoopBlock

`LoopStep` is the step machine: `Exec` is an instruction compiled alone, `AdvancePc` is
`advance_pc`, REP arm and DO arm. `pc_on_rep` is set and consumed inside the step of the
REP. The frames of a DO go through the stack of `StackOps`, inlined push and pop at DO,
ENDDO and BRKcc, methods at the end of the loop.

`LoopBlock` is the run loop over compiled blocks. `EndPc` is `emit_block`: where a block
ends for a boundary and an instruction cap, given what is inlined (`IsDoBodyInlineable`,
`IsSkipInlineable`, `InlinesRep`). The walks of the source over nested bodies are
one walk over the whole region, whose instructions must tile each body and each skip.
A running block is executed one instruction per step; `blk.loops` is
the position in the inlined nest, `blk.il` the `inst_len` variable that ends up in
`pc_advance`. At every back edge of an inlined DO the block may return to the run loop:
the cycle quantum of `emit_loop_preemption_check` is left out, so every quantum is
covered. `StepInRun` covers the single-step legs of `run` and a host that calls
`execute_one` between blocks.

`Orderly` is what the manual asks of a program with loops, as a condition on the
instruction at PC and the loop in progress: LA is not moved to another end (`LaKept`), an
inner loop has an end of its own, a REP is not the last word of a body nor annulled there,
a branch does not go to the word behind the body, and an annulled loop has room on the stack.
It is the hypothesis of the refinement theorem, not a property of the code.
`MCLoopOrderly.cfg` is not one of the runs: it evaluates `Orderly` in every state of the
counted loops of `loops_live`, where it holds, so that the hypothesis is one programs meet.

A stack error only sets `armed`, after which the run loop steps; its delivery is in
`Interrupts`. Counts are immediate; where a DO or REP takes its count from changes
nothing in the control. P memory does not change (that is `BlockCache`).

### AluOps, DataAlu

A word has `W` bits (24 in the code) and an accumulator an extension of `EXT` (8),
a middle and a low word, packed into `2 * W + EXT` bits as the emitter keeps them;
sign extension, masks and bit positions are written in terms of `W`. `AluOps` holds
what several emitters share: `update_vcl`, `jit_update_nz` with its scaling modes,
`jit_saturate_sm`, the two roundings (`rnd_inline`, `jit_rnd56`), the limiter
`jit_read_accu24`, `eval_cc`. `DataAlu` has one action per family of instructions,
and runs a program of them from chosen contents; its properties compare the end with
the start, by exact integers (`Exact`, `Clamp`) rather than by the rules of the code.
DIV, NORM, DMAC and INSERT/EXTRACT are checked as the sequences that make them
useful. Flags are computed at once here; that deferring them is invisible is
`Codegen`'s subject. The control word of EXTRACT and INSERT is its two fields.

### Agu

`r`, `n`, `m` are one Rn, Nn, Mn; one action per effective address mode and for the
two forms of LUA. `net` is the displacement a programmer has asked for so far, in the
reversed domain in bit-reverse mode, and `Reached` where that leads. It is stated for
the uses the modes are meant for (`Disciplined`: steps smaller than the buffer, pointer
inside it, no reserved modifier); every other step is still executed.

### Codegen

`e` is the emitter while it walks the guest program: which registers have a `valid`
variable, which are `dirty`, the `scopes` of the loops being emitted, the one
`pending` flag computation with its captured saturation marker, the cycles not yet
added, and the basic blocks emitted so far. `s` is the run of these blocks over
memory and host variables, with the architectural machine `s.arch` stepping beside
them; an instruction that reads something records what it got and what it should have
got (`s.seen`). A helper call reads and writes memory only.

There is one instruction per *rule* of the emitter: an add (deferred flags with
saturation), a comparison, a shift (early carry), a logical operation (keeps E and
U), reads and writes of SR and LC, a peripheral access (exit check), Tcc (two arms),
an address update (keep-flags arms), a limiting move (helper that sets L), a pop (may
fault and bail out), a P write (ends the block), IFcc and IFcc.U; and the structures
REP, DO (nested in each other and in skips as `is_do_body_inlineable` allows) and
forward skips. A counts modulo 4, which is enough for zero, overflow, carry and
saturation to differ.

### Memory, Moves, Control, Instructions

`Memory` has the map (a sequence of regions per space, buffers that may share an
array, devices) and three access paths: constant address resolved when emitting
(`read_mem`, `write_mem`), computed address (`read_mem_dyn`, `write_mem_dyn` with the
clamped index and the sink), and the helpers that walk the regions; stores to P go
through `jit_write_mem_p` and mark the bitmap. A device logs its accesses.

`Moves` and `Control` translate each emitter into a function from state to state, in
the order the emitted code works. `Instructions` executes them, as a single step
(`advance_pc`, the length the emitter charged) or as part of a block (`FallThrough`, the
length the decoder computed), and says independently what each means: `Transfers` is
a set of source and destination operands, all evaluated before the instruction;
`NextPc` where the program goes on; `frames` the stack the program believes in; `lim`
whether a value was ever clamped, or a sum did not fit, since L was cleared. In saturation
mode `jit_saturate_sm` compares three bits (55, 48 and 47) and not all that lie above the
result, so it can miss the overflow of an accumulator that was already outside the 48
bits, by a move to A2 or from before the mode was set. For such an operand
(`SaturationExact` fails) `lim` follows the code where the code says the sum does not fit,
and L is only claimed to be set for no other reason.

Registers X0 .. Y1 and two address registers with their offsets stand for all of
their kind (`Agu` has the other modes of arithmetic). Moves to SP, SSL, SC and SR, and ANDI
and ORI to MR, COM and EOM are not here; stack errors neither (`StackRoom`), they are in
`HwStack` and `Interrupts`. `Legal` leaves out of the transfer properties two
writes to one destination (by the moves, or by a move and the ALU) and the few forms
whose result is not a transfer (immediates, LUA, LRA, bit operations on registers).

A menu holds instructions that have an encoding (`Encodable`: the registers, spaces and
modes their operand fields can name) and maps whose windows lie within the embedder's
arrays (`IsMap`); `MenusAssumption` says so and TLC evaluates it on the menus of the run. The
extension of an accumulator is no wider than a word (8 bits of 24 in the source).
`ProgramApart` says of the maps that a word of program memory is reached by one
program address and no data address; `MCInstructions` assumes it of its four maps.

## 3. Runs

| Run | Checks | Bounds |
|---|---|---|
| `block_cache` | `ExecutesCurrentCode`, `StaleIsDirty`, `GenerationMeansClean`, `BoundaryRespected` | 3 words, blocks of 2, 1 retained translation, 2 writes, generation modulo 3, boundaries {2, none} |
| `dirty_bitmap` | `QueryExact`, `StepsExact` | 10 words in elements of 3 bits (the last one partial), ranges up to 12 |
| `hw_stack` | `MirrorsShowTop`, `PathsAgree`, `CounterFollowsPointer`, `ErrorPostedAtLatch`, `ImplementsBoundedStack` | 3 slots, 2 values, 4 SP values, 3 SC values |
| `interrupts` | `FramesMatch`, `HandlersNest`, `DispatchNotLost`, `BudgetHasOwner`, `FastResumes`, `ParkedDelivered` | 7 programs, 6 sources, 3 posts, 4 slots, every initial mask |
| `interrupts_live` | `AllServed` | 1 program, 2 posts |
| `loops` | `InlinedLoopsOnStack`, `ImplementsStep` | 8 programs of up to 13 words, caps 1, 2, 4, 32, LC modulo 5, 5 slots, 6 inlined instructions |
| `loops_live` | `LoopsEnd` | 3 programs of counted loops, caps 2 and 32 |
| `data_alu` | `ArithmeticExact` (overflow, saturation), `CompareDecides`, `CcrDescribesResult`, `WordsExact` (rounding, limiting), `IdiomsExact` (shifts, DIV, NORM and CLB, bit fields, double precision) | words of 4 bits, extension of 2 |
| `agu` | `PointerFollowsNet`, `EffectiveAddress`, `BitReverseOrder` | 6-bit registers, 13 modifiers, 9 offsets, 7 origins, 4 updates |
| `codegen` | `ReadsExact`, `ExitExact`, `CyclesExact`, `EmitterSound` (flags never stranded, markers owned, dirty means valid) | all programs of 3 instructions from 15, loop counts 0 and 2 |
| `instructions` | `MovesAreSimultaneous`, `StoresExact`, `DevicesOnce`, `NextInstruction`, `CallsOnStack`, `LimitSticky`, `ChangedIsDirty` | words of 4 bits, extension of 3; 4 maps, 3 register files, 4 accumulators, 4-bit addresses; sequences of 1, 2, 3 and 5 |

The type invariant `TypeOK` of a module is a conjunct of `BoundaryRespected`, `QueryExact`, `FramesMatch`, `CallsOnStack`, `InlinedLoopsOnStack`, `PointerFollowsNet`,
`ArithmeticExact` and `EmitterSound`; that of `HwStack` is proved (`StackInvariant`). In `Codegen`
it is about the emitter; that the running machine stays in emitted blocks with a well-typed SR is
part of `ReadsExact`.

*Why these bounds.* Three words hold two overlapping blocks, a two-word
instruction across their border and a write to the shared word; two writes are
enough for "stale, cleaned by another block, stale again". One retained
translation makes the store overflow. Elements of three bits with ten words give
a first, two middle and a partial last element. Three slots let a two-frame DO
fit, wrap on its second push, and wrap on its first; the SC values clear the counter, put it
in its upper half and exceed its mask. The interrupt programs are
written for the cases: faults in a handler, calls until the stack overflows with
an illegal instruction in the shadow, a REP in the shadow and a REP of a popping
target, a return on an empty stack, WAIT and STOP, a fault parked behind another with one SP write, a
REP and a WAIT in its countdown, or SP writes without end; three posts are a handler
interrupted by a higher level while a third source waits. The loop programs are
written for the cases of the emitter: an inlined nest with REP and skip, annulled
loops and REPs, a body that is also run outside its loop, DO FOREVER left by BRKcc and by
ENDDO, loops with one end, a nest that overflows the stack, a REP of a popping target.
A cap of 1 makes every instruction a block, 2 and 4 cut blocks inside loops, 32
never does; LC modulo 5 lets DO FOREVER wrap it. The data ALU treats all bits of
a word alike except its ends, so a word of 4 bits has every boundary the code knows
(sign, A1's top and bottom, one extension bit beyond the sign, the round position in
each scaling mode); instructions of one operand run on every accumulator value,
those of two on five values around each of nine boundaries. The address modifiers are
moduli that are and are not powers of two, the two ends of multiple wrap-around,
reserved values, linear and bit-reverse; four updates cross a wrap in both directions.
In `codegen` three instructions are one that leaves a value or a flag behind, a
structure or second instruction that moves it across an arm or a back edge, and one
that reads it; two iterations are what a stale variable needs. The maps of
`instructions` are RAM of a power of two, RAM that is not one with a Y window on X's
array and devices behind it, devices first, and nothing; an extension of three bits has one
that `jit_saturate_sm` does not test, and one accumulator (`FarAbove`) is out of range only
there; the control menu starts at 14
of 16 so that PC wraps.

*Fairness.* `loops_live` assumes `WF_vars(Next)`: the host keeps running the core,
and compiled code keeps executing. `interrupts` (for `ParkedDelivered`), `interrupts_live` and
`wait_lost_wakeup` assume `WF_vars(Run)`, the host keeps calling `run()`, which loops as long as budget is
left. Nothing is assumed of peripherals or of `execute_one`. `AllServed` is
checked for a program that keeps returning to mask 0. It does not hold for every
program, and the code does not promise it: a guest that takes a new core fault
inside each handler keeps the pipeline in *Parked* and peripherals never
arbitrate. `ParkedDelivered` is about the parked fault itself: each SP write puts it off, and
a guest that writes SP for ever puts it off for ever, as the comment on the countdown has it
(`core.rs:834`); nothing else does. How many completions the countdown takes is not claimed.

*Deadlock* is checked in every run but `data_alu`, `codegen` and `instructions`, whose
programs come to an end.

### Disagreements

A run shows the code doing something else than its comments say: `wait_lost_wakeup`
violates `WaitWakes`. An interrupt is accepted and its pending bit cleared; WAIT executes
before the vector fetch; nothing is pending, so nothing wakes the core, although
`core.rs:158` says that an unmasked interrupt returns to Normal.

The same modules show the following with the configuration named; they are not part of
the regular runs:

| Configuration | Property | What happens |
|---|---|---|
| `MCBlockCacheRep` | `ExecutesCurrentCode` | a REP of a MOVEM to P memory is inlined (`emit/mod.rs:1816`); the block goes on with words compiled before the writes, where `emit/mod.rs:1688` says such instructions "must end the block" |
| `MCInterruptsTwoWord` | `FastResumes` | a two-word instruction at a fast vector is at vector+2 one tick before stage 2 looks (`core.rs:796`); execution runs on behind the vector |
| `MCLoopLegacyRep` | `ImplementsStep` | a zero-count REP of a move from SSH, the target at LA: the block ends branch-style (`emit/loops.rs:881`) and the loop-back is missed, where `emit/loops.rs:843` says it mirrors `advance_pc` exactly |
| `MCLoopInlineRep` | `ImplementsStep` | a zero-count inlined REP starts a block that ends at LA+1: `flush_all_to_memory` (`emit/regs.rs:398`) overwrites `pc_advance` with 0 and the loop-back is missed |
| `MCLoopStaleEnd` | `ImplementsStep` | a block with an inlined DO, compiled outside, is run inside a loop with the same end: the eviction test of `run` lets `end_pc = stop_pc` pass and both loops end |
| `MCLoopAnnul` | `ImplementsStep` | an inlined DO of count zero overflows the stack: the fault bail comes before the annul check and the body runs |
| `MCLoopMovedEnd` | `ImplementsStep` | a body that moves to LA is inlined; the compiled loop keeps the old end |
| `MCLoopSkipEnd` | `ImplementsStep` | a block compiled outside the loop ends at the target of an inlined skip, which is LA+1: a taken skip returns with the length of the branch and the run loop loops back, where `emit/mod.rs:1951` says that only sequential arrival at LA+1 does |
| `MCLoopRepAtEnd` | `ImplementsStep` | a REP at LA is inlined with the word behind the loop as its target; the loop-back after the REP is missed |
| `MCBlockCacheWrap` | `GenerationMeansClean` | with the counter modulo 2, two writes bring back the generation stored in a stale block (2^32 writes in the code) |
| `MCInterruptsCond` | `LongOnlyAtVector` | a conditional JSR at the vector is not taken; the state stays Long and the next JSR stacks nothing |
| `MCHwStackPoison` | `PoisonedSpFaults` | SP written with UF alone; the next push or pop posts nothing |
| `MCHwStackHint` | `LoopEndHasNoBudget` | the end-of-loop pops underflow and are armed with the budget a previous instruction spilled |

The module of a configuration is the longest `MC` module its name starts with, and
`MCLoopBlock` for `MCLoop*`. The programs of the passing runs leave these cases out.

Translating the data paths showed the following, which the preconditions of the
properties keep apart. None is stated otherwise by a comment unless noted.

* MAX and MAXM decide by the wrapped difference, so operands more than half the range
  apart are ordered the wrong way; CMPM takes the most negative accumulator for its own
  magnitude.
* ASL by a register leaves V clear for counts from 56 to 63 where the immediate form sets it.
  LSL and LSR by a register use the host's shift, modulo 32, for larger counts.
* `jit_saturate_sm` decides by bits 55, 48 and 47, which is exact for operands that were
  themselves saturated; a multi-bit ASL or NORMF shows it a value that has already wrapped.
* MACR reports the overflow of its sum, not that of the rounding.
* RND and `jit_rnd56` test the scaling bits in different order and differ in the reserved mode.
* A long move out of A or B limits in the scaling modes without scaling the low word.
* In the form of `emit_pm_0` the ALU wins over the move if the accumulator's value changed,
  not if the ALU names it.
* A move whose source is the register of its own post-updated address stores the updated value.
* A store to a P callback region reads first, and is dropped when the value is equal.
* Bit tests in branches read A and B as a word that nothing writes; bit operations on A and
  B use the move path.
* The comment on `BranchSub` (`emit/mod.rs:219`) mentions the carry; no bit-test branch changes it.


## 4. Proofs

For every value of the constants, under the assumptions named in the modules:

* `BlockCacheProofs`: `TypeCorrect` and `BoundaryCorrect` without further
  assumptions. `NoHiddenWrite` and `GenerationSound` assume
  `WriteBound < GenMod`, that is, fewer changing writes than the generation
  counter has values; `MCBlockCacheWrap.cfg` shows the assumption is needed.
  `NoStaleCode` also assumes `NoRepeatedWrite`: no program and no write
  brings a REP of a P write into memory, which the configuration
  `MCBlockCacheRep` shows is needed.
  `ExecutesCurrentCode` is not inductive, because a write between two dispatches
  makes cached blocks stale.
  It needs that a stale block is marked dirty (`StaleIsDirty`), that a skipped
  scan is justified (`GenerationMeansClean`, hence `GenInv`: the counter has not
  wrapped and no block is ahead of it), that clearing bits is preceded by
  dropping every overlapping block (`SpanInv`: the look-back window is wide
  enough), and that an instruction writing P memory is the last one of its block
  (`ShapeInv`), so that the rest of a running block is current (`RunInv`). The first
  four hold whatever the words are (`Coherent`); only `RunInv` needs `NoRepeatedWrite`.
* `DirtyBitmapProofs`: `AlwaysQueryExact` and `AlwaysStepsExact`, for every size of P
  memory, element width and range, the ranges that end behind the memory included.
  An address is an element and a bit in it, uniquely; the three cases of the code (one
  element, first and last, the whole elements between) are shown to select exactly the
  places of the range, and both theorems follow from that.
* `HwStackProofs`: `StackInvariant` (type, mirrors and counter together), and
  from it `MirrorsCorrect`, `CounterCorrect`, `InlineIsMethod`,
  `OnePostPerLatch`. Guest writes of SP and SC are steps like any other: every counter is some
  distance ahead of every pointer (`DriftExists`), a write records it, and each push and pop
  keeps it, the four ways in which the two may wrap included (`PointerArithmetic`). `InlineIsMethod` needs the mirrors: the method's pop
  returns them where the inlined one reads the slot.
  `StackRefinement` shows that `HwStack` implements `BoundedStack` for every depth. The
  frames are slots 1 up to the pointer; a push that does not wrap appends one, a pop
  that does not borrow hands out the last, a bit operation on SSH and a move to SSL
  rewrite it. The wrap of the pointer coincides with the full stack and its borrow
  with the empty one, so a step that latches the error is `Fail`, and every later one
  `Limp`. DO and the end of a loop move two frames in one step, either of which may be
  the one that fails.
* `InterruptsProofs`, for every program, number of posts and stack depth: `TypeCorrect`,
  `NoDispatchLost` and `BudgetOwned`. The inductive invariant `PipelineInv` adds to the
  types which fields mean something in which state (`InFlight`): an interrupt in flight has
  a vector and a saved PC, a dispatched source waits in stage 5 or 4 or behind an armed
  fault, a budget belongs to an armed fault or to a core fault still pending.
  `OneFrameEach` and `FastInterruptResumes` have a hypothesis, `DisciplinedCodes`: the
  program has a main part, outside the vectors, that control only leaves for a vector and
  whose vectors hold what the manual asks for (`Disciplined` in `Interrupts`). It is
  needed: `MCInterruptsTwoWord` violates `FastResumes`, and `MCInterruptsCond` reaches a JSR
  that stacks nothing. `MCInterrupts`
  assumes the same formula of its programs, and TLC evaluates it, so the hypothesis is
  satisfied by the programs of the run. `ProgramInv` ties the PC to the stage: in the main
  part, or at the word of the vector the stage calls for, with the frame stacked exactly
  if that word is a JSR (`InVector`, `Laid`); between execution and
  `process_pending_interrupts` the word has run and the PC is one behind it (`PastWord`).
* `AguProofs`, for every register width, modifier, offset and origin: `PointerExact`,
  `AddressExact` and `WalkInOrder`. The provers know neither powers of two nor bits, so both
  are built first, 2^k by counting the subsets of a set and a bit by division with
  remainder; induction is by minimal counterexample. Then one lemma per mode of
  `update_rn` shows that a step moves the pointer by its displacement, modulo the buffer.
  `AguInv` is the two properties together with the type of the displacement; `WalkCounts`
  says that k steps of 2^j in bit-reverse mode are k times 2^(RB-1-j) in the reversed domain.
* `CodegenProofs`: `EmitterCorrect`, for every program length and set of instructions. Each
  operator of the emitter has a lemma. `Core` is what all of them keep; it needs, of every
  saved `ConditionalState`, that what its arms modified was not dirty at the branch and that
  a region that records modifications starts with nothing dirty (`ArmOk`), because the merge
  drops the modified registers from `valid` and `dirty` must stay inside it. `PendingOk` says
  that the pending computation owns a saturation marker exactly if its kind reads one. Between
  instructions no keep-flags region is open (`Quiet`), so a flush cannot panic; inside one,
  an address update carries the pending computation through both arms. `EmitterInv` adds the
  nesting of scopes and regions (`Shape`) and that an open loop or skip will continue
  in a block that exists (`Named`).

* `LoopBlockProofs`, for every program of any size, block length, inline limit, stack depth
  and width of LC: `LoopsOnStack`, if LA is not moved inside a loop, and `BlocksImplementStep`,
  if the program is orderly. Both hypotheses are about the program as it runs, and each
  conjunct of `Orderly` answers one of the disagreements above (`MCLoopMovedEnd`,
  `MCLoopAnnul`, `MCLoopStaleEnd`, `MCLoopRepAtEnd`, `MCLoopLegacyRep` and `MCLoopInlineRep`,
  `MCLoopSkipEnd`): without it the theorem is false.
  The emitter's walks are recursive functions, unfolded once at a time; a property
  of all instructions they pass is shown by taking the least address at which it fails.
  From them come the static facts: an inlined body is tiled by instructions,
  inlined loops nest and lie in the block, no skip leaves its region.
  The invariant `Inv` of the first theorem says where a running block is (`Place`: at an
  instruction that the emitter passed, inside the bodies `blk.loops` names and no other) and
  what lies on the stack (`Frames`). The refinement adds `Clear`: the loop around the
  inlined ones does not end inside the block without the block ending too, so
  the test of the run loop at the end of a block finds every loop end the step
  machine finds. Each action of a block is then one step of `LoopStep`, or none where an inlined
  REP only enters its target; a step of the run loop is a step of `LoopStep` as it stands.

* `InstructionsProofs`, for every word width, stack depth, memory map and program of
  encodable instructions of any length: `StackHoldsFrames`, `GoesOnAtNext`, and, if
  `ProgramApart`, `ProgramChangesMarked`. The hypothesis is needed: only stores to P space
  mark the bitmap, so a map that shows a program word in X or Y as well, or at a second
  program address, lets it change unmarked. `FastPathExact` says of every map, space and
  address that the access through the clamped index, with the sink for a store that
  misses, is the region walk, and that the index never leaves the array, though the
  load is unconditional.
  Every operator of `Moves` has a lemma that says what it keeps: `Base` (the state is well typed,
  PC and the map stay, changes of program memory are marked), `Does` (the stack stays as well),
  `Moved` (it pops or pushes SSH, once). `Outcome` is what an instruction leaves before PC moves on,
  proved per emitter; `FinishStep` shows that a single step and a block then leave the
  same PC, which needs that the emitter and the decoder agree on every length. `IInv` is the
  typed state, the frames on the stack (`Holds`), and the marks since the start; the three
  theorems follow from it. The frames alone are not inductive: that a pushed address is a word
  needs the type of whatever the instruction read.

The assumptions on constants are those of the modules: sizes are positive, inputs have their
types, programs are functions from addresses to words.

Only model-checked:

* liveness (`AllServed`, `ParkedDelivered`, `LoopsEnd`), which the prover does not do;
* `HandlersNest` of `Interrupts`: a handler that lowers its own mask makes it false, so it
  depends on where a program writes the mask, which `Disciplined` does not constrain;
* `DataAlu`, whose operators are bitwise;
* `ReadsExact`, `ExitExact` and `CyclesExact` of `Codegen`, which relate a run of the emitted
  code, a fold over the operations of its blocks, to the architecture. The proof of
  `EmitterCorrect` is about the emitter alone;
* `MovesAreSimultaneous`, `StoresExact` and `DevicesOnce` of `Instructions`, which compare an
  emitter with the set of transfers an instruction means; the proofs follow what an emitter
  keeps, not each value it moves;
* `LimitSticky` of `Instructions`: the proofs follow what an emitter keeps, and this one needs the
  value of every sum and of every limited read.

## 5. Plan and what is not modelled

Left for proof: `StoresExact` of `Instructions`, for which `FastPathExact` and the lemma
`WriteMemory` (a write changes one word) are the beginning; parts of the arithmetic of `DataAlu`
that need no bits (rounding, saturation).

Left to model: `get_state` / `set_state` over `Interrupts` (four fields of the pipeline,
`fault_budget`, `fault_budget_hint`, `parked_countdown` and `parked_sp_write`, are not part of
the saved structure, so a snapshot taken while a fault is armed or parked loses its
budget); the two-pass symbol resolution of the assembler; ANDI and ORI to MR, COM and EOM.

Not modelled: instruction decoding other than lengths, and encoding (bit patterns; the
repository tests every opcode both ways), parsing and disassembly (text), profiling and
statistics of the run loop, command-line tools, the difftest corpus.
