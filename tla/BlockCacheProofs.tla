-------------------------- MODULE BlockCacheProofs --------------------------
(***************************************************************************)
(* Proofs about BlockCache, for every size of P memory, every block cap,   *)
(* every set of programs and of stored words.                              *)
(***************************************************************************)
EXTENDS BlockCache, TLAPS

(* What the shape and type of the cache need: nothing about the counter.   *)
SInv == TypeOK /\ ShapeInv

(* A block built for a DO boundary ends its instructions before it.        *)
BoundedInsts(start, stop, insts) == \A i \in insts : stop > start => i < stop

BoundaryInv ==
    /\ \A t \in translations : BoundedInsts(t.start, t.stop, t.insts)
    /\ BeforeBoundary

-----------------------------------------------------------------------------
(* Every word has one or two words of code.                                *)
LEMMA InstLenType == \A w \in Word : InstLen(w) \in 1 .. 2
  BY DEF InstLen, Word

(* Reading P memory yields a word, inside its range and outside.           *)
LEMMA ReadPramType ==
  ASSUME NEW p \in [Addr -> Word], NEW a \in Int
  PROVE  ReadPram(p, a) \in Word
  BY DEF ReadPram, Word

(* A function from addresses to words is code.                             *)
LEMMA CodeIntro ==
  ASSUME NEW A \in SUBSET (0 .. PramSize), NEW f \in [A -> Word]
  PROVE  f \in Code
  BY Zenon DEF Code

(* What emit_block produces has the shape of a block, and respects the DO  *)
(* boundary it was given.                                                  *)
LEMMA EmitShape ==
  ASSUME TypeOK,
         NEW pc \in Addr, NEW stop_pc \in 0 .. NoStop,
         NEW end_pc \in pc .. PramSize + 1,
         NEW insts \in SUBSET (pc .. end_pc - 1),
         EmitBlock(pc, stop_pc, end_pc, insts),
         NEW b, b.insts = insts, b.end_pc = end_pc,
         b.func = BlockWords(pc, end_pc)
  PROVE  /\ Shaped(pc, b)
         /\ insts \subseteq Addr
         /\ BoundedInsts(pc, stop_pc, insts)
<1> USE SizeAssumption DEF Addr, NoStop
<1>1. \A a \in pc .. end_pc - 1 : b.func[a] = ReadPram(pram, a)
  BY DEF BlockWords
<1>2. b.func \in [pc .. end_pc - 1 -> Word]
  BY ReadPramType DEF BlockWords, TypeOK
<1>3. ASSUME NEW i \in insts
      PROVE  \/ i + InstLen(b.func[i]) = end_pc
             \/ /\ i + InstLen(b.func[i]) \in insts
                /\ ~WritesPMemory(b.func[i])
  BY <1>1 DEF EmitBlock, EndsBlock
<1>4. Shaped(pc, b)
  BY <1>2, <1>3 DEF Shaped, EmitBlock
<1>5. insts \subseteq Addr
  BY DEF EmitBlock
<1>6. ASSUME NEW i \in insts, stop_pc > pc
      PROVE  i < stop_pc
  <2>1. CASE i = pc
    BY <2>1, <1>6
  <2>2. CASE i # pc
    <3>1. PICK j \in insts : j + InstLen(ReadPram(pram, j)) = i
      BY <2>2 DEF EmitBlock
    <3>2. i # end_pc
      OBVIOUS
    <3>3. ~EndsBlock(ReadPram(pram, j), i, stop_pc)
      BY <3>1, <3>2 DEF EmitBlock
    <3> QED
      BY <3>3 DEF EndsBlock
  <2> QED
    BY <2>1, <2>2
<1> QED
  BY <1>4, <1>5, <1>6 DEF BoundedInsts

(* get_or_compile_block, reuse included, yields a block of that shape, and *)
(* keeps the retained translations typed, shaped and within boundaries.    *)
LEMMA GetOrCompileShape ==
  ASSUME SInv, BoundaryInv,
         NEW pc \in Addr, NEW stop_pc \in 0 .. NoStop,
         NEW end_pc \in pc .. PramSize + 1,
         NEW insts \in SUBSET (pc .. end_pc - 1),
         GetOrCompileBlock(pc, stop_pc, end_pc, insts),
         NEW b, b.insts = insts, b.end_pc = end_pc,
         b.func = BlockWords(pc, end_pc)
  PROVE  /\ Shaped(pc, b)
         /\ insts \subseteq Addr
         /\ BoundedInsts(pc, stop_pc, insts)
         /\ translations' \subseteq Translation
         /\ \A t \in translations' : Shaped(t.start, t)
         /\ \A t \in translations' : BoundedInsts(t.start, t.stop, t.insts)
<1>0. TypeOK /\ ShapeInv
  BY DEF SInv
<1>a. CASE /\ \E t \in Candidates(pc, stop_pc) :
                 t.end_pc = end_pc /\ t.insts = insts
           /\ UNCHANGED translations
  <2>1. PICK t \in translations :
           /\ t.start = pc /\ t.stop = stop_pc
           /\ PramMatches(pc, t)
           /\ t.end_pc = end_pc /\ t.insts = insts
    BY <1>a DEF Candidates
  <2>2. Shaped(pc, t) /\ t \in Translation
    BY <2>1, <1>0 DEF ShapeInv, TypeOK
  <2>3. \A a \in pc .. end_pc - 1 : b.func[a] = t.func[a]
    BY <2>1 DEF PramMatches, BlockWords
  <2>4. b.func \in [pc .. end_pc - 1 -> Word]
    BY ReadPramType, <1>0, SizeAssumption DEF BlockWords, TypeOK, Addr
  <2>5. Shaped(pc, b)
    BY <2>1, <2>2, <2>3, <2>4 DEF Shaped
  <2>6. insts \subseteq Addr
    BY <2>1, <2>2 DEF Translation
  <2> QED
    BY <1>a, <2>1, <2>5, <2>6, <1>0 DEF BoundaryInv, TypeOK, ShapeInv
<1>b. CASE CompileBlock(pc, stop_pc, end_pc, insts)
  <2> DEFINE n == [start |-> pc, stop |-> stop_pc, end_pc |-> end_pc,
                   insts |-> insts, func |-> BlockWords(pc, end_pc)]
  <2>1. EmitBlock(pc, stop_pc, end_pc, insts)
    BY <1>b DEF CompileBlock
  <2>2. /\ Shaped(pc, b) /\ insts \subseteq Addr
        /\ BoundedInsts(pc, stop_pc, insts)
    BY <2>1, <1>0, EmitShape
  <2>3. Shaped(pc, n)
    BY <2>1, <1>0, EmitShape
  <2>4. n.func \in Code
    <3>1. n.func \in [pc .. end_pc - 1 -> Word]
      BY <2>3 DEF Shaped
    <3>2. pc .. end_pc - 1 \in SUBSET (0 .. PramSize)
      BY SizeAssumption DEF Addr
    <3> QED
      BY <3>1, <3>2, CodeIntro
  <2>5. n \in Translation
    <3>1. end_pc \in 0 .. PramSize + 1
      BY SizeAssumption DEF Addr
    <3> QED
      BY <2>2, <2>4, <3>1 DEF Translation
  <2>6. \A t \in translations' : t \in translations \/ t = n
    BY <1>b DEF CompileBlock
  <2> HIDE DEF n
  <2>7. n.start = pc /\ n.stop = stop_pc /\ n.insts = insts
    BY DEF n
  <2> QED
    BY <2>2, <2>3, <2>5, <2>6, <2>7, <1>0 DEF BoundaryInv, TypeOK, ShapeInv
<1> QED
  BY <1>a, <1>b DEF GetOrCompileBlock

-----------------------------------------------------------------------------
(* Type and shape.                                                         *)

(* An empty cache is well shaped: DspState::new and CodeCache::new. *)
LEMMA InitShape == Init => SInv /\ BoundaryInv
  BY SizeAssumption, ProgramAssumption
     DEF Init, SInv, BoundaryInv, TypeOK, ShapeInv, InvalidatedAll,
         BeforeBoundary, Running

(* What the shape says of the instruction about to be executed.            *)
LEMMA CurrentFacts ==
  ASSUME SInv, Running
  PROVE  /\ run \in RunState
         /\ Shaped(run.start, run)
         /\ run.pc \in run.insts
         /\ Current \in Word
         /\ \/ run.pc + InstLen(Current) = run.end_pc
            \/ /\ run.pc + InstLen(Current) \in run.insts
               /\ ~WritesPMemory(Current)
  BY DEF SInv, TypeOK, ShapeInv, Running, Current, Shaped

(* Continuing in a block keeps its shape.                                  *)
LEMMA ContinueShape ==
  ASSUME SInv, BoundaryInv, Running, NEW exit \in BOOLEAN, Continue(exit)
  PROVE  /\ run' \in RunState \cup {NoRun}
         /\ Running' => Shaped(run.start, run)' /\ (run.pc \in run.insts)'
         /\ BeforeBoundary'
<1> DEFINE next == run.pc + InstLen(Current)
<1>1. CASE run' = NoRun
  BY <1>1 DEF Running, BeforeBoundary
<1>2. CASE ~exit /\ ~(next >= run.end_pc)
  <2>1. run' = [run EXCEPT !.pc = next]
    BY <1>2 DEF Continue
  <2>2. next \in run.insts
    BY <1>2, CurrentFacts, InstLenType DEF RunState
  <2>3. /\ run' \in RunState /\ run'.pc = next /\ run'.start = run.start
        /\ run'.stop = run.stop /\ run'.end_pc = run.end_pc
        /\ run'.insts = run.insts /\ run'.func = run.func
    BY <2>1, <2>2, CurrentFacts DEF RunState
  <2>4. Shaped(run.start, run)'
    BY <2>3, CurrentFacts DEF Shaped, InstLen, WritesPMemory
  <2>5. BeforeBoundary'
    BY <2>3 DEF BoundaryInv, BeforeBoundary, Running
  <2> QED
    BY <2>2, <2>3, <2>4, <2>5
<1> QED
  BY <1>1, <1>2 DEF Continue

(* A write to P memory keeps the types and touches nothing else.           *)
LEMMA WriteType ==
  ASSUME TypeOK, NEW a \in Addr, NEW w \in Stored, JitWriteMem(a, w)
  PROVE  /\ pram' \in [Addr -> Word]
         /\ dirty' \subseteq Addr
         /\ generation' \in 0 .. GenMod - 1
         /\ writes' \in 0 .. WriteBound
         /\ UNCHANGED <<blocks, max_span, translations>>
  BY SizeAssumption, ProgramAssumption DEF TypeOK, JitWriteMem, MarkDirty

(* Dropping blocks keeps the cache typed and shaped.                       *)
LEMMA DropShape ==
  ASSUME SInv,
         NEW bs, bs \in [Addr -> Block \cup {NoBlock}],
         \A pc \in Addr : bs[pc] = blocks[pc] \/ bs[pc] = NoBlock
  PROVE  \A pc \in Addr : bs[pc] # NoBlock => Shaped(pc, bs[pc])
  BY DEF SInv, ShapeInv

(* Dropping blocks (invalidate_range, invalidate_all) keeps the cache's type. *)
LEMMA InvalidatedType ==
  ASSUME TypeOK, NEW lo, NEW hi
  PROVE  /\ InvalidatedRange(lo, hi) \in [Addr -> Block \cup {NoBlock}]
         /\ InvalidatedAll \in [Addr -> Block \cup {NoBlock}]
         /\ \A pc \in Addr : \/ InvalidatedRange(lo, hi)[pc] = blocks[pc]
                             \/ InvalidatedRange(lo, hi)[pc] = NoBlock
  BY DEF TypeOK, InvalidatedRange, InvalidatedAll

(* Entering a usable cached block keeps shapes and the DO boundary. *)
LEMMA DispatchCachedShape ==
  ASSUME SInv, BoundaryInv, NEW pc \in Addr, NEW stop_pc \in Stops,
         DispatchCached(pc, stop_pc)
  PROVE  (SInv /\ BoundaryInv)'
<1> DEFINE b == blocks[pc]
<1>1. b \in Block /\ b # NoBlock /\ Shaped(pc, b)
  BY DEF DispatchCached, Usable, SInv, TypeOK, ShapeInv
<1>2. /\ blocks' = [blocks EXCEPT ![pc] = [b EXCEPT !.generation = generation]]
      /\ UNCHANGED <<pram, dirty, generation, writes, max_span, translations>>
      /\ run' = [start |-> pc, pc |-> pc, stop |-> stop_pc,
                 end_pc |-> b.end_pc, insts |-> b.insts, func |-> b.func]
      /\ ~NeedsEvict(pc, stop_pc)
  BY DEF DispatchCached, Usable, Enter
<1>3. /\ blocks'[pc] \in Block
      /\ blocks'[pc].insts = b.insts /\ blocks'[pc].end_pc = b.end_pc
      /\ blocks'[pc].func = b.func
      /\ \A q \in Addr \ {pc} : blocks'[q] = blocks[q]
  BY <1>1, <1>2 DEF SInv, TypeOK, Block
<1>4. run' \in RunState
  BY <1>1, <1>2, ProgramAssumption DEF Block, RunState
<1>5. TypeOK'
  BY <1>2, <1>3, <1>4 DEF SInv, TypeOK
<1>6. Shaped(pc, blocks'[pc]) /\ Shaped(run'.start, run') /\ run'.pc \in run'.insts
  BY <1>1, <1>2, <1>3 DEF Shaped
<1>7. \A q \in Addr : blocks'[q] # NoBlock => Shaped(q, blocks'[q])
  BY <1>3, <1>6 DEF SInv, ShapeInv
<1>8. ShapeInv'
  BY <1>2, <1>6, <1>7 DEF SInv, ShapeInv, Shaped, InstLen, WritesPMemory
<1>9. BeforeBoundary'
  <2>1. b.insts \subseteq pc .. b.end_pc - 1 /\ b.end_pc \in Int
    BY <1>1 DEF Shaped, Block
  <2>2. stop_pc \in Int /\ pc \in Int
    BY ProgramAssumption, SizeAssumption DEF NoStop, Addr
  <2>3. stop_pc > pc => stop_pc >= b.end_pc
    BY <1>2, <2>1, <2>2 DEF NeedsEvict
  <2> QED
    BY <1>2, <2>1, <2>2, <2>3 DEF BeforeBoundary
<1>10. BoundaryInv'
  BY <1>2, <1>9 DEF BoundaryInv, BoundedInsts
<1> QED
  BY <1>5, <1>8, <1>10 DEF SInv

(* Building or reusing a translation and installing it keeps shapes, the
   widest span and the DO boundary. *)
LEMMA DispatchFreshShape ==
  ASSUME SInv, BoundaryInv, NEW pc \in Addr, NEW stop_pc \in Stops,
         DispatchFresh(pc, stop_pc)
  PROVE  (SInv /\ BoundaryInv)'
<1>0. PICK end_pc \in pc .. PramSize + 1 :
         \E insts \in SUBSET (pc .. end_pc - 1) :
            /\ GetOrCompileBlock(pc, stop_pc, end_pc, insts)
            /\ Install(pc, stop_pc, end_pc, insts)
  BY DEF DispatchFresh
<1>1. PICK insts \in SUBSET (pc .. end_pc - 1) :
         /\ GetOrCompileBlock(pc, stop_pc, end_pc, insts)
         /\ Install(pc, stop_pc, end_pc, insts)
  BY <1>0
<1> DEFINE b == [end_pc |-> end_pc, insts |-> insts, generation |-> generation,
                 func |-> BlockWords(pc, end_pc)]
           kept == IF IsRangeDirty(pc, end_pc)
                   THEN InvalidatedRange(pc, end_pc - 1) ELSE blocks
<1>2. /\ GetOrCompileBlock(pc, stop_pc, end_pc, insts)
      /\ dirty' \subseteq dirty
      /\ blocks' = [kept EXCEPT ![pc] = b]
      /\ max_span' = SpanWith(end_pc - pc)
      /\ run' = [start |-> pc, pc |-> pc, stop |-> stop_pc, end_pc |-> end_pc,
                 insts |-> insts, func |-> BlockWords(pc, end_pc)]
      /\ UNCHANGED <<pram, generation, writes>>
  BY <1>1 DEF DispatchFresh, Install, Enter
<1>3. /\ pc \in Int /\ end_pc \in Int /\ 0 <= pc /\ pc <= PramSize
      /\ pc <= end_pc /\ end_pc <= PramSize + 1 /\ PramSize \in Nat
      /\ stop_pc \in 0 .. NoStop
  BY SizeAssumption, ProgramAssumption DEF Addr
<1>4. /\ Shaped(pc, b) /\ Shaped(pc, run') /\ insts \subseteq Addr
      /\ BoundedInsts(pc, stop_pc, insts)
      /\ translations' \subseteq Translation
      /\ \A t \in translations' : Shaped(t.start, t)
      /\ \A t \in translations' : BoundedInsts(t.start, t.stop, t.insts)
  <2>1. /\ b.insts = insts /\ b.end_pc = end_pc
        /\ b.func = BlockWords(pc, end_pc)
    OBVIOUS
  <2>2. /\ run'.insts = insts /\ run'.end_pc = end_pc
        /\ run'.func = BlockWords(pc, end_pc)
    BY <1>2
  <2> HIDE DEF b
  <2> QED
    BY <1>2, <1>3, <2>1, <2>2, GetOrCompileShape
<1>5. b.func \in Code
  <2>1. b.func \in [pc .. end_pc - 1 -> Word]
    BY <1>4 DEF Shaped
  <2>2. pc .. end_pc - 1 \in SUBSET (0 .. PramSize)
    BY <1>3
  <2> QED
    BY <2>1, <2>2, CodeIntro
<1>6. b \in Block /\ run' \in RunState
  BY <1>2, <1>3, <1>4, <1>5 DEF Block, RunState, SInv, TypeOK
<1>7. /\ kept \in [Addr -> Block \cup {NoBlock}]
      /\ \A q \in Addr : kept[q] = blocks[q] \/ kept[q] = NoBlock
  BY InvalidatedType DEF SInv, TypeOK
<1> HIDE DEF kept, b
<1>8. blocks' \in [Addr -> Block \cup {NoBlock}]
  BY <1>2, <1>6, <1>7
<1>9. \A q \in Addr : blocks'[q] # NoBlock => Shaped(q, blocks'[q])
  BY <1>2, <1>4, <1>7, DropShape
<1>10. max_span' \in 0 .. PramSize + 1
  BY <1>2, <1>3 DEF SpanWith, SInv, TypeOK
<1>11. TypeOK'
  BY <1>2, <1>4, <1>6, <1>8, <1>10 DEF SInv, TypeOK
<1>12. ShapeInv'
  <2>1. (Running => Shaped(run.start, run) /\ run.pc \in run.insts)'
    BY <1>2, <1>4 DEF Shaped, InstLen, WritesPMemory
  <2> QED
    BY <2>1, <1>4, <1>9 DEF ShapeInv, Shaped, InstLen, WritesPMemory
<1>13. BoundaryInv'
  BY <1>2, <1>4 DEF BoundaryInv, BoundedInsts, BeforeBoundary
<1> QED
  BY <1>11, <1>12, <1>13 DEF SInv

(* Every step keeps types, shapes and boundaries.                          *)
LEMMA ShapeStep == SInv /\ BoundaryInv /\ [Next]_vars => (SInv /\ BoundaryInv)'
<1> SUFFICES ASSUME SInv, BoundaryInv, [Next]_vars
             PROVE  (SInv /\ BoundaryInv)'
  OBVIOUS
<1>1. ASSUME NEW pc \in Addr, NEW stop_pc \in Stops, DispatchCached(pc, stop_pc)
      PROVE  (SInv /\ BoundaryInv)'
  BY <1>1, DispatchCachedShape
<1>2. ASSUME NEW pc \in Addr, NEW stop_pc \in Stops, DispatchFresh(pc, stop_pc)
      PROVE  (SInv /\ BoundaryInv)'
  BY <1>2, DispatchFreshShape
<1>3. ASSUME Running, NEW exit \in BOOLEAN, Continue(exit),
             pram' \in [Addr -> Word], dirty' \subseteq Addr,
             generation' \in 0 .. GenMod - 1, writes' \in 0 .. WriteBound,
             UNCHANGED <<blocks, max_span, translations>>
      PROVE  (SInv /\ BoundaryInv)'
  <2>1. /\ run' \in RunState \cup {NoRun}
        /\ Running' => Shaped(run.start, run)' /\ (run.pc \in run.insts)'
        /\ BeforeBoundary'
    BY <1>3, ContinueShape
  <2> QED
    BY <1>3, <2>1 DEF SInv, TypeOK, ShapeInv, BoundaryInv, BoundedInsts,
                      Shaped, InstLen, WritesPMemory
<1>4. ASSUME run = NoRun, UNCHANGED run,
             pram' \in [Addr -> Word], dirty' \subseteq Addr,
             generation' \in 0 .. GenMod - 1, writes' \in 0 .. WriteBound,
             UNCHANGED max_span,
             translations' \subseteq translations,
             blocks' \in [Addr -> Block \cup {NoBlock}],
             \A pc \in Addr : blocks'[pc] = blocks[pc] \/ blocks'[pc] = NoBlock
      PROVE  (SInv /\ BoundaryInv)'
  <2>1. \A pc \in Addr : blocks'[pc] # NoBlock => Shaped(pc, blocks'[pc])
    BY <1>4, DropShape
  <2> QED
    BY <1>4, <2>1 DEF SInv, TypeOK, ShapeInv, BoundaryInv, BoundedInsts,
                      Shaped, InstLen, WritesPMemory, Running,
                      BeforeBoundary
<1>5. CASE ExecPlain
  BY <1>3, <1>5 DEF ExecPlain, SInv, TypeOK
<1>6. CASE ExecWriteP
  BY <1>3, <1>6, WriteType DEF ExecWriteP, SInv, TypeOK
<1>7. CASE ExecCallbackWrite
  BY <1>3, <1>7, WriteType DEF ExecCallbackWrite, SInv, TypeOK
<1>8. CASE WriteBetweenBlocks
  BY <1>4, <1>8, WriteType DEF WriteBetweenBlocks, SInv, TypeOK
<1>9. CASE ExternalLoad
  <2>1. pram' \in [Addr -> Word] /\ writes' \in 0 .. WriteBound
    BY <1>9, SizeAssumption, ProgramAssumption DEF ExternalLoad, SInv, TypeOK
  <2> QED
    BY <1>4, <1>9, <2>1 DEF ExternalLoad, InvalidatedAll, SInv, TypeOK
<1>10. CASE InvalidateBlocks
  BY <1>4, <1>10 DEF InvalidateBlocks, InvalidatedAll, SInv, TypeOK
<1>11. ASSUME NEW lo \in Addr, NEW hi \in Addr, InvalidateRange(lo, hi)
       PROVE  (SInv /\ BoundaryInv)'
  BY <1>4, <1>11, InvalidatedType DEF InvalidateRange, SInv, TypeOK
<1>12. CASE Reset
  <2>1. generation' \in 0 .. GenMod - 1
    BY <1>12, SizeAssumption DEF Reset
  <2> QED
    BY <1>4, <1>12, <2>1 DEF Reset, InvalidatedAll, SInv, TypeOK
<1>13. CASE UNCHANGED vars
  BY <1>13 DEF vars, SInv, TypeOK, ShapeInv, BoundaryInv, BoundedInsts, Shaped,
               InstLen, WritesPMemory, Running, BeforeBoundary
<1> QED
  BY <1>1, <1>2, <1>5, <1>6, <1>7, <1>8, <1>9, <1>10, <1>11, <1>12, <1>13
     DEF Next

(* The cache, the bitmap and the block being executed stay well typed.     *)
THEOREM TypeCorrect == Spec => []TypeOK
  BY InitShape, ShapeStep, PTL DEF Spec, SInv

(* No dispatched block runs past the end of the DO loop it is in           *)
(* (the stop_pc test of the run loop and of emit_block).                   *)
THEOREM BoundaryCorrect == Spec => []BoundaryRespected
  BY InitShape, ShapeStep, PTL DEF Spec, BoundaryInv, SInv, BoundaryRespected

-----------------------------------------------------------------------------
(* Coherence.  The generation counter must not wrap within a behaviour:    *)
(* GenerationMeansClean fails otherwise.                                   *)

CInv == SpanInv /\ GenInv /\ StaleIsDirty /\ GenerationMeansClean

(* An empty cache over clean bits is coherent with P memory. *)
LEMMA InitCoherent == Init => CInv
  BY SizeAssumption
     DEF Init, CInv, SpanInv, GenInv, StaleIsDirty, GenerationMeansClean,
         InvalidatedAll, NoBlock, Addr

(* A write makes every block it touches dirty, and older than the counter. *)
LEMMA WriteCoherent ==
  ASSUME WriteBound < GenMod, SInv, CInv,
         NEW a \in Addr, NEW w \in Stored, JitWriteMem(a, w)
  PROVE  (SpanInv /\ GenInv /\ StaleIsDirty /\ GenerationMeansClean)'
<1>1. /\ generation \in Nat /\ writes \in Nat /\ writes + 1 <= WriteBound
      /\ generation <= writes /\ GenMod \in Nat /\ WriteBound \in Nat
  BY SizeAssumption DEF SInv, TypeOK, CInv, GenInv, JitWriteMem, MarkDirty
<1>2. generation' = generation + 1
  <2>1. generation + 1 < GenMod
    BY <1>1
  <2>2. (generation + 1) % GenMod = generation + 1
    BY <1>1, <2>1
  <2> QED
    BY <2>2 DEF JitWriteMem, MarkDirty
<1>3. /\ UNCHANGED <<blocks, max_span>> /\ writes' = writes + 1
      /\ dirty' = dirty \cup {a}
      /\ \A q \in Int : q # a => ReadPram(pram', q) = ReadPram(pram, q)
  BY DEF JitWriteMem, MarkDirty, ReadPram, SInv, TypeOK
<1>4. SpanInv'
  BY <1>3 DEF CInv, SpanInv
<1>5. GenInv'
  <2> SUFFICES ASSUME NEW pc \in Addr, blocks[pc] # NoBlock
               PROVE  blocks[pc].generation <= generation'
    BY <1>1, <1>2, <1>3 DEF GenInv
  <2>1. /\ blocks[pc].generation \in Int
        /\ blocks[pc].generation <= generation
    BY SizeAssumption DEF CInv, GenInv, SInv, TypeOK, Block
  <2> QED
    BY <1>1, <1>2, <2>1
<1>6. StaleIsDirty'
  <2> SUFFICES ASSUME NEW pc \in Addr, blocks[pc] # NoBlock,
                      NEW q \in pc .. blocks[pc].end_pc - 1, q # a
               PROVE  q \in dirty \/ blocks[pc].func[q] = ReadPram(pram', q)
    BY <1>3 DEF StaleIsDirty
  <2> QED
    BY <1>3 DEF CInv, StaleIsDirty
<1>7. GenerationMeansClean'
  <2> SUFFICES ASSUME NEW pc \in Addr, blocks[pc] # NoBlock
               PROVE  blocks[pc].generation # generation'
    BY <1>3 DEF GenerationMeansClean
  <2>1. /\ blocks[pc].generation \in Int
        /\ blocks[pc].generation <= generation
    BY SizeAssumption DEF CInv, GenInv, SInv, TypeOK, Block
  <2> QED
    BY <1>1, <1>2, <2>1
<1> QED
  BY <1>4, <1>5, <1>6, <1>7

(* The rest of a block that continues past an instruction leaving P memory *)
(* alone is still current; one that writes P memory is the last.           *)
LEMMA ContinueCurrent ==
  ASSUME SInv, RunInv, Running, NEW exit \in BOOLEAN, Continue(exit),
         WritesPMemory(Current) \/ exit \/ UNCHANGED pram
  PROVE  RunInv'
<1> DEFINE next == run.pc + InstLen(Current)
<1>1. CASE run' = NoRun
  BY <1>1 DEF RunInv, Running
<1>2. CASE ~exit /\ ~(next >= run.end_pc)
  <2>1. run' = [run EXCEPT !.pc = next]
    BY <1>2 DEF Continue
  <2>2. next \in Int /\ run.pc \in Int /\ run.end_pc \in Int /\ run.pc <= next
    BY CurrentFacts, InstLenType, SizeAssumption DEF RunState, Addr
  <2>3. ~WritesPMemory(Current)
    BY <1>2, <2>2, CurrentFacts
  <2>4. run'.pc = next /\ run'.end_pc = run.end_pc /\ run'.func = run.func
    BY <2>1, CurrentFacts DEF RunState
  <2>5. UNCHANGED pram
    BY <1>2, <2>3
  <2> QED
    BY <2>2, <2>4, <2>5 DEF RunInv
<1> QED
  BY <1>1, <1>2 DEF Continue

(* A block that survives the eviction test is entered with current code, and
   refreshing its generation is justified. *)
LEMMA DispatchCachedCoherent ==
  ASSUME SInv, CInv, NEW pc \in Addr, NEW stop_pc \in Stops,
         DispatchCached(pc, stop_pc)
  PROVE  CInv' /\ RunInv'
<1> DEFINE b == blocks[pc]
<1>1. b \in Block /\ b # NoBlock /\ Shaped(pc, b)
  BY DEF DispatchCached, Usable, SInv, TypeOK, ShapeInv
<1>2. /\ blocks' = [blocks EXCEPT ![pc] = [b EXCEPT !.generation = generation]]
      /\ UNCHANGED <<pram, dirty, generation, writes, max_span, translations>>
      /\ run' = [start |-> pc, pc |-> pc, stop |-> stop_pc,
                 end_pc |-> b.end_pc, insts |-> b.insts, func |-> b.func]
      /\ ~NeedsEvict(pc, stop_pc)
  BY DEF DispatchCached, Usable, Enter
<1>3. /\ blocks'[pc].generation = generation
      /\ blocks'[pc].end_pc = b.end_pc /\ blocks'[pc].func = b.func
      /\ \A q \in Addr \ {pc} : blocks'[q] = blocks[q]
  BY <1>1, <1>2 DEF SInv, TypeOK, Block
<1>4. ~IsRangeDirty(pc, b.end_pc)
  BY <1>1, <1>2 DEF NeedsEvict, CInv, GenerationMeansClean
<1>5. \A a \in pc .. b.end_pc - 1 : b.func[a] = ReadPram(pram, a)
  BY <1>1, <1>4 DEF IsRangeDirty, CInv, StaleIsDirty
<1>6. RunInv'
  BY <1>2, <1>5 DEF RunInv
<1>7. StaleIsDirty'
  BY <1>2, <1>3, <1>5 DEF StaleIsDirty, CInv
<1>8. GenerationMeansClean'
  BY <1>2, <1>3, <1>4 DEF GenerationMeansClean, CInv, IsRangeDirty
<1>9. GenInv'
  BY <1>2, <1>3 DEF GenInv, CInv, SInv, TypeOK
<1>10. SpanInv'
  BY <1>2, <1>3 DEF SpanInv, CInv
<1> QED
  BY <1>6, <1>7, <1>8, <1>9, <1>10 DEF CInv

(* Every cached block that shares a word with [pc, end_pc) is in the       *)
(* window invalidate_range scans, and is dropped.                          *)
LEMMA OverlapDropped ==
  ASSUME SInv, CInv, NEW pc \in Addr, NEW end_pc \in pc .. PramSize + 1,
         NEW q \in Addr, NEW a \in q .. blocks[q].end_pc - 1,
         a \in pc .. end_pc - 1
  PROVE  InvalidatedRange(pc, end_pc - 1)[q] = NoBlock
<1>1. /\ pc \in Int /\ end_pc \in Int /\ q \in Int /\ max_span \in Nat
      /\ blocks[q].end_pc \in Int /\ a \in Int
  BY SizeAssumption DEF SInv, TypeOK, Block, NoBlock, Addr
<1>2. blocks[q].end_pc > pc /\ q <= end_pc - 1
  BY <1>1
<1>3. blocks[q].end_pc - q <= max_span /\ max_span # 0
  BY <1>1 DEF CInv, SpanInv
<1>4. q >= pc - (max_span - 1)
  BY <1>1, <1>2, <1>3
<1> QED
  BY <1>2, <1>3, <1>4 DEF InvalidatedRange

(* Installing a block clears its dirty bits only after every block sharing a
   word with it has been dropped, so no write is hidden. *)
LEMMA DispatchFreshCoherent ==
  ASSUME SInv, CInv, NEW pc \in Addr, NEW stop_pc \in Stops,
         DispatchFresh(pc, stop_pc)
  PROVE  CInv' /\ RunInv'
<1>0. PICK end_pc \in pc .. PramSize + 1 :
         \E insts \in SUBSET (pc .. end_pc - 1) :
            Install(pc, stop_pc, end_pc, insts)
  BY DEF DispatchFresh
<1>1. PICK insts \in SUBSET (pc .. end_pc - 1) :
         Install(pc, stop_pc, end_pc, insts)
  BY <1>0
<1> DEFINE b == [end_pc |-> end_pc, insts |-> insts, generation |-> generation,
                 func |-> BlockWords(pc, end_pc)]
           stale == IsRangeDirty(pc, end_pc)
           kept == IF stale THEN InvalidatedRange(pc, end_pc - 1) ELSE blocks
<1>2. /\ dirty' = IF stale THEN dirty \ (pc .. end_pc - 1) ELSE dirty
      /\ blocks' = [kept EXCEPT ![pc] = b]
      /\ max_span' = SpanWith(end_pc - pc)
      /\ run' = [start |-> pc, pc |-> pc, stop |-> stop_pc, end_pc |-> end_pc,
                 insts |-> insts, func |-> BlockWords(pc, end_pc)]
      /\ UNCHANGED <<pram, generation, writes>>
  BY <1>1 DEF DispatchFresh, Install, Enter
<1>3. /\ b.end_pc = end_pc /\ b.generation = generation
      /\ \A a \in pc .. end_pc - 1 : b.func[a] = ReadPram(pram, a)
  BY DEF BlockWords
<1>4. /\ kept \in [Addr -> Block \cup {NoBlock}]
      /\ \A q \in Addr : kept[q] = blocks[q] \/ kept[q] = NoBlock
  BY InvalidatedType DEF SInv, TypeOK
<1>5. /\ blocks'[pc] = b
      /\ \A q \in Addr \ {pc} : blocks'[q] = kept[q]
  BY <1>2, <1>4
<1>6. \A a \in pc .. end_pc - 1 : a \notin dirty'
  BY <1>2 DEF IsRangeDirty
<1>7. dirty' \subseteq dirty /\ \A a \in dirty \ dirty' : stale /\ a \in pc .. end_pc - 1
  BY <1>2
<1>8. ASSUME NEW q \in Addr, q # pc, kept[q] # NoBlock,
             NEW a \in q .. kept[q].end_pc - 1
      PROVE  /\ kept[q] = blocks[q]
             /\ a \in dirty => a \in dirty'
  <2>1. kept[q] = blocks[q]
    BY <1>4, <1>8
  <2>2. ASSUME a \in dirty, a \notin dirty'
        PROVE  FALSE
    <3>1. stale /\ a \in pc .. end_pc - 1
      BY <1>7, <2>2
    <3>2. a \in q .. blocks[q].end_pc - 1
      BY <1>8, <2>1
    <3>3. InvalidatedRange(pc, end_pc - 1)[q] = NoBlock
      BY <3>1, <3>2, OverlapDropped
    <3> QED
      BY <1>8, <3>1, <3>3
  <2> QED
    BY <2>1, <2>2
<1> HIDE DEF kept, stale, b
<1>9. RunInv'
  BY <1>2 DEF RunInv, BlockWords
<1>10. StaleIsDirty'
  <2> SUFFICES ASSUME NEW q \in Addr, blocks'[q] # NoBlock,
                      NEW a \in q .. blocks'[q].end_pc - 1
               PROVE  a \in dirty' \/ blocks'[q].func[a] = ReadPram(pram', a)
    BY DEF StaleIsDirty
  <2>1. CASE q = pc
    BY <1>2, <1>3, <1>5, <2>1
  <2>2. CASE q # pc
    BY <1>2, <1>5, <1>8, <2>2 DEF CInv, StaleIsDirty
  <2> QED
    BY <2>1, <2>2
<1>11. GenerationMeansClean'
  <2> SUFFICES ASSUME NEW q \in Addr, blocks'[q] # NoBlock,
                      blocks'[q].generation = generation',
                      NEW a \in q .. blocks'[q].end_pc - 1
               PROVE  a \notin dirty'
    BY DEF GenerationMeansClean, IsRangeDirty
  <2>1. CASE q = pc
    BY <1>3, <1>5, <1>6, <2>1
  <2>2. CASE q # pc
    <3>1. blocks'[q] = blocks[q]
      BY <1>4, <1>5, <2>2
    <3>2. a \notin dirty
      BY <1>2, <3>1 DEF CInv, GenerationMeansClean, IsRangeDirty
    <3> QED
      BY <1>7, <3>2
  <2> QED
    BY <2>1, <2>2
<1>12. GenInv'
  <2>1. \A q \in Addr : blocks'[q] # NoBlock => blocks'[q].generation <= generation
    BY <1>3, <1>4, <1>5 DEF CInv, GenInv, SInv, TypeOK
  <2> QED
    BY <1>2, <2>1 DEF CInv, GenInv
<1>13. SpanInv'
  <2>1. /\ max_span \in Nat /\ end_pc - pc \in Nat /\ PramSize \in Nat
        /\ pc \in Int /\ end_pc \in Int
    BY SizeAssumption DEF SInv, TypeOK, Addr
  <2>2. max_span' >= max_span /\ max_span' >= end_pc - pc /\ max_span' \in Nat
    BY <1>2, <2>1 DEF SpanWith
  <2> SUFFICES ASSUME NEW q \in Addr
               PROVE  blocks'[q].end_pc - q <= max_span'
    BY DEF SpanInv
  <2>3. CASE q = pc
    BY <1>3, <1>5, <2>2, <2>3
  <2>4. CASE q # pc /\ blocks'[q] = blocks[q]
    <3>1. blocks[q].end_pc \in Int /\ q \in Int
      BY SizeAssumption DEF SInv, TypeOK, Block, NoBlock, Addr
    <3> QED
      BY <2>1, <2>2, <2>4, <3>1 DEF CInv, SpanInv
  <2>5. CASE q # pc /\ blocks'[q] = NoBlock
    BY <2>2, <2>5, SizeAssumption DEF NoBlock, Addr
  <2> QED
    BY <1>4, <1>5, <2>3, <2>4, <2>5
<1> QED
  BY <1>9, <1>10, <1>11, <1>12, <1>13 DEF CInv

(* Dropping cached blocks, or bits that no kept block needs, is harmless.  *)
LEMMA DropCoherent ==
  ASSUME SInv, CInv, run = NoRun, UNCHANGED <<run, max_span>>,
         writes' \in Nat, writes <= writes',
         generation' \in Nat, generation' <= writes',
         \A pc \in Addr :
            \/ blocks'[pc] = NoBlock
            \/ /\ blocks'[pc] = blocks[pc]
               /\ UNCHANGED <<pram, dirty, generation>>
  PROVE  CInv'
<1>2. StaleIsDirty' /\ GenerationMeansClean'
  BY DEF CInv, StaleIsDirty, GenerationMeansClean, IsRangeDirty
<1>3. GenInv'
  BY DEF CInv, GenInv
<1>4. SpanInv'
  <2>1. max_span \in Nat /\ \A q \in Addr : q \in Nat
    BY SizeAssumption DEF SInv, TypeOK, Addr
  <2> QED
    BY <2>1 DEF CInv, SpanInv, NoBlock
<1> QED
  BY <1>2, <1>3, <1>4 DEF CInv

(* Every step keeps the cache coherent while the counter does not wrap.    *)
LEMMA CoherentStep ==
  ASSUME WriteBound < GenMod
  PROVE  SInv /\ CInv /\ [Next]_vars => CInv'
<1> SUFFICES ASSUME SInv, CInv, [Next]_vars
             PROVE  CInv'
  OBVIOUS
<1>0. /\ generation \in Nat /\ writes \in Nat /\ generation <= writes
  BY SizeAssumption DEF SInv, TypeOK, CInv, GenInv
<1>1. ASSUME NEW pc \in Addr, NEW stop_pc \in Stops,
             DispatchCached(pc, stop_pc) \/ DispatchFresh(pc, stop_pc)
      PROVE  CInv'
  BY <1>1, DispatchCachedCoherent, DispatchFreshCoherent
<1>2. CASE ExecPlain
  BY <1>2 DEF ExecPlain, CInv, SpanInv, GenInv, StaleIsDirty,
              GenerationMeansClean, IsRangeDirty
<1>3. CASE ExecWriteP
  <2>1. CASE \E a \in Addr, w \in Stored : JitWriteMem(a, w)
    BY <2>1, WriteCoherent DEF CInv
  <2>2. CASE UNCHANGED <<pram, dirty, generation, writes, blocks, max_span>>
    BY <2>2 DEF CInv, SpanInv, GenInv, StaleIsDirty, GenerationMeansClean,
                IsRangeDirty
  <2> QED
    BY <1>3, <2>1, <2>2 DEF ExecWriteP
<1>4. CASE ExecCallbackWrite
  BY <1>4, WriteCoherent DEF ExecCallbackWrite, CInv
<1>5. CASE WriteBetweenBlocks
  BY <1>5, WriteCoherent DEF WriteBetweenBlocks, CInv
<1>6. CASE ExternalLoad
  BY <1>0, <1>6, DropCoherent DEF ExternalLoad, InvalidatedAll
<1>7. CASE InvalidateBlocks
  BY <1>0, <1>7, DropCoherent DEF InvalidateBlocks, InvalidatedAll
<1>8. ASSUME NEW lo \in Addr, NEW hi \in Addr, InvalidateRange(lo, hi)
      PROVE  CInv'
  BY <1>0, <1>8, DropCoherent DEF InvalidateRange, InvalidatedRange
<1>9. CASE Reset
  BY <1>0, <1>9, DropCoherent DEF Reset, InvalidatedAll
<1>10. CASE UNCHANGED vars
  BY <1>10 DEF vars, CInv, SpanInv, GenInv, StaleIsDirty, GenerationMeansClean,
               IsRangeDirty
<1> QED
  BY <1>1, <1>2, <1>3, <1>4, <1>5, <1>6, <1>7, <1>8, <1>9, <1>10 DEF Next

-----------------------------------------------------------------------------
(* The code being executed.  A REP of an instruction that writes P memory  *)
(* does not end its block: RunInv needs its absence.                       *)

NoRepInv == \A a \in Addr : ~RepeatsPWrite(pram[a])

(* Programs without such a REP never come to hold one.                     *)
LEMMA NoRepStep ==
  ASSUME NoRepeatedWrite
  PROVE  SInv /\ NoRepInv /\ [Next]_vars => NoRepInv'
<1> SUFFICES ASSUME SInv, NoRepInv, [Next]_vars
             PROVE  NoRepInv'
  OBVIOUS
<1>1. ASSUME NEW a \in Addr, NEW w \in Stored, pram' = [pram EXCEPT ![a] = w]
      PROVE  NoRepInv'
  BY <1>1 DEF NoRepInv, NoRepeatedWrite, RepeatsPWrite, SInv, TypeOK
<1>2. CASE UNCHANGED pram
  BY <1>2 DEF NoRepInv
<1>3. ASSUME NEW a \in Addr, NEW w \in Stored, JitWriteMem(a, w)
      PROVE  NoRepInv'
  BY <1>1, <1>3 DEF JitWriteMem
<1>4. ASSUME NEW pc \in Addr, NEW stop_pc \in Stops,
             DispatchCached(pc, stop_pc) \/ DispatchFresh(pc, stop_pc)
      PROVE  UNCHANGED pram
  BY <1>4 DEF DispatchCached, DispatchFresh
<1>5. CASE ExecWriteP \/ ExecCallbackWrite \/ WriteBetweenBlocks
  BY <1>2, <1>3, <1>5 DEF ExecWriteP, ExecCallbackWrite, WriteBetweenBlocks
<1>6. CASE ExternalLoad
  BY <1>1, <1>6 DEF ExternalLoad
<1>7. CASE ExecPlain \/ InvalidateBlocks \/ Reset \/ UNCHANGED vars
  BY <1>2, <1>7 DEF ExecPlain, InvalidateBlocks, Reset, vars
<1>8. ASSUME NEW lo \in Addr, NEW hi \in Addr, InvalidateRange(lo, hi)
      PROVE  UNCHANGED pram
  BY <1>8 DEF InvalidateRange
<1> QED
  BY <1>2, <1>4, <1>5, <1>6, <1>7, <1>8 DEF Next

(* The instruction being executed is not such a REP either.                *)
LEMMA CurrentNoRep ==
  ASSUME SInv, NoRepInv, RunInv, Running
  PROVE  ~RepeatsPWrite(Current)
<1>1. run.pc \in run.pc .. run.end_pc - 1 /\ run.pc \in Addr
  BY CurrentFacts, SizeAssumption DEF Shaped, RunState, Addr
<1>2. Current = pram[run.pc]
  BY <1>1 DEF RunInv, Current, ReadPram
<1> QED
  BY <1>1, <1>2 DEF NoRepInv

(* Every step leaves the rest of the running block current.                *)
LEMMA RunStep ==
  SInv /\ CInv /\ NoRepInv /\ RunInv /\ [Next]_vars => RunInv'
<1> SUFFICES ASSUME SInv, CInv, NoRepInv, RunInv, [Next]_vars
             PROVE  RunInv'
  OBVIOUS
<1>1. ASSUME NEW pc \in Addr, NEW stop_pc \in Stops,
             DispatchCached(pc, stop_pc) \/ DispatchFresh(pc, stop_pc)
      PROVE  RunInv'
  BY <1>1, DispatchCachedCoherent, DispatchFreshCoherent
<1>2. CASE ExecPlain
  BY <1>2, ContinueCurrent DEF ExecPlain
<1>3. CASE ExecWriteP
  BY <1>3, CurrentNoRep, ContinueCurrent DEF ExecWriteP
<1>4. CASE ExecCallbackWrite
  BY <1>4, ContinueCurrent DEF ExecCallbackWrite
<1>5. CASE WriteBetweenBlocks \/ ExternalLoad \/ InvalidateBlocks \/ Reset
  BY <1>5 DEF WriteBetweenBlocks, ExternalLoad, InvalidateBlocks, Reset, RunInv,
              Running
<1>6. ASSUME NEW lo \in Addr, NEW hi \in Addr, InvalidateRange(lo, hi)
      PROVE  RunInv'
  BY <1>6 DEF InvalidateRange, RunInv, Running
<1>7. CASE UNCHANGED vars
  BY <1>7 DEF vars, RunInv, Running
<1> QED
  BY <1>1, <1>2, <1>3, <1>4, <1>5, <1>6, <1>7 DEF Next

(* The instruction about to be executed lies in the rest of the block.     *)
LEMMA CurrentIsCode == SInv /\ RunInv => ExecutesCurrentCode
<1> SUFFICES ASSUME SInv, RunInv, Running,
                    NEW a \in run.pc .. run.pc + InstLen(Current) - 1
             PROVE  run.func[a] = ReadPram(pram, a)
  BY DEF ExecutesCurrentCode
<1>1. /\ run.pc \in Int /\ run.end_pc \in Int
      /\ run.pc + InstLen(Current) <= run.end_pc
      /\ InstLen(Current) \in 1 .. 2
  <2>1. /\ run.pc \in Int /\ run.end_pc \in Int /\ run.start \in Int
        /\ InstLen(Current) \in 1 .. 2
    BY CurrentFacts, InstLenType, SizeAssumption DEF RunState, Addr
  <2>2. run.insts \subseteq run.start .. run.end_pc - 1
    BY CurrentFacts DEF Shaped
  <2> QED
    BY <2>1, <2>2, CurrentFacts
<1>2. a \in run.pc .. run.end_pc - 1
  BY <1>1
<1> QED
  BY <1>2 DEF RunInv

(* The cache is coherent while the counter does not wrap.                  *)
THEOREM Coherent ==
  ASSUME WriteBound < GenMod
  PROVE  Spec => [](SInv /\ CInv)
<1>1. Init => SInv /\ BoundaryInv /\ CInv
  BY InitShape, InitCoherent
<1>2. SInv /\ BoundaryInv /\ CInv /\ [Next]_vars
        => (SInv /\ BoundaryInv /\ CInv)'
  BY ShapeStep, CoherentStep
<1> QED
  BY <1>1, <1>2, PTL DEF Spec

(* The whole inductive invariant holds while the counter does not wrap and *)
(* no REP writes P memory.                                                 *)
THEOREM Inductive ==
  ASSUME WriteBound < GenMod, NoRepeatedWrite
  PROVE  Spec => []IInv
<1>1. Init => RunInv /\ NoRepInv
  BY DEF Init, RunInv, Running, NoRepInv, NoRepeatedWrite
<1>2. SInv /\ CInv /\ NoRepInv /\ RunInv /\ [Next]_vars => (NoRepInv /\ RunInv)'
  BY NoRepStep, RunStep
<1>3. SInv /\ CInv /\ RunInv => IInv
  BY DEF SInv, CInv, IInv
<1> QED
  BY <1>1, <1>2, <1>3, Coherent, PTL DEF Spec

(* Compiled code never executes a word that P memory no longer holds, as   *)
(* long as P memory changes fewer times than the counter has values and no *)
(* REP repeats a write to P memory.                                        *)
THEOREM NoStaleCode ==
  ASSUME WriteBound < GenMod, NoRepeatedWrite
  PROVE  Spec => []ExecutesCurrentCode
<1>1. IInv => ExecutesCurrentCode
  BY CurrentIsCode DEF IInv, SInv
<1> QED
  BY <1>1, Inductive, PTL

(* A write is never hidden from a cached block by the clearing of bits.    *)
THEOREM NoHiddenWrite ==
  ASSUME WriteBound < GenMod
  PROVE  Spec => []StaleIsDirty
<1>1. CInv => StaleIsDirty
  BY DEF CInv
<1> QED
  BY <1>1, Coherent, PTL

(* A matching generation means a clean block, while it does not wrap.      *)
THEOREM GenerationSound ==
  ASSUME WriteBound < GenMod
  PROVE  Spec => []GenerationMeansClean
<1>1. CInv => GenerationMeansClean
  BY DEF CInv
<1> QED
  BY <1>1, Coherent, PTL

=============================================================================
