--------------------------- MODULE InterruptsProofs ---------------------------
(***************************************************************************)
(* Proofs about the interrupt pipeline.                                    *)
(*                                                                         *)
(* For every program: the machine stays well typed, no dispatched source   *)
(* is lost before its vector is fetched, and a shadow budget always has a  *)
(* core fault that owns it.  The inductive invariant, PipelineInv, adds    *)
(* which fields of the pipeline are meaningful in which of its states.     *)
(*                                                                         *)
(* For every program with disciplined vectors (Disciplined): the hardware  *)
(* stack holds exactly one frame for each call and each long interrupt in  *)
(* progress, and a fast interrupt resumes where it interrupted.  The       *)
(* inductive invariant, ProgramInv, ties the PC to the stage of the        *)
(* pipeline, word by word of the vector.                                   *)
(*                                                                         *)
(* Each operator of the model has a lemma that gives the fields of its     *)
(* result; the proofs about Next use those and not the definitions.        *)
(***************************************************************************)
EXTENDS Interrupts, TLAPS, FiniteSetTheorems, SequenceTheorems, WellFoundedInduction

\* Vector addresses of the sources.
VectorAddrs == {vector_addr(i) : i \in Sources}

\* The pipeline: an interrupt in flight has a vector and, from stage 3 on, a
\* saved PC; a dispatched source waits for its vector fetch; a shadow budget
\* has a core fault that owns it.
InFlight(x) ==
    /\ x.st \in {"Fast", "Long", "Armed"} => x.vec \in VectorAddrs
    /\ x.st = "Fast" /\ x.stage \in 1 .. 3 => x.saved \in Addrs
    /\ x.st = "Long" => x.stage \in {2, 3} /\ x.saved \in Addrs
    /\ x.owed # {} => /\ \E i \in Sources : x.owed = {i} /\ x.vec = vector_addr(i)
                      /\ x.st = "Armed" \/ (x.st = "Fast" /\ x.stage \in {4, 5})
    /\ x.budget # None => x.st = "Armed" \/ x.pending \cap CoreFaults # {}

Good(x) == x \in Machines /\ InFlight(x)

\* Numerals lie in the ranges of the fields they are stored in.
LEMMA Numerals ==
    /\ 0 \in 0 .. 5 /\ 1 \in 0 .. 5 /\ 2 \in 0 .. 5 /\ 3 \in 0 .. 5 /\ 4 \in 0 .. 5
    /\ 5 \in 0 .. 5 /\ 0 \in 0 .. 3 /\ 1 \in 0 .. 3 /\ 2 \in 0 .. 3 /\ 3 \in 0 .. 3
    /\ 0 \in 0 .. 8 /\ 2 \in 0 .. 8 /\ 6 \in 0 .. 8
OBVIOUS

\* A vector is a pair of words of P memory.
LEMMA VectorInMemory ==
    ASSUME NEW i \in Sources
    PROVE  /\ i \in Nat /\ vector_addr(i) \in Addrs /\ vector_addr(i) + 1 \in Addrs
           /\ vector_addr(i) \in VectorAddrs /\ Ipl[i] \in 0 .. 3
BY SourceAssumption, CodeAssumption DEF vector_addr, Addrs, VectorAddrs

\* mask_pc brings every number into P memory.
LEMMA MaskPc == ASSUME NEW a \in Nat PROVE mask_pc(a) \in Addrs
BY CodeAssumption, Z3 DEF mask_pc, Addrs

\* A nonempty set of naturals has a least element.
LEMMA LeastMember ==
    ASSUME NEW S \in SUBSET Nat, S # {}
    PROVE  Least(S) \in S
<1>1. PICK x \in S : \A y \in S : ~(<<y, x>> \in OpToRel(<, Nat))
  BY NatLessThanWellFounded, WFMin
<1>2. \A y \in S : ~(y < x)
  BY <1>1, Zenon DEF OpToRel
<1>3. \A y \in S : x <= y
  BY <1>2
<1>. QED BY <1>3 DEF Least

\* The stack pointer and the stack counter wrap within their ranges.
LEMMA PointerArithmetic ==
    ASSUME NEW p \in Slots, NEW c \in 0 .. 2 * Depth - 1
    PROVE  /\ Up(p) \in Slots /\ Down(p) \in Slots
           /\ ScUp(c) \in 0 .. 2 * Depth - 1 /\ ScDown(c) \in 0 .. 2 * Depth - 1
BY DepthAssumption DEF Slots, Up, Down, ScUp, ScDown

\* A push, by the helper or inlined, leaves a stack.
LEMMA PushType ==
    ASSUME NEW s \in Stacks, NEW h \in Addrs, NEW l \in 0 .. 3
    PROVE  /\ stack_push(s, h, l) \in Stacks /\ inline_push(s, h, l) \in Stacks
<1>1. Up(s.ptr) \in Slots /\ ScUp(s.sc) \in 0 .. 2 * Depth - 1
  BY PointerArithmetic DEF Stacks
<1>2. stack_push(s, h, l) \in Stacks
  BY <1>1 DEF Stacks, stack_push
<1>3. inline_push(s, h, l) \in Stacks
  BY <1>1 DEF Stacks, inline_push
<1>. QED BY <1>2, <1>3

\* So does a pop, and what it pops is an address and a mask.
LEMMA PopType ==
    ASSUME NEW s \in Stacks
    PROVE  /\ stack_pop(s) \in Stacks /\ inline_pop(s) \in Stacks
           /\ inline_popped(s)[1] \in Addrs /\ inline_popped(s)[2] \in 0 .. 3
<1>1. Down(s.ptr) \in Slots /\ ScDown(s.sc) \in 0 .. 2 * Depth - 1
  BY PointerArithmetic DEF Stacks
<1>2. stack_pop(s) \in Stacks
  BY <1>1 DEF Stacks, stack_pop
<1>3. inline_pop(s) \in Stacks
  BY <1>1 DEF Stacks, inline_pop
<1>. QED BY <1>2, <1>3 DEF Stacks, inline_popped

\* So does a write of SP that clears the error bits.
LEMMA WriteSpType ==
    ASSUME NEW s \in Stacks, NEW p \in Slots
    PROVE  write_sp(s, p, FALSE, FALSE) \in Stacks
BY DepthAssumption DEF Stacks, write_sp, Slots

\* What the history expects on the stack is a sequence of addresses.
LEMMA ExpectType ==
    ASSUME NEW x \in Machines, NEW f \in Seq(Addrs \cup {None})
    PROVE  Expect(x, f) \in Seq(Addrs \cup {None}) /\ Lost \in Seq(Addrs \cup {None})
<1>1. Lost \in Seq(Addrs \cup {None})
  BY DEF Lost
<1>. QED BY <1>1 DEF Expect

\* Appending an element of a set to a sequence over it.
LEMMA AppendType ==
    ASSUME NEW S, NEW q \in Seq(S), NEW e \in S
    PROVE  Append(q, e) \in Seq(S)
BY AppendProperties

\* detect_long_interrupt: its result, field by field.
LEMMA DetectLongFields ==
    ASSUME NEW x \in Machines, NEW c \in Codes, x.saved \in Addrs,
           NEW y, y = DetectLong(x, c)
    PROVE  LET long == IsLong(c[x.pc]) /\ x.st # "Long"
               faults == PushFaults(x.stk)
           IN  /\ y \in Machines
               /\ y.pc = x.pc /\ y.adv = x.adv /\ y.rep = x.rep /\ y.onrep = x.onrep
               /\ y.stage = x.stage /\ y.vec = x.vec /\ y.saved = x.saved
               /\ y.owed = x.owed /\ x.pending \subseteq y.pending
               /\ y.budget = x.budget \/ StackError \in y.pending
               /\ y.st = (IF long THEN "Long" ELSE x.st)
               /\ y.frame = (long \/ x.frame)
               /\ y.stk = (IF long THEN stack_push(x.stk, x.saved, x.ipl) ELSE x.stk)
               /\ y.frames = (IF ~long THEN x.frames ELSE IF faults THEN Lost
                              ELSE Expect(x, Append(x.frames, x.saved)))
<1>. DEFINE long == IsLong(c[x.pc]) /\ x.st # "Long"
            fs == IF PushFaults(x.stk) THEN Lost ELSE Expect(x, Append(x.frames, x.saved))
            ls == Append(x.levels, x.raise)
            sk == stack_push(x.stk, x.saved, x.ipl)
            pd == IF PushFaults(x.stk) THEN x.pending \cup {StackError} ELSE x.pending
            bg == IF PushFaults(x.stk) THEN x.hint ELSE x.budget
            ht == IF PushFaults(x.stk) THEN None ELSE x.hint
            z == [x EXCEPT !.st = "Long", !.ipl = x.raise, !.frame = TRUE, !.stk = sk,
                           !.pending = pd, !.budget = bg, !.hint = ht,
                           !.frames = fs, !.levels = ls]
<1>1. /\ x.stk \in Stacks /\ x.ipl \in 0 .. 3 /\ x.frames \in Seq(Addrs \cup {None})
      /\ x.levels \in Seq(0 .. 3) /\ x.raise \in 0 .. 3
      /\ x.budget \in {None} \cup 0 .. 8 /\ x.hint \in {None} \cup 0 .. 8
      /\ x.pending \in SUBSET Sources
      /\ x.frame \in BOOLEAN
  BY DEF Machines
<1>2. sk \in Stacks
  BY <1>1, PushType
<1>3. fs \in Seq(Addrs \cup {None})
  BY <1>1, ExpectType, AppendType
<1>4. ls \in Seq(0 .. 3)
  BY <1>1, AppendType
<1>5. pd \in SUBSET Sources /\ x.pending \subseteq pd /\ (bg = x.budget \/ StackError \in pd)
  BY <1>1, SourceAssumption DEF CoreFaults
<1>6. bg \in {None} \cup 0 .. 8 /\ ht \in {None} \cup 0 .. 8
  BY <1>1
<1>7. y = IF long THEN z ELSE x
  BY DEF DetectLong
<1>8. fs = IF PushFaults(x.stk) THEN Lost ELSE Expect(x, Append(x.frames, x.saved))
  OBVIOUS
<1>9. sk = stack_push(x.stk, x.saved, x.ipl)
  OBVIOUS
<1>. HIDE DEF fs, ls, sk, pd, bg, ht
<1>10. z \in Machines
  BY <1>1, <1>2, <1>3, <1>4, <1>5, <1>6 DEF Machines
<1>11. /\ z.pc = x.pc /\ z.adv = x.adv /\ z.rep = x.rep /\ z.onrep = x.onrep
       /\ z.stage = x.stage /\ z.vec = x.vec /\ z.saved = x.saved
       /\ z.owed = x.owed /\ z.pending = pd /\ z.budget = bg
       /\ z.st = "Long" /\ z.frame = TRUE /\ z.stk = sk /\ z.frames = fs
  BY DEF Machines
<1>. HIDE DEF z, long
<1>12. CASE long
  BY <1>5, <1>7, <1>8, <1>9, <1>10, <1>11, <1>12 DEF long
<1>13. CASE ~long
  BY <1>1, <1>7, <1>13 DEF long
<1>. QED BY <1>12, <1>13

\* Pipeline stage 4: the vector is fetched, its source is owed no longer.
LEMMA FetchVectorFields ==
    ASSUME NEW x \in Machines, NEW c \in Codes, x.vec \in VectorAddrs, x.st = "Fast",
           NEW y, y = FetchVector(x, c)
    PROVE  LET long == IsLong(c[x.vec])
           IN  /\ y \in Machines
               /\ y.pc = x.vec /\ y.rep = x.rep /\ y.onrep = x.onrep
               /\ y.vec = x.vec /\ y.saved = x.pc
               /\ y.owed = x.owed \ {i \in Sources : vector_addr(i) = x.vec}
               /\ x.pending \subseteq y.pending
               /\ y.budget = x.budget \/ StackError \in y.pending
               /\ y.st = (IF long THEN "Long" ELSE "Fast")
               /\ y.frame = long
               /\ y.stk = (IF long THEN stack_push(x.stk, x.pc, x.ipl) ELSE x.stk)
               /\ y.frames = (IF ~long THEN x.frames ELSE IF PushFaults(x.stk) THEN Lost
                              ELSE Expect(x, Append(x.frames, x.pc)))
<1>. DEFINE ow == x.owed \ {i \in Sources : vector_addr(i) = x.vec}
            w == [x EXCEPT !.saved = x.pc, !.pc = x.vec, !.frame = FALSE, !.owed = ow]
<1>1. x.vec \in Addrs /\ x.pc \in Addrs /\ ow \in SUBSET Sources
  BY VectorInMemory DEF VectorAddrs, Machines
<1>2. y = DetectLong(w, c)
  BY DEF FetchVector
<1>3. ow = x.owed \ {i \in Sources : vector_addr(i) = x.vec}
  OBVIOUS
<1>. HIDE DEF ow
<1>4. w \in Machines
  BY <1>1 DEF Machines
<1>5. /\ w.pc = x.vec /\ w.saved = x.pc /\ w.frame = FALSE /\ w.owed = ow /\ w.rep = x.rep
      /\ w.onrep = x.onrep /\ w.vec = x.vec /\ w.pending = x.pending /\ w.budget = x.budget
      /\ w.st = "Fast" /\ w.stk = x.stk /\ w.frames = x.frames /\ w.ipl = x.ipl
  BY DEF Machines
<1>6. \A f : Expect(w, f) = Expect(x, f)
  BY <1>5 DEF Expect
<1>. HIDE DEF w
<1>7. w.saved \in Addrs /\ w.st # "Long"
  BY <1>1, <1>5
<1>. DEFINE long == IsLong(c[w.pc])
<1>8. /\ y \in Machines
      /\ y.pc = w.pc /\ y.rep = w.rep /\ y.onrep = w.onrep
      /\ y.vec = w.vec /\ y.saved = w.saved
      /\ y.owed = w.owed /\ w.pending \subseteq y.pending
      /\ y.budget = w.budget \/ StackError \in y.pending
      /\ y.st = (IF long THEN "Long" ELSE w.st)
      /\ y.frame = (long \/ w.frame)
      /\ y.stk = (IF long THEN stack_push(w.stk, w.saved, w.ipl) ELSE w.stk)
      /\ y.frames = (IF ~long THEN w.frames ELSE IF PushFaults(w.stk) THEN Lost
                     ELSE Expect(w, Append(w.frames, w.saved)))
  BY <1>2, <1>4, <1>7, DetectLongFields
<1>. QED BY <1>3, <1>5, <1>6, <1>8 DEF IsLong

\* z is x at the first word of the vector v, at stage 3.
Fetched(x, v, z, c) ==
    /\ z.pc = v /\ z.vec = v /\ z.saved = x.pc /\ z.stage = 3
    /\ z.rep = x.rep /\ z.onrep = x.onrep
    /\ z.st = (IF IsLong(c[v]) THEN "Long" ELSE "Fast")
    /\ z.frame = IsLong(c[v])
    /\ z.stk = (IF IsLong(c[v]) THEN stack_push(x.stk, x.pc, x.ipl) ELSE x.stk)
    /\ z.frames = (IF ~IsLong(c[v]) THEN x.frames ELSE IF PushFaults(x.stk) THEN Lost
                   ELSE Expect(x, Append(x.frames, x.pc)))

\* The program's part of the machine is the same.
SameProgram(x, z) ==
    z.pc = x.pc /\ z.stk = x.stk /\ z.frames = x.frames /\ z.rep = x.rep /\ z.onrep = x.onrep

\* The fetch keeps the pipeline sound: nothing is owed any longer.
LEMMA FetchedGood ==
    ASSUME NEW x \in Machines, NEW c \in Codes, x.vec \in VectorAddrs, x.st = "Fast",
           \A i \in x.owed : x.vec = vector_addr(i),
           x.budget # None => x.pending \cap CoreFaults # {},
           NEW z, z = [FetchVector(x, c) EXCEPT !.stage = 3]
    PROVE  Good(z) /\ Fetched(x, x.vec, z, c)
<1>. DEFINE y == FetchVector(x, c)
<1>1. /\ y \in Machines
      /\ y.pc = x.vec /\ y.rep = x.rep /\ y.onrep = x.onrep
      /\ y.vec = x.vec /\ y.saved = x.pc
      /\ y.owed = x.owed \ {i \in Sources : vector_addr(i) = x.vec}
      /\ x.pending \subseteq y.pending
      /\ y.budget = x.budget \/ StackError \in y.pending
      /\ y.st = (IF IsLong(c[x.vec]) THEN "Long" ELSE "Fast")
      /\ y.frame = IsLong(c[x.vec])
      /\ y.stk = (IF IsLong(c[x.vec]) THEN stack_push(x.stk, x.pc, x.ipl) ELSE x.stk)
      /\ y.frames = (IF ~IsLong(c[x.vec]) THEN x.frames ELSE IF PushFaults(x.stk) THEN Lost
                     ELSE Expect(x, Append(x.frames, x.pc)))
  BY FetchVectorFields
<1>2. z = [y EXCEPT !.stage = 3]
  OBVIOUS
<1>. HIDE DEF y
<1>a. y \in Machines
  BY <1>1
<1>3. z \in Machines
  BY <1>a, <1>2, Numerals DEF Machines
<1>4. /\ z.pc = y.pc /\ z.rep = y.rep /\ z.onrep = y.onrep /\ z.stage = 3
      /\ z.vec = y.vec /\ z.saved = y.saved /\ z.owed = y.owed /\ z.pending = y.pending
      /\ z.budget = y.budget /\ z.st = y.st /\ z.frame = y.frame /\ z.stk = y.stk
      /\ z.frames = y.frames
  BY <1>1, <1>2 DEF Machines
<1>5. x.owed \subseteq Sources /\ x.pc \in Addrs
  BY DEF Machines
<1>6. y.owed = {}
  BY <1>1, <1>5
<1>7. z.budget # None => z.pending \cap CoreFaults # {}
  BY <1>1, <1>4 DEF CoreFaults
<1>8. InFlight(z)
  BY <1>1, <1>4, <1>5, <1>6, <1>7 DEF InFlight
<1>9. Fetched(x, x.vec, z, c)
  BY <1>1, <1>4 DEF Fetched
<1>. QED BY <1>3, <1>8, <1>9 DEF Good

\* What arbitration picks is pending.
LEMMA ArbitratePending ==
    ASSUME NEW x \in Machines
    PROVE  Arbitrate(x) = None \/ Arbitrate(x) \in x.pending
<1>. DEFINE top == {i \in x.pending : Ipl[i] = 3}
            open == {i \in x.pending : Ipl[i] >= x.ipl}
            best == {i \in open : \A j \in open : Ipl[j] <= Ipl[i]}
<1>1. top \in SUBSET Nat /\ best \in SUBSET Nat
  BY SourceAssumption DEF Machines
<1>2. top # {} => Least(top) \in top
  BY <1>1, LeastMember
<1>3. best # {} => Least(best) \in best
  BY <1>1, LeastMember
<1>4. Arbitrate(x) = IF top # {} THEN Least(top)
                     ELSE IF best # {} THEN Least(best) ELSE None
  BY DEF Arbitrate
<1>5. top \subseteq x.pending /\ best \subseteq x.pending
  OBVIOUS
<1>. HIDE DEF top, best
<1>. QED BY <1>2, <1>3, <1>4, <1>5

\* Dispatch starts the pipeline of a pending source, arms a core fault, or
\* finds every pending source masked.
LEMMA DispatchGood ==
    ASSUME NEW x, Good(x), x.st \in {"None", "Long"}, NEW z, z = Dispatch(x)
    PROVE  /\ Good(z) /\ SameProgram(x, z)
           /\ z = x \/ z.st = "Armed" \/ (z.st = "Fast" /\ z.stage = 5)
<1>. DEFINE idx == Arbitrate(x)
            y == [x EXCEPT !.pending = @ \ {idx}, !.vec = vector_addr(idx),
                           !.raise = Lesser(Ipl[idx] + 1, 3), !.owed = @ \cup {idx}]
            arms == idx \in CoreFaults /\ x.budget # None
<1>1. x \in Machines /\ InFlight(x)
  BY DEF Good
<1>2. CASE idx = None
  BY <1>1, <1>2 DEF Dispatch, SameProgram
<1>3. CASE idx # None
  <2>1. /\ x.pending \in SUBSET Sources /\ x.owed \in SUBSET Sources
        /\ x.budget \in {None} \cup 0 .. 8
    BY <1>1 DEF Machines
  <2>2. idx \in x.pending /\ idx \in Sources
    BY <1>1, <1>3, <2>1, ArbitratePending
  <2>3. /\ vector_addr(idx) \in Addrs /\ vector_addr(idx) \in VectorAddrs
        /\ Lesser(Ipl[idx] + 1, 3) \in 0 .. 3
    BY <2>2, VectorInMemory DEF Lesser
  <2>4. x.owed = {}
    BY <1>1 DEF InFlight
  <2>5. z = IF arms THEN [y EXCEPT !.st = "Armed"]
            ELSE [y EXCEPT !.st = "Fast", !.stage = 5]
    BY <1>3 DEF Dispatch
  <2>. HIDE DEF idx
  <2>6. y \in Machines
    BY <1>1, <2>1, <2>2, <2>3 DEF Machines
  <2>7. /\ y.pc = x.pc /\ y.stk = x.stk /\ y.frames = x.frames /\ y.rep = x.rep
        /\ y.onrep = x.onrep /\ y.budget = x.budget /\ y.vec = vector_addr(idx)
        /\ y.pending = x.pending \ {idx} /\ y.owed = {idx}
    BY <1>1, <2>4 DEF Machines
  <2>. HIDE DEF y
  <2>a. [y EXCEPT !.st = "Armed"] \in Machines
    BY <2>6 DEF Machines
  <2>b. [y EXCEPT !.st = "Fast", !.stage = 5] \in Machines
    BY <2>6, Numerals DEF Machines
  <2>8. z \in Machines
    BY <2>5, <2>a, <2>b
  <2>9. /\ z.pc = y.pc /\ z.stk = y.stk /\ z.frames = y.frames /\ z.rep = y.rep
        /\ z.onrep = y.onrep /\ z.budget = y.budget /\ z.vec = y.vec
        /\ z.pending = y.pending /\ z.owed = y.owed
        /\ IF arms THEN z.st = "Armed" ELSE z.st = "Fast" /\ z.stage = 5
    BY <2>5, <2>6 DEF Machines
  <2>10. x.budget # None => x.pending \cap CoreFaults # {}
    BY <1>1 DEF InFlight
  <2>11. z.budget # None => z.st = "Armed" \/ z.pending \cap CoreFaults # {}
    BY <2>7, <2>9, <2>10
  <2>12. InFlight(z)
    BY <2>2, <2>3, <2>7, <2>9, <2>11 DEF InFlight
  <2>. QED BY <2>7, <2>8, <2>9, <2>12 DEF Good, SameProgram
<1>. QED BY <1>2, <1>3

\* deliver_armed_fault.
LEMMA DeliverArmedGood ==
    ASSUME NEW x \in Machines, NEW c \in Codes, x.vec \in VectorAddrs,
           \A i \in x.owed : x.vec = vector_addr(i),
           NEW z, z = DeliverArmed(x, c)
    PROVE  Good(z) /\ Fetched(x, x.vec, z, c)
<1>. DEFINE w == [x EXCEPT !.st = "Fast", !.budget = None]
<1>1. z = [FetchVector(w, c) EXCEPT !.stage = 3]
  BY DEF DeliverArmed
<1>2. w \in Machines
  BY DEF Machines, None
<1>3. /\ w.pc = x.pc /\ w.vec = x.vec /\ w.owed = x.owed /\ w.rep = x.rep /\ w.onrep = x.onrep
      /\ w.stk = x.stk /\ w.frames = x.frames /\ w.ipl = x.ipl
      /\ w.st = "Fast" /\ w.budget = None
  BY DEF Machines
<1>. HIDE DEF w
<1>4. Good(z) /\ Fetched(w, w.vec, z, c)
  BY <1>1, <1>2, <1>3, FetchedGood
<1>5. \A f : Expect(w, f) = Expect(x, f)
  BY <1>3 DEF Expect
<1>6. Fetched(x, x.vec, z, c)
  BY <1>3, <1>4, <1>5 DEF Fetched
<1>. QED BY <1>4, <1>6

\* deliver_parked_fault.
LEMMA DeliverParkedGood ==
    ASSUME NEW x, Good(x), x.st = "Parked", NEW c \in Codes,
           NEW z, z = DeliverParked(x, c)
    PROVE  /\ Good(z)
           /\ \/ SameProgram(x, z) /\ z.st = "None"
              \/ \E v \in VectorAddrs : Fetched(x, v, z, c)
<1>. DEFINE ready == {i \in x.pending : Ipl[i] = 3}
            idx == Least(ready)
            w == [x EXCEPT !.pending = @ \ {idx}, !.vec = vector_addr(idx),
                           !.raise = 3, !.owed = @ \cup {idx}]
<1>1. x \in Machines /\ InFlight(x) /\ x.owed = {}
  BY DEF Good, InFlight
<1>2. x.pending \in SUBSET Sources
  BY <1>1 DEF Machines
<1>3. CASE ready = {}
  <2>1. z = [x EXCEPT !.st = "None"]
    BY <1>3 DEF DeliverParked
  <2>2. z \in Machines
    BY <1>1, <2>1 DEF Machines
  <2>3. /\ SameProgram(x, z) /\ z.st = "None" /\ z.owed = {} /\ z.budget = x.budget
        /\ z.pending = x.pending
    BY <1>1, <2>1 DEF Machines, SameProgram
  <2>4. x.pending \cap CoreFaults = {}
    BY <1>3, SourceAssumption
  <2>5. InFlight(z)
    BY <1>1, <2>3, <2>4 DEF InFlight
  <2>. QED BY <2>2, <2>3, <2>5 DEF Good
<1>4. CASE ready # {}
  <2>1. ready \in SUBSET Nat
    BY <1>2, SourceAssumption
  <2>2. idx \in ready
    BY <1>4, <2>1, LeastMember
  <2>3. idx \in Sources /\ vector_addr(idx) \in Addrs /\ vector_addr(idx) \in VectorAddrs
    BY <1>2, <2>2, VectorInMemory
  <2>4. z = DeliverArmed(w, c)
    BY <1>4 DEF DeliverParked
  <2>. HIDE DEF ready, idx
  <2>5. w \in Machines
    BY <1>1, <1>2, <2>3, Numerals DEF Machines
  <2>6. /\ w.pc = x.pc /\ w.vec = vector_addr(idx) /\ w.owed = {idx} /\ w.rep = x.rep
        /\ w.onrep = x.onrep /\ w.stk = x.stk /\ w.frames = x.frames /\ w.ipl = x.ipl
    BY <1>1 DEF Machines
  <2>. HIDE DEF w
  <2>7. Good(z) /\ Fetched(w, w.vec, z, c)
    BY <2>3, <2>4, <2>5, <2>6, DeliverArmedGood
  <2>8. \A f : Expect(w, f) = Expect(x, f)
    BY <2>6 DEF Expect
  <2>9. Fetched(x, vector_addr(idx), z, c)
    BY <2>6, <2>7, <2>8 DEF Fetched
  <2>. QED BY <2>3, <2>7, <2>9
<1>. QED BY <1>3, <1>4

\* The ticks of an interrupt in flight: a stage that only counts, the second
\* vector word, the return to the interrupted program, the end.
Waited(x, z) ==
    /\ x.stage \in {5, 1} /\ z.stage = x.stage - 1 /\ z.st = "Fast"
    /\ SameProgram(x, z) /\ z.saved = x.saved /\ z.vec = x.vec /\ z.frame = x.frame
SecondWord(x, z, c) ==
    LET long == x.pc = mask_pc(x.vec + 1) /\ IsLong(c[x.pc]) IN
    /\ x.stage = 3 /\ z.stage = 2 /\ z.st = (IF long THEN "Long" ELSE "Fast")
    /\ z.pc = x.pc /\ z.rep = x.rep /\ z.onrep = x.onrep
    /\ z.saved = x.saved /\ z.vec = x.vec /\ z.frame = (long \/ x.frame)
    /\ z.stk = (IF long THEN stack_push(x.stk, x.saved, x.ipl) ELSE x.stk)
    /\ z.frames = (IF ~long THEN x.frames ELSE IF PushFaults(x.stk) THEN Lost
                   ELSE Expect(x, Append(x.frames, x.saved)))
Resumed(x, z) ==
    /\ x.stage = 2 /\ z.stage = 1 /\ z.st = "Fast"
    /\ z.pc = (IF x.pc = mask_pc(x.vec + 2) THEN x.saved ELSE x.pc)
    /\ z.stk = x.stk /\ z.frames = x.frames /\ z.rep = x.rep /\ z.onrep = x.onrep
    /\ z.saved = x.saved /\ z.vec = x.vec /\ z.frame = x.frame
Idle(z) == z.st \in {"None", "Parked", "Armed"} \/ (z.st = "Fast" /\ z.stage = 5)

\* One tick of an interrupt in flight is one of those, and sound.
LEMMA TickFastGood ==
    ASSUME NEW x, Good(x), x.st = "Fast", NEW c \in Codes, NEW z, z = TickFast(x, c)
    PROVE  /\ Good(z)
           /\ \/ Waited(x, z)
              \/ x.stage = 4 /\ Fetched(x, x.vec, z, c)
              \/ SecondWord(x, z, c)
              \/ Resumed(x, z)
              \/ x.stage = 0 /\ SameProgram(x, z) /\ Idle(z)
<1>1. x \in Machines /\ InFlight(x) /\ x.vec \in VectorAddrs /\ x.stage \in 0 .. 5
  BY DEF Good, InFlight, Machines
<1>2. CASE x.stage \in {5, 1}
  <2>. DEFINE n == x.stage - 1
  <2>1. z = [x EXCEPT !.stage = n]
    BY <1>2 DEF TickFast
  <2>2. n \in 0 .. 5 /\ (x.stage = 5 => n = 4) /\ (x.stage = 1 => n = 0)
    BY <1>2
  <2>. HIDE DEF n
  <2>3. z \in Machines
    BY <1>1, <2>1, <2>2, ZenonT(60) DEF Machines
  <2>4. /\ SameProgram(x, z) /\ z.saved = x.saved /\ z.vec = x.vec /\ z.frame = x.frame
        /\ z.st = "Fast" /\ z.owed = x.owed /\ z.budget = x.budget /\ z.pending = x.pending
        /\ z.stage = n
    BY <1>1, <2>1 DEF Machines, SameProgram
  <2>5. InFlight(z)
    BY <1>1, <1>2, <2>2, <2>4 DEF InFlight
  <2>6. Waited(x, z)
    BY <1>2, <2>4 DEF Waited, n
  <2>. QED BY <2>3, <2>5, <2>6 DEF Good
<1>3. CASE x.stage = 4
  <2>1. z = [FetchVector(x, c) EXCEPT !.stage = 3]
    BY <1>3 DEF TickFast
  <2>2. \A i \in x.owed : x.vec = vector_addr(i)
    BY <1>1 DEF InFlight
  <2>3. x.budget # None => x.pending \cap CoreFaults # {}
    BY <1>1 DEF InFlight
  <2>. QED BY <1>1, <1>3, <2>1, <2>2, <2>3, FetchedGood
<1>4. CASE x.stage = 3
  <2>. DEFINE w == IF x.pc = mask_pc(x.vec + 1) THEN DetectLong(x, c) ELSE x
              long == x.pc = mask_pc(x.vec + 1) /\ IsLong(c[x.pc])
  <2>1. z = [w EXCEPT !.stage = 2]
    BY <1>4 DEF TickFast
  <2>2. x.saved \in Addrs /\ x.owed = {} /\ x.frame \in BOOLEAN
    BY <1>1, <1>4 DEF InFlight, Machines
  <2>3. /\ w \in Machines
        /\ w.pc = x.pc /\ w.rep = x.rep /\ w.onrep = x.onrep
        /\ w.vec = x.vec /\ w.saved = x.saved
        /\ w.owed = x.owed /\ x.pending \subseteq w.pending
        /\ w.budget = x.budget \/ StackError \in w.pending
        /\ w.st = (IF long THEN "Long" ELSE "Fast")
        /\ w.frame = (long \/ x.frame)
        /\ w.stk = (IF long THEN stack_push(x.stk, x.saved, x.ipl) ELSE x.stk)
        /\ w.frames = (IF ~long THEN x.frames ELSE IF PushFaults(x.stk) THEN Lost
                       ELSE Expect(x, Append(x.frames, x.saved)))
    <3>1. CASE x.pc = mask_pc(x.vec + 1)
      <4>. DEFINE dl == IsLong(c[x.pc]) /\ x.st # "Long"
      <4>1. /\ w \in Machines
            /\ w.pc = x.pc /\ w.adv = x.adv /\ w.rep = x.rep /\ w.onrep = x.onrep
            /\ w.stage = x.stage /\ w.vec = x.vec /\ w.saved = x.saved
            /\ w.owed = x.owed /\ x.pending \subseteq w.pending
            /\ w.budget = x.budget \/ StackError \in w.pending
            /\ w.st = (IF dl THEN "Long" ELSE x.st)
            /\ w.frame = (dl \/ x.frame)
            /\ w.stk = (IF dl THEN stack_push(x.stk, x.saved, x.ipl) ELSE x.stk)
            /\ w.frames = (IF ~dl THEN x.frames ELSE IF PushFaults(x.stk) THEN Lost
                           ELSE Expect(x, Append(x.frames, x.saved)))
        BY <1>1, <2>2, <3>1, DetectLongFields
      <4>2. dl = long
        BY <3>1 DEF IsLong
      <4>. HIDE DEF w, dl, long
      <4>. QED BY <4>1, <4>2
    <3>2. CASE x.pc # mask_pc(x.vec + 1)
      BY <1>1, <2>2, <3>2
    <3>. QED BY <3>1, <3>2
  <2>4. w \in Machines
    BY <2>3
  <2>5. long \in BOOLEAN
    BY DEF IsLong
  <2>. HIDE DEF w, long
  <2>6. z \in Machines
    BY <2>1, <2>4, Numerals DEF Machines
  <2>7. /\ z.pc = w.pc /\ z.rep = w.rep /\ z.onrep = w.onrep /\ z.stage = 2
        /\ z.vec = w.vec /\ z.saved = w.saved /\ z.owed = w.owed /\ z.pending = w.pending
        /\ z.budget = w.budget /\ z.st = w.st /\ z.frame = w.frame /\ z.stk = w.stk
        /\ z.frames = w.frames
    BY <2>1, <2>4 DEF Machines
  <2>8. x.budget # None => x.pending \cap CoreFaults # {}
    BY <1>1 DEF InFlight
  <2>9. z.budget # None => z.pending \cap CoreFaults # {}
    BY <2>3, <2>7, <2>8 DEF CoreFaults
  <2>10. InFlight(z)
    BY <1>1, <2>2, <2>3, <2>7, <2>9 DEF InFlight
  <2>11. SecondWord(x, z, c)
    BY <1>4, <2>3, <2>7 DEF SecondWord, long
  <2>. QED BY <2>6, <2>10, <2>11 DEF Good
<1>5. CASE x.stage = 2
  <2>. DEFINE p == IF x.pc = mask_pc(x.vec + 2) THEN x.saved ELSE x.pc
  <2>1. z = [x EXCEPT !.pc = p, !.stage = 1]
    BY <1>5 DEF TickFast
  <2>2. x.saved \in Addrs /\ x.owed = {} /\ p \in Addrs
    BY <1>1, <1>5 DEF InFlight, Machines
  <2>3. p = IF x.pc = mask_pc(x.vec + 2) THEN x.saved ELSE x.pc
    OBVIOUS
  <2>. HIDE DEF p
  <2>4. z \in Machines
    BY <1>1, <2>1, <2>2, Numerals, ZenonT(60) DEF Machines
  <2>5. /\ z.pc = p /\ z.stage = 1 /\ z.st = "Fast" /\ z.stk = x.stk /\ z.frames = x.frames
        /\ z.rep = x.rep /\ z.onrep = x.onrep /\ z.saved = x.saved /\ z.vec = x.vec
        /\ z.frame = x.frame /\ z.owed = x.owed /\ z.budget = x.budget
        /\ z.pending = x.pending
    BY <1>1, <2>1 DEF Machines
  <2>6. InFlight(z)
    BY <1>1, <2>2, <2>5 DEF InFlight
  <2>7. Resumed(x, z)
    BY <1>5, <2>3, <2>5 DEF Resumed
  <2>. QED BY <2>4, <2>6, <2>7 DEF Good
<1>6. CASE x.stage = 0
  <2>. DEFINE y == [x EXCEPT !.saved = None, !.vec = None]
              n == [y EXCEPT !.st = "None"]
              p == [y EXCEPT !.st = "Parked", !.countdown = 3, !.spw = FALSE]
  <2>1. z = IF x.pending \cap CoreFaults # {} THEN p ELSE Dispatch(n)
    BY <1>6 DEF TickFast
  <2>2. x.owed = {} /\ (x.budget # None => x.pending \cap CoreFaults # {})
    BY <1>1, <1>6 DEF InFlight
  <2>3. y \in Machines
    BY <1>1 DEF Machines
  <2>4. SameProgram(x, y) /\ y.owed = {} /\ y.budget = x.budget /\ y.pending = x.pending
    BY <1>1, <2>2 DEF Machines, SameProgram
  <2>. HIDE DEF y
  <2>5. CASE x.pending \cap CoreFaults # {}
    <3>1. z = p
      BY <2>1, <2>5
    <3>2. p \in Machines
      BY <2>3, Numerals DEF Machines
    <3>3. SameProgram(y, p) /\ p.owed = y.owed /\ p.st = "Parked" /\ p.pending = y.pending
      BY <2>3 DEF Machines, SameProgram
    <3>4. InFlight(p)
      BY <2>4, <2>5, <3>3 DEF InFlight
    <3>. HIDE DEF p
    <3>. QED BY <1>6, <2>4, <3>1, <3>2, <3>3, <3>4 DEF Good, SameProgram, Idle
  <2>6. CASE x.pending \cap CoreFaults = {}
    <3>1. z = Dispatch(n)
      BY <2>1, <2>6
    <3>2. n \in Machines
      BY <2>3 DEF Machines
    <3>3. /\ SameProgram(y, n) /\ n.owed = y.owed /\ n.st = "None" /\ n.pending = y.pending
          /\ n.budget = y.budget
      BY <2>3 DEF Machines, SameProgram
    <3>4. Good(n)
      BY <2>2, <2>4, <3>2, <3>3 DEF InFlight, Good
    <3>. HIDE DEF n
    <3>5. /\ Good(z) /\ SameProgram(n, z)
          /\ z = n \/ z.st = "Armed" \/ (z.st = "Fast" /\ z.stage = 5)
      BY <3>1, <3>3, <3>4, DispatchGood
    <3>. QED BY <1>6, <2>4, <3>3, <3>5 DEF SameProgram, Idle
  <2>. QED BY <2>5, <2>6
<1>. QED BY <1>1, <1>2, <1>3, <1>4, <1>5, <1>6

\* One tick of a parked fault.
LEMMA TickParkedGood ==
    ASSUME NEW x, Good(x), x.st = "Parked", NEW c \in Codes, NEW z, z = TickParked(x, c)
    PROVE  /\ Good(z)
           /\ \/ SameProgram(x, z) /\ Idle(z)
              \/ \E v \in VectorAddrs : Fetched(x, v, z, c)
<1>. DEFINE n == IF x.countdown > 0 THEN x.countdown - 1 ELSE 0
            d == IF x.spw THEN Greater(n, 3) ELSE n
            y == [x EXCEPT !.countdown = d, !.spw = FALSE]
<1>1. x \in Machines /\ InFlight(x)
  BY DEF Good
<1>2. z = IF d = 0 THEN DeliverParked(y, c) ELSE y
  BY DEF TickParked
<1>3. d \in 0 .. 3
  BY <1>1 DEF Machines, Greater
<1>. HIDE DEF d
<1>4. y \in Machines
  BY <1>1, <1>3 DEF Machines
<1>5. /\ SameProgram(x, y) /\ y.owed = x.owed /\ y.st = "Parked" /\ y.pending = x.pending
      /\ y.budget = x.budget /\ y.ipl = x.ipl
  BY <1>1 DEF Machines, SameProgram
<1>. HIDE DEF y
<1>6. Good(y)
  BY <1>1, <1>4, <1>5 DEF Good, InFlight
<1>7. CASE d # 0
  BY <1>2, <1>5, <1>6, <1>7 DEF Idle
<1>8. CASE d = 0
  <2>1. z = DeliverParked(y, c)
    BY <1>2, <1>8
  <2>2. /\ Good(z)
        /\ \/ SameProgram(y, z) /\ z.st = "None"
           \/ \E v \in VectorAddrs : Fetched(y, v, z, c)
    BY <1>5, <1>6, <2>1, DeliverParkedGood
  <2>3. CASE SameProgram(y, z) /\ z.st = "None"
    BY <1>5, <2>2, <2>3 DEF SameProgram, Idle
  <2>4. CASE \E v \in VectorAddrs : Fetched(y, v, z, c)
    <3>1. PICK v \in VectorAddrs : Fetched(y, v, z, c)
      BY <2>4
    <3>2. \A f : Expect(y, f) = Expect(x, f)
      BY <1>5 DEF Expect, SameProgram
    <3>3. Fetched(x, v, z, c)
      BY <1>5, <3>1, <3>2 DEF Fetched, SameProgram
    <3>. QED BY <2>2, <3>3
  <2>. QED BY <2>2, <2>3, <2>4
<1>. QED BY <1>7, <1>8

\* process_pending_interrupts, whatever the state of the pipeline.
Processed(x, z, c) ==
    \/ z = x /\ (x.rep \/ x.st \in {"None", "Long", "Armed"})
    \/ /\ x.st = "Fast"
       /\ \/ Waited(x, z)
          \/ x.stage = 4 /\ ~x.rep /\ Fetched(x, x.vec, z, c)
          \/ SecondWord(x, z, c)
          \/ Resumed(x, z)
          \/ x.stage = 0 /\ SameProgram(x, z) /\ Idle(z)
    \/ x.st \in {"None", "Long", "Parked"} /\ SameProgram(x, z) /\ Idle(z)
    \/ x.st = "Parked" /\ ~x.rep /\ \E v \in VectorAddrs : Fetched(x, v, z, c)

\* process_pending_interrupts keeps the pipeline sound.
LEMMA ProcessPendingGood ==
    ASSUME NEW x, Good(x), NEW c \in Codes, NEW z, z = ProcessPending(x, c)
    PROVE  Good(z) /\ Processed(x, z, c)
<1>1. x \in Machines
  BY DEF Good
<1>2. x.rep \in BOOLEAN /\ x.st \in {"None", "Fast", "Long", "Armed", "Parked"}
  BY <1>1 DEF Machines
<1>3. CASE x.rep \/ x.st = "Armed"
  <2>1. z = x
    BY <1>2, <1>3 DEF ProcessPending
  <2>. QED BY <1>3, <2>1 DEF Processed
<1>4. CASE ~x.rep /\ x.st = "Fast"
  <2>1. z = TickFast(x, c)
    BY <1>2, <1>4 DEF ProcessPending
  <2>. QED BY <1>4, <2>1, TickFastGood DEF Processed
<1>5. CASE ~x.rep /\ x.st = "Parked"
  <2>1. z = TickParked(x, c)
    BY <1>2, <1>5 DEF ProcessPending
  <2>. QED BY <1>5, <2>1, TickParkedGood DEF Processed
<1>6. CASE ~x.rep /\ x.st \in {"None", "Long"}
  <2>1. z = Dispatch(x)
    BY <1>2, <1>6 DEF ProcessPending
  <2>. QED BY <1>6, <2>1, DispatchGood DEF Processed, Idle
<1>. QED BY <1>2, <1>3, <1>4, <1>5, <1>6
-------------------------------------------------------------------------------
(* One instruction.                                                        *)

\* What an instruction never touches, and how it reports a fault.
Executed(x, y) ==
    /\ y \in Machines
    /\ y.stage = x.stage /\ y.vec = x.vec /\ y.saved = x.saved /\ y.owed = x.owed
    /\ y.frame = x.frame
    /\ x.pending \subseteq y.pending
    /\ y.budget = x.budget \/ y.pending \cap CoreFaults # {}

\* The fields of an instruction, and where it can lead.
LEMMA InstructionType ==
    ASSUME NEW c \in Codes, NEW a \in Addrs
    PROVE  /\ c[a].op \in Ops /\ c[a].len \in {1, 2}
           /\ c[a].op \in {"jmp", "jsr", "jscc"} => c[a].arg \in Addrs
           /\ c[a].op = "fault" => c[a].arg \in CoreFaults
           /\ c[a].op = "mask" => c[a].arg \in 0 .. 3
           /\ c[a].op = "spwrite" => c[a].arg \in Slots
           /\ c[a].op = "rep" => c[a].len = 1 /\ c[a].arg \in Nat
           /\ mask_pc(a + c[a].len) \in Addrs /\ mask_pc(a + 1) \in Addrs
           /\ mask_pc(a + 2) \in Addrs
<1>1. /\ c[a].op \in Ops /\ c[a].len \in {1, 2}
      /\ c[a].op \in {"jmp", "jsr", "jscc"} => c[a].arg \in Addrs
      /\ c[a].op = "fault" => c[a].arg \in CoreFaults
      /\ c[a].op = "mask" => c[a].arg \in 0 .. 3
      /\ c[a].op = "spwrite" => c[a].arg \in Slots
      /\ c[a].op = "rep" => c[a].len = 1 /\ c[a].arg \in Nat
  BY CodeAssumption
<1>2. a + c[a].len \in Nat /\ a + 1 \in Nat /\ a + 2 \in Nat
  BY <1>1, CodeAssumption DEF Addrs
<1>. QED BY <1>1, <1>2, MaskPc

\* What a correct program expects after a pop has its type.
LEMMA ExpectPopType ==
    ASSUME NEW x \in Machines
    PROVE  ExpectPop(x) \in Seq(Addrs \cup {None})
<1>. DEFINE q == x.frames
<1>1. q \in Seq(Addrs \cup {None})
  BY DEF Machines
<1>2. Len(q) \in Nat /\ \A i \in 1 .. Len(q) - 1 : q[i] \in Addrs \cup {None}
  BY <1>1, LenProperties, ElementOfSeq
<1>3. SubSeq(q, 1, Len(q) - 1) \in Seq(Addrs \cup {None})
  BY <1>2, SubSeqProperties
<1>. QED BY <1>3, ExpectType DEF ExpectPop

\* The instructions that move the stack.
Called(x, y, i) ==
    LET ret == mask_pc(x.pc + i.len) IN
    /\ y.adv = 0 /\ y.pc = i.arg
    /\ y.st = (IF x.st = "Long" THEN "Fast" ELSE x.st)
    /\ y.stk = (IF x.st = "Long" THEN x.stk ELSE inline_push(x.stk, ret, x.ipl))
    /\ y.frames = (IF AtVector(x) THEN x.frames ELSE IF PushFaults(x.stk) THEN Lost
                   ELSE Expect(x, Append(x.frames, ret)))
Returned(x, y) ==
    /\ y.adv = 0 /\ y.pc = mask_pc(inline_popped(x.stk)[1]) /\ y.st = x.st
    /\ y.stk = inline_pop(x.stk) /\ y.frames = ExpectPop(x)

\* The JSR family is a call.
LEMMA ExecJsrFields ==
    ASSUME NEW x \in Machines, NEW i, i.arg \in Addrs, i.len \in {1, 2},
           NEW y, y = ExecJsr(x, i)
    PROVE  Executed(x, y) /\ Called(x, y, i) /\ y.rep = x.rep /\ y.onrep = x.onrep
<1>. DEFINE ret == mask_pc(x.pc + i.len)
            fs == IF AtVector(x) THEN x.frames ELSE IF PushFaults(x.stk) THEN Lost
                  ELSE Expect(x, Append(x.frames, ret))
            w == [x EXCEPT !.adv = 0, !.pc = i.arg, !.frames = fs]
            sk == inline_push(x.stk, ret, x.ipl)
            pd == IF PushFaults(x.stk) THEN x.pending \cup {StackError} ELSE x.pending
            bg == IF PushFaults(x.stk) THEN 9 - i.len ELSE x.budget
<1>1. /\ x.stk \in Stacks /\ x.ipl \in 0 .. 3 /\ x.frames \in Seq(Addrs \cup {None})
      /\ x.budget \in {None} \cup 0 .. 8 /\ x.pending \in SUBSET Sources /\ x.pc \in Addrs
  BY DEF Machines
<1>2. ret \in Addrs
  <2>1. x.pc + i.len \in Nat
    BY <1>1, CodeAssumption DEF Addrs
  <2>. QED BY <2>1, MaskPc
<1>3. sk \in Stacks
  BY <1>1, <1>2, PushType
<1>4. fs \in Seq(Addrs \cup {None})
  BY <1>1, <1>2, ExpectType, AppendType
<1>5. /\ pd \in SUBSET Sources /\ x.pending \subseteq pd
      /\ bg = x.budget \/ pd \cap CoreFaults # {}
  BY <1>1, SourceAssumption DEF CoreFaults
<1>6. bg \in {None} \cup 0 .. 8
  BY <1>1
<1>7. y = IF x.st = "Long" THEN [w EXCEPT !.st = "Fast"]
          ELSE [w EXCEPT !.stk = sk, !.pending = pd, !.budget = bg]
  <2>1. w.stk = x.stk /\ w.pending = x.pending /\ w.budget = x.budget
    BY DEF Machines
  <2>2. y = IF x.st = "Long" THEN [w EXCEPT !.st = "Fast"]
            ELSE [w EXCEPT !.stk = inline_push(w.stk, ret, x.ipl),
                      !.pending = IF PushFaults(x.stk) THEN w.pending \cup {StackError} ELSE w.pending,
                      !.budget = IF PushFaults(x.stk) THEN 9 - i.len ELSE w.budget]
    BY DEF ExecJsr
  <2>. HIDE DEF w
  <2>. QED BY <2>1, <2>2
<1>8. /\ fs = (IF AtVector(x) THEN x.frames ELSE IF PushFaults(x.stk) THEN Lost
               ELSE Expect(x, Append(x.frames, ret)))
      /\ sk = inline_push(x.stk, ret, x.ipl)
  OBVIOUS
<1>. HIDE DEF ret, fs, sk, pd, bg
<1>9. w \in Machines
  BY <1>4, Numerals DEF Machines
<1>10. /\ w.adv = 0 /\ w.pc = i.arg /\ w.frames = fs /\ w.stk = x.stk /\ w.st = x.st
       /\ w.rep = x.rep /\ w.onrep = x.onrep /\ w.stage = x.stage /\ w.vec = x.vec
       /\ w.saved = x.saved /\ w.owed = x.owed /\ w.frame = x.frame
       /\ w.pending = x.pending /\ w.budget = x.budget
  BY DEF Machines
<1>. HIDE DEF w
<1>11. CASE x.st = "Long"
  <2>1. y = [w EXCEPT !.st = "Fast"]
    BY <1>7, <1>11
  <2>2. y \in Machines
    BY <1>9, <2>1 DEF Machines
  <2>3. /\ y.adv = 0 /\ y.pc = i.arg /\ y.frames = fs /\ y.stk = x.stk /\ y.st = "Fast"
        /\ y.rep = x.rep /\ y.onrep = x.onrep /\ y.stage = x.stage /\ y.vec = x.vec
        /\ y.saved = x.saved /\ y.owed = x.owed /\ y.frame = x.frame
        /\ y.pending = x.pending /\ y.budget = x.budget
    BY <1>9, <1>10, <2>1 DEF Machines
  <2>. QED BY <1>8, <1>11, <2>2, <2>3 DEF Executed, Called, ret
<1>12. CASE x.st # "Long"
  <2>1. y = [w EXCEPT !.stk = sk, !.pending = pd, !.budget = bg]
    BY <1>7, <1>12
  <2>2. y \in Machines
    <3>. DEFINE a == [w EXCEPT !.stk = sk]
                b == [a EXCEPT !.pending = pd]
    <3>1. a \in Machines
      BY <1>3, <1>9 DEF Machines
    <3>2. b \in Machines
      <4>. HIDE DEF a
      <4>. QED BY <1>5, <3>1 DEF Machines
    <3>3. [b EXCEPT !.budget = bg] \in Machines
      <4>. HIDE DEF b
      <4>. QED BY <1>6, <3>2 DEF Machines
    <3>4. y = [b EXCEPT !.budget = bg]
      BY <2>1
    <3>. QED BY <3>3, <3>4
  <2>3. /\ y.adv = 0 /\ y.pc = i.arg /\ y.frames = fs /\ y.stk = sk /\ y.st = x.st
        /\ y.rep = x.rep /\ y.onrep = x.onrep /\ y.stage = x.stage /\ y.vec = x.vec
        /\ y.saved = x.saved /\ y.owed = x.owed /\ y.frame = x.frame
        /\ y.pending = pd /\ y.budget = bg
    BY <1>9, <1>10, <2>1 DEF Machines
  <2>. QED BY <1>5, <1>8, <1>12, <2>2, <2>3 DEF Executed, Called, ret
<1>. QED BY <1>11, <1>12

\* RTS and RTI are returns.
LEMMA ExecReturnFields ==
    ASSUME NEW x \in Machines, NEW i, NEW y, y = ExecReturn(x, i)
    PROVE  Executed(x, y) /\ Returned(x, y) /\ y.rep = x.rep /\ y.onrep = x.onrep
<1>. DEFINE faults == PopFaults(x.stk)
            top == inline_popped(x.stk)
            p == mask_pc(top[1])
            sk == inline_pop(x.stk)
            fs == ExpectPop(x)
            pd == IF faults THEN x.pending \cup {StackError} ELSE x.pending
            bg == IF faults THEN 2 ELSE x.budget
            w == [x EXCEPT !.adv = 0, !.pc = p, !.stk = sk, !.pending = pd,
                           !.budget = bg, !.frames = fs]
            ls == IF x.levels = << >> THEN x.levels ELSE SubSeq(x.levels, 1, Len(x.levels) - 1)
            l == top[2] % 4
<1>1. /\ x.stk \in Stacks /\ x.ipl \in 0 .. 3 /\ x.levels \in Seq(0 .. 3)
      /\ x.budget \in {None} \cup 0 .. 8 /\ x.pending \in SUBSET Sources /\ x.pc \in Addrs
  BY DEF Machines
<1>2. top[1] \in Addrs /\ top[2] \in 0 .. 3 /\ sk \in Stacks
  BY <1>1, PopType
<1>3. p \in Addrs
  BY <1>2, MaskPc DEF Addrs
<1>4. fs \in Seq(Addrs \cup {None})
  BY ExpectPopType
<1>5. /\ pd \in SUBSET Sources /\ x.pending \subseteq pd
      /\ bg = x.budget \/ pd \cap CoreFaults # {}
  BY <1>1, SourceAssumption DEF CoreFaults
<1>a. bg \in {None} \cup 0 .. 8
  BY <1>1
<1>6. ls \in Seq(0 .. 3)
  <2>. DEFINE q == x.levels
  <2>1. Len(q) \in Nat /\ \A k \in 1 .. Len(q) - 1 : q[k] \in 0 .. 3
    BY <1>1, LenProperties, ElementOfSeq
  <2>2. SubSeq(q, 1, Len(q) - 1) \in Seq(0 .. 3)
    BY <2>1, SubSeqProperties
  <2>. QED BY <1>1, <2>2
<1>7. l \in 0 .. 3
  BY <1>2
<1>8. y = IF i.op = "rts" THEN w ELSE [w EXCEPT !.ipl = l, !.levels = ls]
  <2>1. w.levels = x.levels
    BY DEF Machines
  <2>2. y = IF i.op = "rts" THEN w
            ELSE [w EXCEPT !.ipl = l, !.levels = IF w.levels = << >> THEN w.levels
                                       ELSE SubSeq(w.levels, 1, Len(w.levels) - 1)]
    BY DEF ExecReturn
  <2>. HIDE DEF w
  <2>. QED BY <2>1, <2>2
<1>9. p = mask_pc(inline_popped(x.stk)[1]) /\ sk = inline_pop(x.stk) /\ fs = ExpectPop(x)
  OBVIOUS
<1>. HIDE DEF p, sk, fs, pd, bg, ls, l
<1>10. w \in Machines
  BY <1>2, <1>3, <1>4, <1>5, <1>a, Numerals DEF Machines
<1>11. /\ w.adv = 0 /\ w.pc = p /\ w.frames = fs /\ w.stk = sk /\ w.st = x.st
       /\ w.rep = x.rep /\ w.onrep = x.onrep /\ w.stage = x.stage /\ w.vec = x.vec
       /\ w.saved = x.saved /\ w.owed = x.owed /\ w.frame = x.frame
       /\ w.pending = pd /\ w.budget = bg
  BY DEF Machines
<1>. HIDE DEF w
<1>12. [w EXCEPT !.ipl = l, !.levels = ls] \in Machines
  BY <1>6, <1>7, <1>10 DEF Machines
<1>13. y \in Machines
  BY <1>8, <1>10, <1>12
<1>14. /\ y.adv = w.adv /\ y.pc = w.pc /\ y.frames = w.frames /\ y.stk = w.stk /\ y.st = w.st
       /\ y.rep = w.rep /\ y.onrep = w.onrep /\ y.stage = w.stage /\ y.vec = w.vec
       /\ y.saved = w.saved /\ y.owed = w.owed /\ y.frame = w.frame
       /\ y.pending = w.pending /\ y.budget = w.budget
  BY <1>8, <1>10 DEF Machines
<1>. QED BY <1>5, <1>9, <1>11, <1>13, <1>14 DEF Executed, Returned

\* A read of SSH is a pop.
LEMMA ExecPopFields ==
    ASSUME NEW x \in Machines, NEW y, y = ExecPop(x)
    PROVE  /\ Executed(x, y) /\ y.rep = x.rep /\ y.onrep = x.onrep
           /\ y.pc = x.pc /\ y.adv = x.adv /\ y.st = x.st
           /\ y.stk = stack_pop(x.stk) /\ y.frames = ExpectPop(x)
<1>. DEFINE sk == stack_pop(x.stk)
            fs == ExpectPop(x)
            pd == IF PopFaults(x.stk) THEN x.pending \cup {StackError} ELSE x.pending
            bg == IF PopFaults(x.stk) THEN 6 ELSE x.budget
            ht == IF PopFaults(x.stk) THEN None ELSE 6
<1>1. /\ x.stk \in Stacks /\ x.budget \in {None} \cup 0 .. 8 /\ x.pending \in SUBSET Sources
  BY DEF Machines
<1>2. sk \in Stacks /\ fs \in Seq(Addrs \cup {None})
  BY <1>1, PopType, ExpectPopType
<1>3. /\ pd \in SUBSET Sources /\ x.pending \subseteq pd
      /\ bg = x.budget \/ pd \cap CoreFaults # {}
  BY <1>1, SourceAssumption DEF CoreFaults
<1>4. bg \in {None} \cup 0 .. 8
  BY <1>1
<1>5. ht \in {None} \cup 0 .. 8
  OBVIOUS
<1>6. y = [x EXCEPT !.stk = sk, !.pending = pd, !.budget = bg, !.hint = ht, !.frames = fs]
  BY DEF ExecPop
<1>7. sk = stack_pop(x.stk) /\ fs = ExpectPop(x)
  OBVIOUS
<1>. HIDE DEF sk, fs, pd, bg, ht
<1>a. pd \in SUBSET Sources
  BY <1>3
<1>b. [x EXCEPT !.stk = sk, !.pending = pd, !.budget = bg, !.hint = ht, !.frames = fs]
         \in Machines
  BY <1>2, <1>a, <1>4, <1>5 DEF Machines
<1>8. y \in Machines
  BY <1>6, <1>b
<1>9. /\ y.adv = x.adv /\ y.pc = x.pc /\ y.frames = fs /\ y.stk = sk /\ y.st = x.st
      /\ y.rep = x.rep /\ y.onrep = x.onrep /\ y.stage = x.stage /\ y.vec = x.vec
      /\ y.saved = x.saved /\ y.owed = x.owed /\ y.frame = x.frame
      /\ y.pending = pd /\ y.budget = bg
  BY <1>6 DEF Machines
<1>. QED BY <1>3, <1>7, <1>8, <1>9 DEF Executed

\* A write of SP truncates what the program expects.
LEMMA ExecSpWriteFields ==
    ASSUME NEW x \in Machines, NEW i, i.arg \in Slots, i.len \in {1, 2},
           NEW y, y = ExecSpWrite(x, i)
    PROVE  /\ Executed(x, y) /\ y.rep = x.rep /\ y.onrep = x.onrep
           /\ y.pc = x.pc /\ y.adv = x.adv /\ y.st = x.st
           /\ y.stk = write_sp(x.stk, i.arg, FALSE, FALSE)
           /\ y.frames = (IF i.arg = 0 THEN << >>
                          ELSE IF x.frames = Lost \/ Len(x.frames) < i.arg THEN Lost
                          ELSE SubSeq(x.frames, 1, i.arg))
<1>. DEFINE sk == write_sp(x.stk, i.arg, FALSE, FALSE)
            fs == IF i.arg = 0 THEN << >>
                  ELSE IF x.frames = Lost \/ Len(x.frames) < i.arg THEN Lost
                  ELSE SubSeq(x.frames, 1, i.arg)
            ht == 6 - i.len
            sw == x.spw \/ x.st = "Parked"
            ls == IF i.arg = 0 THEN << >> ELSE x.levels
<1>1. /\ x.stk \in Stacks /\ x.levels \in Seq(0 .. 3) /\ x.spw \in BOOLEAN
      /\ x.frames \in Seq(Addrs \cup {None})
  BY DEF Machines
<1>2. sk \in Stacks
  BY <1>1, WriteSpType
<1>3. fs \in Seq(Addrs \cup {None})
  <2>. DEFINE q == x.frames
  <2>1. Len(q) \in Nat /\ \A k \in 1 .. Len(q) : q[k] \in Addrs \cup {None}
    BY <1>1, LenProperties, ElementOfSeq
  <2>2. i.arg \in Nat
    BY DEF Slots
  <2>3. ASSUME i.arg <= Len(q) PROVE SubSeq(q, 1, i.arg) \in Seq(Addrs \cup {None})
    <3>1. \A k \in 1 .. i.arg : q[k] \in Addrs \cup {None}
      BY <2>1, <2>2, <2>3
    <3>2. i.arg \in Int
      BY <2>2
    <3>. QED BY <3>1, <3>2, SubSeqProperties
  <2>4. << >> \in Seq(Addrs \cup {None}) /\ Lost \in Seq(Addrs \cup {None})
    BY DEF Lost
  <2>5. i.arg <= Len(q) \/ Len(q) < i.arg
    BY <2>1, <2>2
  <2>. QED BY <2>3, <2>4, <2>5
<1>4. ht \in {None} \cup 0 .. 8 /\ sw \in BOOLEAN
  BY <1>1
<1>5. ls \in Seq(0 .. 3)
  BY <1>1
<1>6. y = [x EXCEPT !.stk = sk, !.hint = ht, !.spw = sw, !.frames = fs, !.levels = ls]
  BY DEF ExecSpWrite
<1>7. /\ sk = write_sp(x.stk, i.arg, FALSE, FALSE)
      /\ fs = (IF i.arg = 0 THEN << >>
               ELSE IF x.frames = Lost \/ Len(x.frames) < i.arg THEN Lost
               ELSE SubSeq(x.frames, 1, i.arg))
  OBVIOUS
<1>. HIDE DEF sk, fs, ht, sw, ls
<1>b. [x EXCEPT !.stk = sk, !.hint = ht, !.spw = sw, !.frames = fs, !.levels = ls] \in Machines
  BY <1>2, <1>3, <1>4, <1>5 DEF Machines
<1>8. y \in Machines
  BY <1>6, <1>b
<1>9. /\ y.adv = x.adv /\ y.pc = x.pc /\ y.frames = fs /\ y.stk = sk /\ y.st = x.st
      /\ y.rep = x.rep /\ y.onrep = x.onrep /\ y.stage = x.stage /\ y.vec = x.vec
      /\ y.saved = x.saved /\ y.owed = x.owed /\ y.frame = x.frame
      /\ y.pending = x.pending /\ y.budget = x.budget
  BY <1>6 DEF Machines
<1>. QED BY <1>7, <1>8, <1>9 DEF Executed

\* An instruction that goes on with the next one: its effect on the stack.
Continued(x, y, i) ==
    /\ i.op \notin {"jmp", "jsr", "rts", "rti"}
    /\ y.adv = i.len /\ y.pc = x.pc /\ y.st = x.st
    /\ IF i.op = "pop" THEN y.stk = stack_pop(x.stk) /\ y.frames = ExpectPop(x)
       ELSE IF i.op = "spwrite"
       THEN /\ y.stk = write_sp(x.stk, i.arg, FALSE, FALSE)
            /\ y.frames = (IF i.arg = 0 THEN << >>
                           ELSE IF x.frames = Lost \/ Len(x.frames) < i.arg THEN Lost
                           ELSE SubSeq(x.frames, 1, i.arg))
       ELSE y.stk = x.stk /\ y.frames = x.frames
Jumped(x, y, i) ==
    /\ i.op = "jmp" /\ y.adv = 0 /\ y.pc = i.arg /\ y.st = x.st
    /\ y.stk = x.stk /\ y.frames = x.frames

\* Every instruction is one of the four kinds; only REP starts a REP.
LEMMA ExecFields ==
    ASSUME NEW x \in Machines, NEW c \in Codes, NEW taken \in BOOLEAN,
           NEW y, y = Exec(x, c, taken)
    PROVE  LET i == c[x.pc] IN
           /\ Executed(x, y)
           /\ \/ i.op \in {"jsr", "jscc"} /\ Called(x, y, i)
              \/ i.op \in {"rts", "rti"} /\ Returned(x, y)
              \/ Jumped(x, y, i)
              \/ Continued(x, y, i)
           /\ IF i.op = "rep" THEN y.rep = TRUE /\ y.onrep = TRUE
              ELSE y.rep = x.rep /\ y.onrep = x.onrep
<1>. DEFINE i == c[x.pc]
            n == i.len
            w == [x EXCEPT !.adv = n]
<1>1. x.pc \in Addrs /\ x.pending \in SUBSET Sources
  BY DEF Machines
<1>2. /\ i.op \in Ops /\ i.len \in {1, 2}
      /\ i.op \in {"jmp", "jsr", "jscc"} => i.arg \in Addrs
      /\ i.op = "fault" => i.arg \in CoreFaults
      /\ i.op = "mask" => i.arg \in 0 .. 3
      /\ i.op = "spwrite" => i.arg \in Slots
      /\ i.op = "rep" => i.arg \in Nat
  BY <1>1, InstructionType
<1>3. y = CASE i.op = "plain" -> w
         [] i.op = "jmp" -> [w EXCEPT !.adv = 0, !.pc = i.arg]
         [] i.op = "jsr" \/ (i.op = "jscc" /\ taken) -> ExecJsr(w, i)
         [] i.op = "jscc" /\ ~taken -> w
         [] i.op \in {"rts", "rti"} -> ExecReturn(w, i)
         [] i.op = "fault" -> [w EXCEPT !.pending = @ \cup {i.arg}, !.budget = 0]
         [] i.op = "wait" -> [w EXCEPT !.power = "Wait"]
         [] i.op = "stop" -> [w EXCEPT !.power = "Stop"]
         [] i.op = "rep" -> [w EXCEPT !.rep = TRUE, !.onrep = TRUE, !.lc = i.arg]
         [] i.op = "mask" -> [w EXCEPT !.ipl = i.arg]
         [] i.op = "spwrite" -> ExecSpWrite(w, i)
         [] i.op = "pop" -> ExecPop(w)
  BY DEF Exec
<1>. HIDE DEF i
<1>4. n \in 0 .. 3 /\ n = i.len
  BY <1>2
<1>. HIDE DEF n
<1>5. w \in Machines
  BY <1>4 DEF Machines
<1>6. /\ w.adv = i.len /\ w.pc = x.pc /\ w.frames = x.frames /\ w.stk = x.stk /\ w.st = x.st
      /\ w.rep = x.rep /\ w.onrep = x.onrep /\ w.stage = x.stage /\ w.vec = x.vec
      /\ w.saved = x.saved /\ w.owed = x.owed /\ w.frame = x.frame
      /\ w.pending = x.pending /\ w.budget = x.budget /\ w.ipl = x.ipl
  BY <1>4 DEF Machines
<1>. HIDE DEF w
<1>7. /\ \A f : Expect(w, f) = Expect(x, f)
      /\ AtVector(w) = AtVector(x)
      /\ ExpectPop(w) = ExpectPop(x)
  BY <1>6 DEF Expect, AtVector, ExpectPop
<1>8. CASE i.op = "plain" \/ (i.op = "jscc" /\ ~taken)
  <2>1. y = w
    BY <1>3, <1>8
  <2>. QED BY <1>5, <1>6, <1>8, <2>1 DEF Executed, Continued, i
<1>9. CASE i.op = "jmp"
  <2>1. y = [w EXCEPT !.adv = 0, !.pc = i.arg]
    BY <1>3, <1>9
  <2>2. [w EXCEPT !.adv = 0, !.pc = i.arg] \in Machines
    BY <1>2, <1>5, <1>9, Numerals DEF Machines
  <2>3. /\ y.adv = 0 /\ y.pc = i.arg /\ y.frames = w.frames /\ y.stk = w.stk /\ y.st = w.st
        /\ y.rep = w.rep /\ y.onrep = w.onrep /\ y.stage = w.stage /\ y.vec = w.vec
        /\ y.saved = w.saved /\ y.owed = w.owed /\ y.frame = w.frame
        /\ y.pending = w.pending /\ y.budget = w.budget
    BY <1>5, <2>1 DEF Machines
  <2>. QED BY <1>6, <1>9, <2>1, <2>2, <2>3 DEF Executed, Jumped, i
<1>10. CASE i.op = "jsr" \/ (i.op = "jscc" /\ taken)
  <2>1. y = ExecJsr(w, i)
    BY <1>3, <1>10
  <2>2. i.arg \in Addrs
    BY <1>2, <1>10
  <2>3. Executed(w, y) /\ Called(w, y, i) /\ y.rep = w.rep /\ y.onrep = w.onrep
    BY <1>2, <1>5, <2>1, <2>2, ExecJsrFields
  <2>4. Executed(x, y)
    BY <1>6, <2>3 DEF Executed
  <2>5. Called(x, y, i)
    BY <1>6, <1>7, <2>3 DEF Called
  <2>. QED BY <1>6, <1>10, <2>3, <2>4, <2>5 DEF i
<1>11. CASE i.op \in {"rts", "rti"}
  <2>1. y = ExecReturn(w, i)
    BY <1>3, <1>11
  <2>2. Executed(w, y) /\ Returned(w, y) /\ y.rep = w.rep /\ y.onrep = w.onrep
    BY <1>5, <2>1, ExecReturnFields
  <2>3. Executed(x, y)
    BY <1>6, <2>2 DEF Executed
  <2>4. Returned(x, y)
    BY <1>6, <1>7, <2>2 DEF Returned
  <2>. QED BY <1>6, <1>11, <2>2, <2>3, <2>4 DEF i
<1>12. CASE i.op = "fault"
  <2>1. y = [w EXCEPT !.pending = @ \cup {i.arg}, !.budget = 0]
    BY <1>3, <1>12
  <2>2. w.pending \cup {i.arg} \in SUBSET Sources /\ i.arg \in CoreFaults
    BY <1>1, <1>2, <1>6, <1>12, SourceAssumption
  <2>3. [w EXCEPT !.pending = @ \cup {i.arg}, !.budget = 0] \in Machines
    BY <1>5, <2>2, Numerals DEF Machines
  <2>4. /\ y.adv = w.adv /\ y.pc = w.pc /\ y.frames = w.frames /\ y.stk = w.stk
        /\ y.rep = w.rep /\ y.onrep = w.onrep /\ y.stage = w.stage /\ y.vec = w.vec
        /\ y.saved = w.saved /\ y.owed = w.owed /\ y.frame = w.frame /\ y.st = w.st
        /\ y.pending = w.pending \cup {i.arg}
    BY <1>5, <2>1 DEF Machines
  <2>. QED BY <1>6, <1>12, <2>1, <2>2, <2>3, <2>4 DEF Executed, Continued, i
<1>13. CASE i.op \in {"wait", "stop"}
  <2>. DEFINE p == IF i.op = "wait" THEN "Wait" ELSE "Stop"
  <2>1. y = [w EXCEPT !.power = p] /\ p \in {"Normal", "Wait", "Stop"}
    BY <1>3, <1>13
  <2>. HIDE DEF p
  <2>2. [w EXCEPT !.power = p] \in Machines
    BY <1>5, <2>1 DEF Machines
  <2>3. /\ y.adv = w.adv /\ y.pc = w.pc /\ y.frames = w.frames /\ y.stk = w.stk
        /\ y.rep = w.rep /\ y.onrep = w.onrep /\ y.stage = w.stage /\ y.vec = w.vec
        /\ y.saved = w.saved /\ y.owed = w.owed /\ y.frame = w.frame /\ y.st = w.st
        /\ y.pending = w.pending /\ y.budget = w.budget
    BY <1>5, <2>1 DEF Machines
  <2>. QED BY <1>6, <1>13, <2>1, <2>2, <2>3 DEF Executed, Continued, i
<1>14. CASE i.op = "rep"
  <2>1. y = [w EXCEPT !.rep = TRUE, !.onrep = TRUE, !.lc = i.arg]
    BY <1>3, <1>14
  <2>2. [w EXCEPT !.rep = TRUE, !.onrep = TRUE, !.lc = i.arg] \in Machines
    BY <1>2, <1>5, <1>14 DEF Machines
  <2>3. /\ y.adv = w.adv /\ y.pc = w.pc /\ y.frames = w.frames /\ y.stk = w.stk
        /\ y.rep = TRUE /\ y.onrep = TRUE /\ y.stage = w.stage /\ y.vec = w.vec
        /\ y.saved = w.saved /\ y.owed = w.owed /\ y.frame = w.frame /\ y.st = w.st
        /\ y.pending = w.pending /\ y.budget = w.budget
    BY <1>5, <2>1 DEF Machines
  <2>. QED BY <1>6, <1>14, <2>1, <2>2, <2>3 DEF Executed, Continued, i
<1>15. CASE i.op = "mask"
  <2>1. y = [w EXCEPT !.ipl = i.arg]
    BY <1>3, <1>15
  <2>2. [w EXCEPT !.ipl = i.arg] \in Machines
    BY <1>2, <1>5, <1>15 DEF Machines
  <2>3. /\ y.adv = w.adv /\ y.pc = w.pc /\ y.frames = w.frames /\ y.stk = w.stk
        /\ y.rep = w.rep /\ y.onrep = w.onrep /\ y.stage = w.stage /\ y.vec = w.vec
        /\ y.saved = w.saved /\ y.owed = w.owed /\ y.frame = w.frame /\ y.st = w.st
        /\ y.pending = w.pending /\ y.budget = w.budget
    BY <1>5, <2>1 DEF Machines
  <2>. QED BY <1>6, <1>15, <2>1, <2>2, <2>3 DEF Executed, Continued, i
<1>16. CASE i.op = "spwrite"
  <2>1. y = ExecSpWrite(w, i)
    BY <1>3, <1>16
  <2>2. /\ Executed(w, y) /\ y.rep = w.rep /\ y.onrep = w.onrep
        /\ y.pc = w.pc /\ y.adv = w.adv /\ y.st = w.st
        /\ y.stk = write_sp(w.stk, i.arg, FALSE, FALSE)
        /\ y.frames = (IF i.arg = 0 THEN << >>
                       ELSE IF w.frames = Lost \/ Len(w.frames) < i.arg THEN Lost
                       ELSE SubSeq(w.frames, 1, i.arg))
    BY <1>2, <1>5, <1>16, <2>1, ExecSpWriteFields
  <2>. QED BY <1>6, <1>16, <2>2 DEF Executed, Continued, i
<1>17. CASE i.op = "pop"
  <2>1. y = ExecPop(w)
    BY <1>3, <1>17
  <2>2. /\ Executed(w, y) /\ y.rep = w.rep /\ y.onrep = w.onrep
        /\ y.pc = w.pc /\ y.adv = w.adv /\ y.st = w.st
        /\ y.stk = stack_pop(w.stk) /\ y.frames = ExpectPop(w)
    BY <1>5, <2>1, ExecPopFields
  <2>. QED BY <1>6, <1>7, <1>17, <2>2 DEF Executed, Continued, i
<1>. QED BY <1>2, <1>8, <1>9, <1>10, <1>11, <1>12, <1>13, <1>14, <1>15, <1>16, <1>17 DEF Ops

\* The same, of the bookkeeping alone.
OnlyRepStarts(x, y, i) ==
    IF i.op = "rep" THEN y.rep = TRUE /\ y.onrep = TRUE
    ELSE y.rep = x.rep /\ y.onrep = x.onrep

LEMMA ExecRep ==
    ASSUME NEW x \in Machines, NEW c \in Codes, NEW taken \in BOOLEAN,
           NEW y, y = Exec(x, c, taken)
    PROVE  Executed(x, y) /\ OnlyRepStarts(x, y, c[x.pc])
BY Zenon, ExecFields DEF OnlyRepStarts

\* An instruction keeps the pipeline sound: the JSR at the vector of a long
\* interrupt is the only one that moves it.
LEMMA ExecGood ==
    ASSUME NEW x, Good(x), NEW c \in Codes, NEW taken \in BOOLEAN,
           NEW y, y = Exec(x, c, taken)
    PROVE  Good(y) /\ y.adv \in 0 .. 2
<1>1. x \in Machines /\ InFlight(x) /\ x.pc \in Addrs
  BY DEF Good, Machines
<1>2. c[x.pc].len \in {1, 2}
  BY <1>1, InstructionType
<1>3. /\ Executed(x, y) /\ y.adv \in 0 .. 2
      /\ y.st = x.st \/ (x.st = "Long" /\ y.st = "Fast")
  <2>. DEFINE i == c[x.pc]
  <2>1. /\ Executed(x, y)
        /\ \/ Called(x, y, i)
           \/ Returned(x, y)
           \/ Jumped(x, y, i)
           \/ Continued(x, y, i)
    BY <1>1, ExecFields
  <2>2. i.len \in 0 .. 2 /\ 0 \in 0 .. 2
    BY <1>2
  <2>. HIDE DEF i
  <2>3. CASE Called(x, y, i)
    BY <2>1, <2>2, <2>3 DEF Called
  <2>4. CASE Returned(x, y)
    BY <2>1, <2>2, <2>4 DEF Returned
  <2>5. CASE Jumped(x, y, i)
    BY <2>1, <2>2, <2>5 DEF Jumped
  <2>6. CASE Continued(x, y, i)
    BY <2>1, <2>2, <2>6 DEF Continued
  <2>. QED BY <2>1, <2>3, <2>4, <2>5, <2>6
<1>4. /\ y \in Machines /\ y.stage = x.stage /\ y.vec = x.vec /\ y.saved = x.saved
      /\ y.owed = x.owed
      /\ y.budget # None => y.st = "Armed" \/ y.pending \cap CoreFaults # {}
  BY <1>1, <1>3 DEF Executed, InFlight
<1>5. InFlight(y)
  BY <1>1, <1>3, <1>4 DEF InFlight
<1>. QED BY <1>3, <1>4, <1>5 DEF Good

\* advance_pc: the REP bookkeeping, and the PC.
LEMMA AdvancePcFields ==
    ASSUME NEW x \in Machines, x.adv \in 0 .. 2, NEW z, z = AdvancePc(x)
    PROVE  /\ z \in Machines
           /\ z.stk = x.stk /\ z.frames = x.frames /\ z.st = x.st /\ z.stage = x.stage
           /\ z.vec = x.vec /\ z.saved = x.saved /\ z.owed = x.owed /\ z.frame = x.frame
           /\ z.pending = x.pending
           /\ z.budget = x.budget \/ x.st = "Armed"
           /\ (z.rep => ~z.onrep /\ x.rep)
           /\ \/ z.pc = mask_pc(x.pc + x.adv)
              \/ x.rep /\ ~x.onrep /\ z.pc = mask_pc(x.pc)
              \/ x.rep /\ x.onrep /\ z.pc = mask_pc(x.pc + x.adv + 1)
<1>. DEFINE w == RepStep(x)
<1>1. /\ x.rep \in BOOLEAN /\ x.onrep \in BOOLEAN /\ x.lc \in Nat /\ x.pc \in Addrs
      /\ x.budget \in {None} \cup 0 .. 8
  BY DEF Machines
<1>2. /\ w \in Machines
      /\ w.stk = x.stk /\ w.frames = x.frames /\ w.st = x.st /\ w.stage = x.stage
      /\ w.vec = x.vec /\ w.saved = x.saved /\ w.owed = x.owed /\ w.frame = x.frame
      /\ w.pending = x.pending /\ w.pc = x.pc
      /\ w.budget = x.budget \/ x.st = "Armed"
      /\ w.rep => ~w.onrep /\ x.rep
      /\ \/ w.adv = x.adv
         \/ x.rep /\ ~x.onrep /\ w.adv = 0
         \/ x.rep /\ x.onrep /\ w.adv = x.adv + 1
  <2>. DEFINE bg == Lesser(x.budget, 1)
              Truncated(y) == IF x.st = "Armed" THEN [y EXCEPT !.budget = bg] ELSE y
  <2>1. bg \in {None} \cup 0 .. 8
    BY <1>1 DEF Lesser, None
  <2>. HIDE DEF bg
  <2>2. CASE ~x.rep
    <3>1. w = x
      BY <2>2 DEF RepStep
    <3>. QED BY <2>2, <3>1
  <2>3. CASE x.rep /\ x.onrep /\ x.lc = 0
    <3>. DEFINE n == x.adv + 1
                y == [x EXCEPT !.rep = FALSE, !.onrep = FALSE, !.adv = n]
    <3>1. n \in 0 .. 3
      OBVIOUS
    <3>2. w = TruncateArmedWindow(y)
      BY <2>3 DEF RepStep
    <3>. HIDE DEF n
    <3>3. y \in Machines
      BY <3>1 DEF Machines
    <3>4. /\ y.stk = x.stk /\ y.frames = x.frames /\ y.st = x.st /\ y.stage = x.stage
          /\ y.vec = x.vec /\ y.saved = x.saved /\ y.owed = x.owed /\ y.frame = x.frame
          /\ y.pending = x.pending /\ y.pc = x.pc /\ y.budget = x.budget /\ y.rep = FALSE
          /\ y.adv = n
      BY DEF Machines
    <3>. HIDE DEF y
    <3>5. w = Truncated(y)
      BY <3>2, <3>4 DEF TruncateArmedWindow, bg
    <3>6. [y EXCEPT !.budget = bg] \in Machines
      BY <2>1, <3>3 DEF Machines
    <3>7. w \in Machines
      BY <3>3, <3>5, <3>6
    <3>8. /\ w.stk = y.stk /\ w.frames = y.frames /\ w.st = y.st /\ w.stage = y.stage
          /\ w.vec = y.vec /\ w.saved = y.saved /\ w.owed = y.owed /\ w.frame = y.frame
          /\ w.pending = y.pending /\ w.pc = y.pc /\ w.rep = y.rep /\ w.adv = y.adv
          /\ w.budget = y.budget \/ x.st = "Armed"
      BY <3>3, <3>5 DEF Machines
    <3>. QED BY <2>3, <3>4, <3>7, <3>8 DEF n
  <2>4. CASE x.rep /\ x.onrep /\ x.lc # 0
    <3>1. w = [x EXCEPT !.onrep = FALSE]
      BY <2>4 DEF RepStep
    <3>2. [x EXCEPT !.onrep = FALSE] \in Machines
      BY DEF Machines
    <3>3. /\ w.stk = x.stk /\ w.frames = x.frames /\ w.st = x.st /\ w.stage = x.stage
          /\ w.vec = x.vec /\ w.saved = x.saved /\ w.owed = x.owed /\ w.frame = x.frame
          /\ w.pending = x.pending /\ w.pc = x.pc /\ w.budget = x.budget /\ w.onrep = FALSE
          /\ w.adv = x.adv
      BY <3>1 DEF Machines
    <3>. QED BY <2>4, <3>1, <3>2, <3>3
  <2>5. CASE x.rep /\ ~x.onrep /\ x.lc > 1
    <3>. DEFINE k == x.lc - 1
    <3>1. k \in Nat
      BY <1>1, <2>5
    <3>2. w = [x EXCEPT !.lc = k, !.adv = 0]
      BY <2>5 DEF RepStep
    <3>. HIDE DEF k
    <3>3. [x EXCEPT !.lc = k, !.adv = 0] \in Machines
      BY <3>1, Numerals DEF Machines
    <3>4. /\ w.stk = x.stk /\ w.frames = x.frames /\ w.st = x.st /\ w.stage = x.stage
          /\ w.vec = x.vec /\ w.saved = x.saved /\ w.owed = x.owed /\ w.frame = x.frame
          /\ w.pending = x.pending /\ w.pc = x.pc /\ w.budget = x.budget
          /\ w.onrep = x.onrep /\ w.adv = 0
      BY <3>2 DEF Machines
    <3>. QED BY <2>5, <3>2, <3>3, <3>4
  <2>6. CASE x.rep /\ ~x.onrep /\ ~(x.lc > 1)
    <3>. DEFINE y == [x EXCEPT !.lc = 0, !.rep = FALSE]
    <3>1. w = TruncateArmedWindow(y)
      BY <2>6 DEF RepStep
    <3>2. 0 \in Nat
      OBVIOUS
    <3>3. y \in Machines
      BY <3>2 DEF Machines
    <3>4. /\ y.stk = x.stk /\ y.frames = x.frames /\ y.st = x.st /\ y.stage = x.stage
          /\ y.vec = x.vec /\ y.saved = x.saved /\ y.owed = x.owed /\ y.frame = x.frame
          /\ y.pending = x.pending /\ y.pc = x.pc /\ y.budget = x.budget /\ y.rep = FALSE
          /\ y.adv = x.adv
      BY DEF Machines
    <3>. HIDE DEF y
    <3>5. w = Truncated(y)
      BY <3>1, <3>4 DEF TruncateArmedWindow, bg
    <3>6. [y EXCEPT !.budget = bg] \in Machines
      BY <2>1, <3>3 DEF Machines
    <3>7. w \in Machines
      BY <3>3, <3>5, <3>6
    <3>8. /\ w.stk = y.stk /\ w.frames = y.frames /\ w.st = y.st /\ w.stage = y.stage
          /\ w.vec = y.vec /\ w.saved = y.saved /\ w.owed = y.owed /\ w.frame = y.frame
          /\ w.pending = y.pending /\ w.pc = y.pc /\ w.rep = y.rep /\ w.adv = y.adv
          /\ w.budget = y.budget \/ x.st = "Armed"
      BY <3>3, <3>5 DEF Machines
    <3>. QED BY <2>6, <3>4, <3>7, <3>8
  <2>. QED BY <1>1, <2>2, <2>3, <2>4, <2>5, <2>6
<1>. HIDE DEF w
<1>3. w.adv \in 0 .. 3 /\ w.pc \in Addrs
  BY <1>2 DEF Machines
<1>. DEFINE p == mask_pc(w.pc + w.adv)
<1>4. p \in Addrs
  <2>1. w.pc + w.adv \in Nat
    BY <1>3 DEF Addrs
  <2>. QED BY <2>1, MaskPc
<1>5. z = [w EXCEPT !.pc = p]
  BY DEF AdvancePc, w
<1>6. p = mask_pc(w.pc + w.adv)
  OBVIOUS
<1>. HIDE DEF p
<1>7. w \in Machines
  BY <1>2
<1>8. [w EXCEPT !.pc = p] \in Machines
  BY <1>4, <1>7 DEF Machines
<1>9. /\ z.stk = w.stk /\ z.frames = w.frames /\ z.st = w.st /\ z.stage = w.stage
      /\ z.vec = w.vec /\ z.saved = w.saved /\ z.owed = w.owed /\ z.frame = w.frame
      /\ z.pending = w.pending /\ z.rep = w.rep /\ z.onrep = w.onrep
      /\ z.budget = w.budget /\ z.pc = p
  BY <1>5, <1>7 DEF Machines
<1>10. \/ p = mask_pc(x.pc + x.adv)
       \/ x.rep /\ ~x.onrep /\ p = mask_pc(x.pc)
       \/ x.rep /\ x.onrep /\ p = mask_pc(x.pc + x.adv + 1)
  <2>1. x.pc + 0 = x.pc /\ x.pc + (x.adv + 1) = x.pc + x.adv + 1
    BY <1>1 DEF Addrs
  <2>. QED BY <1>2, <1>6, <2>1
<1>. QED BY <1>2, <1>5, <1>8, <1>9, <1>10

\* The PC advances over a sound pipeline.
LEMMA AdvancePcGood ==
    ASSUME NEW x, Good(x), x.adv \in 0 .. 2, NEW z, z = AdvancePc(x)
    PROVE  Good(z)
<1>1. x \in Machines /\ InFlight(x)
  BY DEF Good
<1>2. /\ z \in Machines /\ z.st = x.st /\ z.stage = x.stage
      /\ z.vec = x.vec /\ z.saved = x.saved /\ z.owed = x.owed
      /\ z.pending = x.pending /\ (z.budget = x.budget \/ x.st = "Armed")
  BY <1>1, AdvancePcFields
<1>3. InFlight(z)
  BY <1>1, <1>2 DEF InFlight
<1>. QED BY <1>2, <1>3 DEF Good

\* step_one charges an instruction to the window of an armed fault.
LEMMA ChargedGood ==
    ASSUME NEW x, Good(x), code \in Codes,
           ~(x.st = "Armed" /\ ~x.rep /\ Cost(code[x.pc]) > x.budget)
    PROVE  Good(IF x.st = "Armed" /\ ~x.rep
                THEN [x EXCEPT !.budget = x.budget - Cost(code[x.pc])] ELSE x)
<1>. DEFINE i == code[x.pc]
            charged == x.st = "Armed" /\ ~x.rep
            bg == x.budget - Cost(i)
            w == IF charged THEN [x EXCEPT !.budget = bg] ELSE x
<1>1. /\ x \in Machines /\ InFlight(x) /\ x.pc \in Addrs
      /\ x.budget \in {None} \cup 0 .. 8
  BY DEF Good, Machines
<1>2. CASE charged
  <2>1. i.len \in {1, 2}
    BY <1>1, InstructionType
  <2>2. bg \in {None} \cup 0 .. 8
    BY <1>1, <1>2, <2>1 DEF Cost, None
  <2>3. w = [x EXCEPT !.budget = bg]
    BY <1>2
  <2>. HIDE DEF bg
  <2>4. [x EXCEPT !.budget = bg] \in Machines
    BY <1>1, <2>2 DEF Machines
  <2>5. w.st = "Armed" /\ w.vec = x.vec /\ w.owed = x.owed
    BY <1>1, <1>2, <2>3 DEF Machines
  <2>. HIDE DEF w
  <2>6. InFlight(w)
    BY <1>1, <1>2, <2>5 DEF InFlight
  <2>7. Good(w)
    BY <2>3, <2>4, <2>6 DEF Good
  <2>. QED BY <2>7 DEF w, bg
<1>3. CASE ~charged
  BY <1>3
<1>. QED BY <1>2, <1>3

\* step_one.
LEMMA StepOneGood ==
    ASSUME NEW x, Good(x), code \in Codes, NEW taken \in BOOLEAN, StepOne(x, taken)
    PROVE  Good(m')
<1>. DEFINE i == code[x.pc]
            charged == x.st = "Armed" /\ ~x.rep
            bg == x.budget - Cost(i)
            w == IF charged THEN [x EXCEPT !.budget = bg] ELSE x
            y == Exec(w, code, taken)
            z == AdvancePc(y)
<1>1. /\ x \in Machines /\ InFlight(x) /\ x.pc \in Addrs
      /\ x.budget \in {None} \cup 0 .. 8
  BY DEF Good, Machines
<1>2. CASE charged /\ Cost(i) > x.budget
  <2>1. m' = DeliverArmed(x, code)
    BY <1>2 DEF StepOne
  <2>2. x.vec \in VectorAddrs /\ \A k \in x.owed : x.vec = vector_addr(k)
    BY <1>1, <1>2 DEF InFlight
  <2>. QED BY <1>1, <2>1, <2>2, DeliverArmedGood
<1>3. CASE ~(charged /\ Cost(i) > x.budget)
  <2>1. m' = ProcessPending(z, code)
    BY <1>3 DEF StepOne
  <2>2. Good(w)
    BY <1>1, <1>3, ChargedGood
  <2>. HIDE DEF w
  <2>3. Good(y) /\ y.adv \in 0 .. 2
    BY <2>2, ExecGood
  <2>. HIDE DEF y
  <2>4. Good(z)
    BY <2>3, AdvancePcGood
  <2>. HIDE DEF z
  <2>. QED BY <2>1, <2>4, ProcessPendingGood
<1>. QED BY <1>2, <1>3

\* One instruction of a compiled block: its effect on what the pipeline
\* shares with the program.
LEMMA InBlockFields ==
    ASSUME NEW x \in Machines, NEW c \in Codes, NEW taken \in BOOLEAN,
           NEW z, z = InBlock(x, c, taken)
    PROVE  LET i == c[x.pc] IN
           \/ /\ i.op = "rep" /\ z \in Machines
              /\ z.stk = x.stk /\ z.frames = x.frames /\ z.st = x.st /\ z.stage = x.stage
              /\ z.vec = x.vec /\ z.saved = x.saved /\ z.owed = x.owed /\ z.frame = x.frame
              /\ z.pending = x.pending /\ z.budget = x.budget
              /\ \/ z.rep = x.rep /\ z.pc = mask_pc(x.pc + 2)
                 \/ LegacyRep(i, c, x.pc) /\ ~z.onrep /\ z.pc = mask_pc(x.pc + 1)
           \/ \E y : /\ y = Exec(x, c, taken) /\ y \in Machines /\ z \in Machines
                     /\ i.op # "rep"
                     /\ z.stk = y.stk /\ z.frames = y.frames /\ z.st = y.st
                     /\ z.stage = y.stage /\ z.vec = y.vec /\ z.saved = y.saved
                     /\ z.owed = y.owed /\ z.frame = y.frame /\ z.pending = y.pending
                     /\ z.budget = y.budget /\ z.rep = y.rep /\ z.onrep = y.onrep
                     /\ z.pc = mask_pc(y.pc + y.adv)
<1>. DEFINE i == c[x.pc]
            p1 == mask_pc(x.pc + 1)
            p2 == mask_pc(x.pc + 2)
            lc == i.arg
<1>1. x.pc \in Addrs
  BY DEF Machines
<1>2. p1 \in Addrs /\ p2 \in Addrs /\ (i.op = "rep" => lc \in Nat)
  BY <1>1, InstructionType
<1>3. p1 = mask_pc(x.pc + 1) /\ p2 = mask_pc(x.pc + 2)
  OBVIOUS
<1>4. CASE LegacyRep(i, c, x.pc) /\ i.arg = 0
  <2>1. z = [x EXCEPT !.onrep = TRUE, !.adv = 0, !.pc = p2]
    BY <1>4 DEF InBlock
  <2>2. i.op = "rep"
    BY <1>4 DEF LegacyRep
  <2>. HIDE DEF i, p1, p2
  <2>3. [x EXCEPT !.onrep = TRUE, !.adv = 0, !.pc = p2] \in Machines
    BY <1>2, Numerals DEF Machines
  <2>4. /\ z.stk = x.stk /\ z.frames = x.frames /\ z.st = x.st /\ z.stage = x.stage
        /\ z.vec = x.vec /\ z.saved = x.saved /\ z.owed = x.owed /\ z.frame = x.frame
        /\ z.pending = x.pending /\ z.budget = x.budget /\ z.rep = x.rep /\ z.pc = p2
    BY <2>1 DEF Machines
  <2>. QED BY <1>3, <2>1, <2>2, <2>3, <2>4 DEF i
<1>5. CASE LegacyRep(i, c, x.pc) /\ i.arg # 0
  <2>1. z = [x EXCEPT !.rep = TRUE, !.onrep = FALSE, !.lc = lc, !.adv = 0, !.pc = p1]
    BY <1>5 DEF InBlock
  <2>2. i.op = "rep"
    BY <1>5 DEF LegacyRep
  <2>. HIDE DEF i, p1, p2, lc
  <2>3. [x EXCEPT !.rep = TRUE, !.onrep = FALSE, !.lc = lc, !.adv = 0, !.pc = p1] \in Machines
    BY <1>2, <2>2, Numerals DEF Machines
  <2>4. /\ z.stk = x.stk /\ z.frames = x.frames /\ z.st = x.st /\ z.stage = x.stage
        /\ z.vec = x.vec /\ z.saved = x.saved /\ z.owed = x.owed /\ z.frame = x.frame
        /\ z.pending = x.pending /\ z.budget = x.budget /\ z.onrep = FALSE /\ z.pc = p1
    BY <2>1 DEF Machines
  <2>. QED BY <1>3, <1>5, <2>1, <2>2, <2>3, <2>4 DEF i
<1>6. CASE ~LegacyRep(i, c, x.pc) /\ i.op = "rep"
  <2>1. z = [x EXCEPT !.adv = 1, !.pc = p2]
    BY <1>6 DEF InBlock
  <2>. HIDE DEF i, p1, p2
  <2>2. [x EXCEPT !.adv = 1, !.pc = p2] \in Machines
    BY <1>2, Numerals DEF Machines
  <2>3. /\ z.stk = x.stk /\ z.frames = x.frames /\ z.st = x.st /\ z.stage = x.stage
        /\ z.vec = x.vec /\ z.saved = x.saved /\ z.owed = x.owed /\ z.frame = x.frame
        /\ z.pending = x.pending /\ z.budget = x.budget /\ z.rep = x.rep /\ z.pc = p2
    BY <2>1 DEF Machines
  <2>. QED BY <1>3, <1>6, <2>1, <2>2, <2>3 DEF i
<1>7. CASE i.op # "rep"
  <2>. DEFINE y == Exec(x, c, taken)
              p == mask_pc(y.pc + y.adv)
  <2>1. z = [y EXCEPT !.pc = p]
    BY <1>7 DEF InBlock, LegacyRep
  <2>2. y \in Machines
    BY ExecFields DEF Executed
  <2>3. p \in Addrs
    <3>1. y.pc \in Addrs /\ y.adv \in 0 .. 3
      BY <2>2 DEF Machines
    <3>2. y.pc + y.adv \in Nat
      BY <3>1 DEF Addrs
    <3>. QED BY <3>2, MaskPc
  <2>4. p = mask_pc(y.pc + y.adv) /\ y = Exec(x, c, taken)
    OBVIOUS
  <2>. HIDE DEF y, p, i
  <2>5. [y EXCEPT !.pc = p] \in Machines
    BY <2>2, <2>3 DEF Machines
  <2>6. /\ z.stk = y.stk /\ z.frames = y.frames /\ z.st = y.st
        /\ z.stage = y.stage /\ z.vec = y.vec /\ z.saved = y.saved
        /\ z.owed = y.owed /\ z.frame = y.frame /\ z.pending = y.pending
        /\ z.budget = y.budget /\ z.rep = y.rep /\ z.onrep = y.onrep
        /\ z.pc = p
    BY <2>1, <2>2 DEF Machines
  <2>. QED BY <1>7, <2>1, <2>2, <2>4, <2>5, <2>6 DEF i
<1>. QED BY <1>4, <1>5, <1>6, <1>7

\* An instruction of a block keeps the pipeline sound.
LEMMA InBlockGood ==
    ASSUME NEW x, Good(x), NEW c \in Codes, NEW taken \in BOOLEAN,
           NEW z, z = InBlock(x, c, taken)
    PROVE  Good(z)
<1>. DEFINE y == Exec(x, c, taken)
<1>1. x \in Machines /\ InFlight(x) /\ Good(y)
  BY ExecGood DEF Good
<1>2. \E w \in {x, y} :
         /\ z \in Machines
         /\ z.st = w.st /\ z.stage = w.stage /\ z.vec = w.vec /\ z.saved = w.saved
         /\ z.owed = w.owed /\ z.pending = w.pending /\ z.budget = w.budget
  BY <1>1, InBlockFields
<1>. HIDE DEF y
<1>. QED BY <1>1, <1>2 DEF Good, InFlight

-------------------------------------------------------------------------------
(* The invariants that hold of every program.                              *)

PipelineInv == TypeOK /\ InFlight(m)

\* The machine as the host starts it.
LEMMA InitPipeline == Init => PipelineInv
<1>. SUFFICES ASSUME Init PROVE PipelineInv
  OBVIOUS
<1>1. PICK l \in 0 .. 3 : m = [Machine EXCEPT !.ipl = l]
  BY DEF Init
<1>2. 0 \in Addrs /\ 0 \in Slots /\ 0 \in 0 .. 2 * Depth - 1
  BY CodeAssumption, DepthAssumption DEF Addrs, Slots
<1>3. EmptyStack(0) \in Stacks
  BY <1>2, Numerals DEF EmptyStack, Stacks
<1>4. << >> \in Seq(Addrs \cup {None}) /\ << >> \in Seq(0 .. 3) /\ 0 \in Nat
  OBVIOUS
<1>5. Machine \in Machines
  BY <1>2, <1>3, <1>4, Numerals DEF Machine, Machines
<1>6. m \in Machines
  BY <1>1, <1>5 DEF Machines
<1>7. m.st = "None" /\ m.owed = {} /\ m.budget = None
  BY <1>1, <1>5 DEF Machine
<1>8. InFlight(m)
  BY <1>7 DEF InFlight
<1>9. 0 \in 0 .. MaxPosts
  BY CodeAssumption
<1>. QED BY <1>6, <1>8, <1>9 DEF Init, PipelineInv, TypeOK

\* The wake-up check of the run loop.
LEMMA AwakeFields ==
    ASSUME NEW x \in Machines, NEW w, w = Awake(x)
    PROVE  /\ w \in Machines
           /\ w.pc = x.pc /\ w.stk = x.stk /\ w.frames = x.frames /\ w.rep = x.rep
           /\ w.onrep = x.onrep /\ w.st = x.st /\ w.stage = x.stage /\ w.vec = x.vec
           /\ w.saved = x.saved /\ w.owed = x.owed /\ w.frame = x.frame
           /\ w.pending = x.pending /\ w.budget = x.budget
<1>1. w = x \/ w = [x EXCEPT !.power = "Normal"]
  BY DEF Awake
<1>2. [x EXCEPT !.power = "Normal"] \in Machines
  BY DEF Machines
<1>3. CASE w = x
  BY <1>3
<1>4. CASE w = [x EXCEPT !.power = "Normal"]
  <2>1. w \in Machines
    BY <1>2, <1>4
  <2>2. /\ w.pc = x.pc /\ w.stk = x.stk /\ w.frames = x.frames /\ w.rep = x.rep
        /\ w.onrep = x.onrep /\ w.st = x.st /\ w.stage = x.stage /\ w.vec = x.vec
        /\ w.saved = x.saved /\ w.owed = x.owed /\ w.frame = x.frame
        /\ w.pending = x.pending /\ w.budget = x.budget
    BY <1>4 DEF Machines
  <2>. QED BY <2>1, <2>2
<1>. QED BY <1>1, <1>3, <1>4

\* Waking up keeps the pipeline sound.
LEMMA AwakeGood == ASSUME NEW x, Good(x) PROVE Good(Awake(x))
<1>. DEFINE w == Awake(x)
<1>1. /\ x \in Machines /\ InFlight(x)
      /\ w \in Machines /\ w.st = x.st /\ w.stage = x.stage /\ w.vec = x.vec
      /\ w.saved = x.saved /\ w.owed = x.owed /\ w.pending = x.pending /\ w.budget = x.budget
  BY AwakeFields DEF Good
<1>. HIDE DEF w
<1>2. InFlight(w)
  BY <1>1 DEF InFlight
<1>. QED BY <1>1, <1>2 DEF Good, w

\* A peripheral posts.
LEMMA PostFields ==
    ASSUME m \in Machines, NEW i \in Sources, Post(i)
    PROVE  /\ m' \in Machines
           /\ m'.pc = m.pc /\ m'.stk = m.stk /\ m'.frames = m.frames /\ m'.rep = m.rep
           /\ m'.onrep = m.onrep /\ m'.st = m.st /\ m'.stage = m.stage /\ m'.vec = m.vec
           /\ m'.saved = m.saved /\ m'.owed = m.owed /\ m'.frame = m.frame
           /\ m'.pending = m.pending \cup {i} /\ m'.budget = m.budget
<1>1. m' = [m EXCEPT !.pending = @ \cup {i}]
  BY DEF Post
<1>. DEFINE pd == m.pending \cup {i}
<1>2. pd \in SUBSET Sources
  BY DEF Machines
<1>. HIDE DEF pd
<1>3. [m EXCEPT !.pending = pd] \in Machines
  BY <1>2 DEF Machines
<1>4. m' = [m EXCEPT !.pending = pd]
  BY <1>1 DEF pd
<1>5. /\ m'.pc = m.pc /\ m'.stk = m.stk /\ m'.frames = m.frames /\ m'.rep = m.rep
      /\ m'.onrep = m.onrep /\ m'.st = m.st /\ m'.stage = m.stage /\ m'.vec = m.vec
      /\ m'.saved = m.saved /\ m'.owed = m.owed /\ m'.frame = m.frame
      /\ m'.pending = pd /\ m'.budget = m.budget
  BY <1>4 DEF Machines
<1>. QED BY <1>3, <1>4, <1>5 DEF pd

\* Every step of the run loop, of the host and of the peripherals.
LEMMA NextPipeline == PipelineInv /\ [Next]_vars => PipelineInv'
<1>. SUFFICES ASSUME PipelineInv, [Next]_vars PROVE PipelineInv'
  OBVIOUS
<1>1. /\ Good(m) /\ m \in Machines /\ InFlight(m)
      /\ code \in Codes /\ inblock \in BOOLEAN /\ posts \in 0 .. MaxPosts
  BY DEF PipelineInv, TypeOK, Good
<1>2. ASSUME Good(m'), code' = code, inblock' \in BOOLEAN, posts' \in 0 .. MaxPosts
      PROVE  PipelineInv'
  BY <1>1, <1>2 DEF PipelineInv, TypeOK, Good, InFlight
<1>3. CASE RunStep
  <2>1. PICK x \in {Awake(m)}, taken \in BOOLEAN :
            StepOne(x, taken) /\ UNCHANGED <<code, inblock, posts>>
    BY <1>3 DEF RunStep
  <2>2. Good(x)
    BY <1>1, AwakeGood
  <2>3. Good(m')
    BY <1>1, <2>1, <2>2, StepOneGood
  <2>. QED BY <1>1, <1>2, <2>1, <2>3
<1>4. CASE HostStep
  <2>1. PICK taken \in BOOLEAN : StepOne(m, taken) /\ UNCHANGED <<code, inblock, posts>>
    BY <1>4 DEF HostStep
  <2>2. Good(m')
    BY <1>1, <2>1, StepOneGood
  <2>. QED BY <1>1, <1>2, <2>1, <2>2
<1>5. CASE RunBlock
  <2>1. PICK x \in {IF inblock THEN m ELSE Awake(m)}, taken \in BOOLEAN, ends \in BOOLEAN :
            /\ \E y \in {InBlock(x, code, taken)} :
                   m' = IF ends THEN ProcessPending(y, code) ELSE y
            /\ inblock' = ~ends /\ UNCHANGED <<code, posts>>
    BY <1>5 DEF RunBlock
  <2>2. Good(x)
    BY <1>1, AwakeGood
  <2>. DEFINE y == InBlock(x, code, taken)
  <2>3. m' = IF ends THEN ProcessPending(y, code) ELSE y
    BY <2>1
  <2>4. Good(y)
    BY <1>1, <2>2, InBlockGood
  <2>. HIDE DEF y
  <2>5. Good(ProcessPending(y, code))
    BY <1>1, <2>4, ProcessPendingGood
  <2>. QED BY <1>1, <1>2, <2>1, <2>3, <2>4, <2>5
<1>6. ASSUME NEW i \in Sources \ CoreFaults, Post(i) PROVE PipelineInv'
  <2>1. /\ m' \in Machines /\ m'.st = m.st /\ m'.stage = m.stage /\ m'.vec = m.vec
        /\ m'.saved = m.saved /\ m'.owed = m.owed
        /\ m'.pending = m.pending \cup {i} /\ m'.budget = m.budget
    BY <1>1, <1>6, PostFields
  <2>2. InFlight(m')
    BY <1>1, <2>1 DEF InFlight
  <2>3. posts' \in 0 .. MaxPosts /\ UNCHANGED <<code, inblock>>
    BY <1>1, <1>6, CodeAssumption DEF Post
  <2>. QED BY <1>1, <1>2, <2>1, <2>2, <2>3 DEF Good
<1>7. CASE UNCHANGED vars
  BY <1>1, <1>2, <1>7 DEF vars
<1>. QED BY <1>3, <1>4, <1>5, <1>6, <1>7 DEF Next, Run

\* The machine stays well typed, whatever the program does.
THEOREM TypeCorrect == Spec => []TypeOK
<1>1. PipelineInv => TypeOK
  BY DEF PipelineInv
<1>. QED BY <1>1, InitPipeline, NextPipeline, PTL DEF Spec

\* No dispatched interrupt is lost before its vector is fetched.
THEOREM NoDispatchLost == Spec => []DispatchNotLost
<1>1. PipelineInv => DispatchNotLost
  <2>. SUFFICES ASSUME PipelineInv, m.owed # {} PROVE DispatchNotLost
    BY DEF DispatchNotLost
  <2>1. PICK i \in Sources : m.owed = {i} /\ m.vec = vector_addr(i)
    BY DEF PipelineInv, InFlight
  <2>2. Cardinality({i}) = 1
    BY FS_Singleton
  <2>. QED BY <2>1, <2>2 DEF PipelineInv, InFlight, DispatchNotLost
<1>. QED BY <1>1, InitPipeline, NextPipeline, PTL DEF Spec

\* A recorded budget always has a core fault that owns it.
THEOREM BudgetOwned == Spec => []BudgetHasOwner
<1>1. PipelineInv => BudgetHasOwner
  BY DEF PipelineInv, InFlight, BudgetHasOwner
<1>. QED BY <1>1, InitPipeline, NextPipeline, PTL DEF Spec

-------------------------------------------------------------------------------
(* Programs with disciplined vectors.                                      *)

\* The stack holds what the program expects, and only addresses of Main.
Matches(s, f, Main) ==
    /\ \A k \in Slots : s.hi[k] \in Main
    /\ s.se => f = Lost
    /\ f # Lost => s.ptr = Len(f) /\ \A k \in 1 .. Len(f) : f[k] = s.hi[k]

\* A push keeps the stack and the expectation together, unless it faults.
LEMMA PushMatches ==
    ASSUME NEW Main, NEW s \in Stacks, NEW f \in Seq(Addrs \cup {None}), Matches(s, f, Main),
           NEW a \in Main, a \in Addrs, NEW l \in 0 .. 3, NEW g,
           g = IF PushFaults(s) THEN Lost ELSE IF s.se \/ f = Lost THEN Lost ELSE Append(f, a)
    PROVE  Matches(stack_push(s, a, l), g, Main) /\ Matches(inline_push(s, a, l), g, Main)
<1>. DEFINE idx == Up(s.ptr)
            h == [s.hi EXCEPT ![idx] = a]
            e == s.se \/ s.ptr = Depth - 1
<1>1. /\ s.ptr \in Slots /\ s.hi \in [Slots -> Addrs] /\ s.se \in BOOLEAN
      /\ idx \in Slots
  BY PointerArithmetic DEF Stacks
<1>2. \A t : t.ptr = idx /\ t.se = e /\ t.hi = h => Matches(t, g, Main)
  <2>. SUFFICES ASSUME NEW t, t.ptr = idx, t.se = e, t.hi = h PROVE Matches(t, g, Main)
    OBVIOUS
  <2>1. \A k \in Slots : t.hi[k] = IF k = idx THEN a ELSE s.hi[k]
    BY <1>1
  <2>2. \A k \in Slots : t.hi[k] \in Main
    BY <2>1 DEF Matches
  <2>3. t.se => g = Lost
    BY DEF Matches, PushFaults
  <2>4. ASSUME g # Lost
        PROVE  t.ptr = Len(g) /\ \A k \in 1 .. Len(g) : g[k] = t.hi[k]
    <3>1. ~s.se /\ s.ptr # Depth - 1 /\ f # Lost /\ g = Append(f, a)
      BY <2>4 DEF PushFaults
    <3>2. Len(f) \in Nat /\ s.ptr = Len(f) /\ \A k \in 1 .. Len(f) : f[k] = s.hi[k]
      BY <3>1, LenProperties DEF Matches
    <3>3. a \in Addrs \cup {None}
      OBVIOUS
    <3>4. /\ Len(g) = Len(f) + 1 /\ g[Len(f) + 1] = a
          /\ \A k \in 1 .. Len(f) : g[k] = f[k]
      BY <3>1, <3>3, AppendProperties
    <3>5. idx = s.ptr + 1 /\ s.ptr + 1 < Depth
      BY <1>1, <3>1, DepthAssumption DEF Up, Slots
    <3>. HIDE DEF idx
    <3>6. ASSUME NEW k \in 1 .. Len(g) PROVE g[k] = t.hi[k]
      <4>1. k \in Slots
        BY <3>2, <3>4, <3>5, DepthAssumption DEF Slots
      <4>. QED BY <2>1, <3>2, <3>4, <3>5, <4>1
    <3>. QED BY <3>2, <3>4, <3>5, <3>6
  <2>. QED BY <2>2, <2>3, <2>4 DEF Matches
<1>3. /\ stack_push(s, a, l).ptr = idx /\ stack_push(s, a, l).se = e
      /\ stack_push(s, a, l).hi = h
  BY DEF stack_push
<1>4. /\ inline_push(s, a, l).ptr = idx /\ inline_push(s, a, l).se = e
      /\ inline_push(s, a, l).hi = h
  BY DEF inline_push, Stacks
<1>. QED BY <1>2, <1>3, <1>4

\* A pop keeps them together, and returns into Main.
LEMMA PopMatches ==
    ASSUME NEW Main, NEW s \in Stacks, NEW f \in Seq(Addrs \cup {None}), Matches(s, f, Main),
           NEW g,
           g = IF PopFaults(s) \/ f = << >> THEN Lost
               ELSE IF s.se \/ f = Lost THEN Lost ELSE SubSeq(f, 1, Len(f) - 1)
    PROVE  /\ Matches(stack_pop(s), g, Main) /\ Matches(inline_pop(s), g, Main)
           /\ inline_popped(s)[1] \in Main
<1>. DEFINE idx == Down(s.ptr)
            e == s.se \/ s.ptr = 0
<1>1. s.ptr \in Slots /\ s.se \in BOOLEAN /\ idx \in Slots
  BY PointerArithmetic DEF Stacks
<1>2. \A t : t.ptr = idx /\ t.se = e /\ t.hi = s.hi => Matches(t, g, Main)
  <2>. SUFFICES ASSUME NEW t, t.ptr = idx, t.se = e, t.hi = s.hi PROVE Matches(t, g, Main)
    OBVIOUS
  <2>1. t.se => g = Lost
    BY DEF Matches, PopFaults
  <2>2. ASSUME g # Lost
        PROVE  t.ptr = Len(g) /\ \A k \in 1 .. Len(g) : g[k] = t.hi[k]
    <3>1. ~s.se /\ s.ptr # 0 /\ f # Lost /\ g = SubSeq(f, 1, Len(f) - 1)
      BY <2>2 DEF PopFaults
    <3>2. /\ Len(f) \in Nat /\ s.ptr = Len(f) /\ \A k \in 1 .. Len(f) : f[k] = s.hi[k]
          /\ \A k \in 1 .. Len(f) - 1 : f[k] \in Addrs \cup {None}
      BY <3>1, LenProperties, ElementOfSeq DEF Matches
    <3>. DEFINE n == Len(f) - 1
    <3>3. n \in Nat /\ n = s.ptr - 1
      BY <1>1, <3>1, <3>2 DEF Slots
    <3>4. Len(g) = n /\ \A k \in 1 .. n : g[k] = f[k]
      <4>1. n \in Int /\ 1 \in Int /\ \A k \in 1 .. n : f[k] \in Addrs \cup {None}
        BY <3>2
      <4>2. g = SubSeq(f, 1, n)
        BY <3>1
      <4>. HIDE DEF n
      <4>3. /\ Len(g) = IF 1 <= n THEN n - 1 + 1 ELSE 0
            /\ \A k \in 1 .. n - 1 + 1 : g[k] = f[1 + k - 1]
        BY <4>1, <4>2, SubSeqProperties
      <4>. QED BY <3>3, <4>3
    <3>5. idx = s.ptr - 1
      BY <3>1 DEF Down
    <3>. QED BY <3>2, <3>3, <3>4, <3>5
  <2>. QED BY <2>1, <2>2 DEF Matches
<1>3. stack_pop(s).ptr = idx /\ stack_pop(s).se = e /\ stack_pop(s).hi = s.hi
  BY DEF stack_pop
<1>4. inline_pop(s).ptr = idx /\ inline_pop(s).se = e /\ inline_pop(s).hi = s.hi
  BY DEF inline_pop, Stacks
<1>5. inline_popped(s)[1] \in Main
  BY <1>1 DEF inline_popped, Matches
<1>. QED BY <1>2, <1>3, <1>4, <1>5

\* A write of SP keeps them together where it only drops frames.
LEMMA WriteSpMatches ==
    ASSUME NEW Main, NEW s \in Stacks, NEW f \in Seq(Addrs \cup {None}), Matches(s, f, Main),
           NEW p \in Slots, NEW g,
           g = IF p = 0 THEN << >>
               ELSE IF f = Lost \/ Len(f) < p THEN Lost ELSE SubSeq(f, 1, p)
    PROVE  Matches(write_sp(s, p, FALSE, FALSE), g, Main)
<1>. DEFINE t == write_sp(s, p, FALSE, FALSE)
<1>1. t.ptr = p /\ t.se = FALSE /\ t.hi = s.hi
  BY DEF write_sp, Stacks
<1>. HIDE DEF t
<1>2. ASSUME g # Lost
      PROVE  t.ptr = Len(g) /\ \A k \in 1 .. Len(g) : g[k] = t.hi[k]
  <2>1. CASE p = 0
    <3>1. g = << >> /\ Len(g) = 0
      BY <2>1
    <3>. QED BY <1>1, <2>1, <3>1
  <2>2. CASE p # 0
    <3>1. f # Lost /\ ~(Len(f) < p) /\ g = SubSeq(f, 1, p)
      BY <1>2, <2>2
    <3>2. /\ Len(f) \in Nat /\ \A k \in 1 .. Len(f) : f[k] = s.hi[k]
          /\ \A k \in 1 .. Len(f) : f[k] \in Addrs \cup {None}
      BY <3>1, LenProperties, ElementOfSeq DEF Matches
    <3>3. p \in Nat /\ p <= Len(f) /\ 1 <= p
      BY <2>2, <3>1, <3>2, DepthAssumption DEF Slots
    <3>4. \A k \in 1 .. p : f[k] \in Addrs \cup {None}
      BY <3>2, <3>3
    <3>5. p \in Int /\ 1 \in Int
      BY <3>3
    <3>6. /\ Len(g) = IF 1 <= p THEN p - 1 + 1 ELSE 0
          /\ \A k \in 1 .. p - 1 + 1 : g[k] = f[1 + k - 1]
      BY <3>1, <3>4, <3>5, SubSeqProperties
    <3>. QED BY <1>1, <3>2, <3>3, <3>6
  <2>. QED BY <2>1, <2>2
<1>. QED BY <1>1, <1>2 DEF Matches, t

\* An address of memory is its own masked value.
LEMMA MaskId == ASSUME NEW a \in Addrs PROVE mask_pc(a) = a
BY CodeAssumption, Z3 DEF mask_pc, Addrs

\* The two words of a vector are not in Main; the first is straight-line code
\* or a JSR into Main, and so is the second when it is reached.
LEMMA VectorLayout ==
    ASSUME NEW c, NEW Main, Disciplined(c, Main), NEW v \in VectorAddrs
    PROVE  /\ v \in Addrs /\ v + 1 \in Addrs /\ mask_pc(v + 1) = v + 1
           /\ v \notin Main /\ v + 1 \notin Main
           /\ OneWord(c[v]) \/ Handler(c[v], Main)
           /\ OneWord(c[v]) => OneWord(c[v + 1]) \/ Handler(c[v + 1], Main)
<1>1. PICK i \in Sources : v = vector_addr(i)
  BY DEF VectorAddrs
<1>2. v \in Addrs /\ v + 1 \in Addrs
  BY <1>1, VectorInMemory
<1>3. v \in VectorWords /\ v + 1 \in VectorWords
  BY <1>1 DEF VectorWords
<1>4. v \notin Main /\ v + 1 \notin Main
  BY <1>3 DEF Disciplined
<1>5. \/ Handler(c[v], Main)
      \/ OneWord(c[v]) /\ (OneWord(c[v + 1]) \/ Handler(c[v + 1], Main))
  BY <1>1 DEF Disciplined
<1>6. OneWord(c[v]) => ~Handler(c[v], Main)
  BY DEF OneWord, Handler
<1>. QED BY <1>2, <1>4, <1>5, <1>6, MaskId

\* The machine is about to execute a word of a vector: it is Long, with the
\* frame stacked, exactly when that word is a JSR.
InVector(x, c) ==
    /\ ~x.rep /\ x.st \in {"Fast", "Long"}
    /\ \/ x.stage = 3 /\ x.pc = x.vec
       \/ x.stage = 2 /\ x.pc = x.vec + 1 /\ OneWord(c[x.vec])
    /\ (x.st = "Long") = (c[x.pc].op = "jsr")
    /\ (x.st = "Long") = x.frame

\* The inductive invariant of a disciplined program: the PC is in Main or at
\* the vector word its stage calls for, what is saved or stacked leads back
\* into Main, and the stack holds what the program expects.
Laid(x, c, Main) ==
    /\ x.pc \in Main \/ InVector(x, c)
    /\ x.st = "Long" => InVector(x, c)
    /\ x.st = "Fast" /\ x.stage = 3 => InVector(x, c)
    /\ x.st = "Fast" /\ x.stage = 2 /\ ~x.frame => InVector(x, c)
    /\ x.st = "Long" \/ (x.st = "Fast" /\ x.stage \in 1 .. 3) => x.saved \in Main
    /\ Matches(x.stk, x.frames, Main)
    /\ x.rep => ~x.onrep

\* Between advance_pc and process_pending_interrupts: the vector word has run.
PastWord(x, c) ==
    /\ ~x.rep /\ x.st = "Fast" /\ ~x.frame
    /\ \/ x.stage = 3 /\ x.pc = x.vec + 1 /\ OneWord(c[x.vec])
       \/ x.stage = 2 /\ x.pc = mask_pc(x.vec + 2)
Ran(x, c, Main) ==
    /\ x.pc \in Main \/ PastWord(x, c)
    /\ x.st = "Fast" /\ x.stage \in {2, 3} /\ ~x.frame => PastWord(x, c)
    /\ x.st = "Fast" /\ x.stage = 3 => ~x.rep
    /\ x.st = "Fast" /\ x.stage \in 1 .. 3 => x.saved \in Main
    /\ x.st # "Long"
    /\ Matches(x.stk, x.frames, Main)
    /\ x.rep => ~x.onrep

\* A machine with the same pipeline and the same program state.
LEMMA LaidSame ==
    ASSUME NEW x, NEW w, NEW c, NEW Main, Laid(x, c, Main),
           w.pc = x.pc, w.stk = x.stk, w.frames = x.frames, w.rep = x.rep,
           w.onrep = x.onrep, w.st = x.st, w.stage = x.stage, w.vec = x.vec,
           w.saved = x.saved, w.frame = x.frame
    PROVE  Laid(w, c, Main)
BY DEF Laid, InVector

\* The vector of an interrupt is fetched while the program is in Main.
LEMMA FetchedLaid ==
    ASSUME NEW x \in Machines, NEW c, NEW Main, Disciplined(c, Main), NEW v \in VectorAddrs,
           x.pc \in Main, ~x.rep, Matches(x.stk, x.frames, Main),
           NEW z, Fetched(x, v, z, c)
    PROVE  Laid(z, c, Main)
<1>1. OneWord(c[v]) \/ Handler(c[v], Main)
  BY VectorLayout
<1>2. IsLong(c[v]) = (c[v].op = "jsr")
  BY <1>1 DEF OneWord, Handler, IsLong
<1>3. InVector(z, c)
  BY <1>2 DEF Fetched, InVector, IsLong
<1>4. Matches(z.stk, z.frames, Main)
  <2>1. CASE IsLong(c[v])
    <3>. DEFINE g == IF PushFaults(x.stk) THEN Lost
                     ELSE IF x.stk.se \/ x.frames = Lost THEN Lost ELSE Append(x.frames, x.pc)
    <3>1. x.stk \in Stacks /\ x.frames \in Seq(Addrs \cup {None}) /\ x.pc \in Addrs
          /\ x.ipl \in 0 .. 3
      BY DEF Machines
    <3>2. Matches(stack_push(x.stk, x.pc, x.ipl), g, Main)
      BY <3>1, PushMatches
    <3>3. z.stk = stack_push(x.stk, x.pc, x.ipl) /\ z.frames = g
      BY <2>1 DEF Fetched, Expect
    <3>. QED BY <3>2, <3>3
  <2>2. CASE ~IsLong(c[v])
    BY <2>2 DEF Fetched
  <2>. QED BY <2>1, <2>2
<1>5. z.saved \in Main /\ ~z.rep
  BY DEF Fetched
<1>. QED BY <1>3, <1>4, <1>5 DEF Laid

\* process_pending_interrupts after an instruction of a disciplined program.
LEMMA ProcessedLaid ==
    ASSUME NEW x, Good(x), NEW c \in Codes, NEW Main, Disciplined(c, Main), Ran(x, c, Main),
           NEW z, Processed(x, z, c)
    PROVE  Laid(z, c, Main)
<1>1. x \in Machines /\ InFlight(x) /\ x.rep \in BOOLEAN /\ x.frame \in BOOLEAN
  BY DEF Good, Machines
<1>2. CASE z = x /\ (x.rep \/ x.st \in {"None", "Long", "Armed"})
  BY <1>2 DEF Ran, PastWord, Laid
<1>3. CASE SameProgram(x, z) /\ Idle(z) /\ (x.st = "Fast" => x.stage = 0)
  <2>1. x.pc \in Main
    BY <1>3 DEF Ran, PastWord
  <2>. QED BY <1>3, <2>1 DEF Ran, Laid, SameProgram, Idle
<1>4. CASE x.st = "Fast" /\ Waited(x, z)
  <2>1. x.pc \in Main
    BY <1>4 DEF Ran, PastWord, Waited
  <2>2. z.stage \in {0, 4} /\ z.st = "Fast"
    BY <1>4 DEF Waited
  <2>. QED BY <1>4, <2>1, <2>2 DEF Ran, Laid, SameProgram, Waited
<1>5. CASE x.st = "Fast" /\ x.stage = 4 /\ ~x.rep /\ Fetched(x, x.vec, z, c)
  <2>1. x.pc \in Main /\ x.vec \in VectorAddrs
    BY <1>1, <1>5 DEF Ran, PastWord, InFlight
  <2>. QED BY <1>1, <1>5, <2>1, FetchedLaid DEF Ran
<1>6. CASE x.st = "Parked" /\ ~x.rep /\ \E v \in VectorAddrs : Fetched(x, v, z, c)
  <2>1. x.pc \in Main
    BY <1>6 DEF Ran, PastWord
  <2>. QED BY <1>1, <1>6, <2>1, FetchedLaid DEF Ran
<1>7. CASE x.st = "Fast" /\ SecondWord(x, z, c)
  <2>1. /\ x.vec \in VectorAddrs /\ x.saved \in Main /\ x.saved \in Addrs /\ ~x.rep
        /\ x.stage = 3
    BY <1>1, <1>7 DEF InFlight, Ran, SecondWord
  <2>. DEFINE v == x.vec
  <2>2. /\ mask_pc(v + 1) = v + 1 /\ v + 1 \notin Main
        /\ OneWord(c[v]) => OneWord(c[v + 1]) \/ Handler(c[v + 1], Main)
    BY <2>1, VectorLayout
  <2>3. CASE x.pc \in Main
    <3>1. x.pc # mask_pc(v + 1)
      BY <2>2, <2>3
    <3>2. x.frame
      BY <1>1, <1>7, <2>1, <2>2, <2>3 DEF Ran, PastWord
    <3>3. /\ z.stage = 2 /\ z.st = "Fast" /\ z.frame /\ z.pc = x.pc /\ z.rep = x.rep
          /\ z.onrep = x.onrep /\ z.saved = x.saved /\ z.stk = x.stk /\ z.frames = x.frames
      BY <1>7, <3>1, <3>2 DEF SecondWord
    <3>. QED BY <2>1, <2>3, <3>3 DEF Ran, Laid
  <2>4. CASE x.pc \notin Main
    <3>1. x.pc = v + 1 /\ OneWord(c[v]) /\ ~x.frame
      BY <2>1, <2>4 DEF Ran, PastWord
    <3>. DEFINE long == IsLong(c[x.pc])
    <3>2. long = (c[x.pc].op = "jsr")
      BY <2>2, <3>1 DEF OneWord, Handler, IsLong
    <3>3. /\ z.stage = 2 /\ z.st = (IF long THEN "Long" ELSE "Fast") /\ z.pc = x.pc
          /\ z.rep = x.rep /\ z.saved = x.saved /\ z.vec = v /\ z.frame = long
          /\ z.stk = (IF long THEN stack_push(x.stk, x.saved, x.ipl) ELSE x.stk)
          /\ z.frames = (IF ~long THEN x.frames ELSE IF PushFaults(x.stk) THEN Lost
                         ELSE Expect(x, Append(x.frames, x.saved)))
      BY <1>7, <2>2, <3>1 DEF SecondWord, IsLong
    <3>4. InVector(z, c)
      BY <2>1, <3>1, <3>2, <3>3 DEF InVector, IsLong
    <3>5. Matches(z.stk, z.frames, Main)
      <4>1. CASE long
        <5>. DEFINE g == IF PushFaults(x.stk) THEN Lost
                         ELSE IF x.stk.se \/ x.frames = Lost THEN Lost
                         ELSE Append(x.frames, x.saved)
        <5>1. /\ x.stk \in Stacks /\ x.frames \in Seq(Addrs \cup {None})
              /\ x.ipl \in 0 .. 3 /\ Matches(x.stk, x.frames, Main)
          BY <1>1 DEF Machines, Ran
        <5>2. Matches(stack_push(x.stk, x.saved, x.ipl), g, Main)
          BY <2>1, <5>1, PushMatches
        <5>3. z.stk = stack_push(x.stk, x.saved, x.ipl) /\ z.frames = g
          BY <3>3, <4>1 DEF Expect
        <5>. QED BY <5>2, <5>3
      <4>2. CASE ~long
        BY <3>3, <4>2 DEF Ran
      <4>. QED BY <4>1, <4>2
    <3>. QED BY <2>1, <3>3, <3>4, <3>5 DEF Laid
  <2>. QED BY <2>3, <2>4
<1>8. CASE x.st = "Fast" /\ Resumed(x, z)
  <2>1. z.pc \in Main
    BY <1>8 DEF Ran, PastWord, Resumed
  <2>. QED BY <1>8, <2>1 DEF Ran, Laid, Resumed
<1>. QED BY <1>2, <1>3, <1>4, <1>5, <1>6, <1>7, <1>8 DEF Processed

\* A straight-line instruction leaves a stack that matches.
LEMMA ContinuedMatches ==
    ASSUME NEW x \in Machines, NEW Main, Matches(x.stk, x.frames, Main),
           NEW i, i.op = "spwrite" => i.arg \in Slots, NEW y, Continued(x, y, i)
    PROVE  Matches(y.stk, y.frames, Main)
<1>1. x.stk \in Stacks /\ x.frames \in Seq(Addrs \cup {None})
  BY DEF Machines
<1>2. CASE i.op = "pop"
  <2>1. Matches(stack_pop(x.stk), ExpectPop(x), Main)
    BY <1>1, PopMatches DEF ExpectPop, Expect
  <2>. QED BY <1>2, <2>1 DEF Continued
<1>3. CASE i.op = "spwrite"
  <2>. DEFINE g == IF i.arg = 0 THEN << >>
                   ELSE IF x.frames = Lost \/ Len(x.frames) < i.arg THEN Lost
                   ELSE SubSeq(x.frames, 1, i.arg)
  <2>1. Matches(write_sp(x.stk, i.arg, FALSE, FALSE), g, Main)
    BY <1>1, <1>3, WriteSpMatches
  <2>2. y.stk = write_sp(x.stk, i.arg, FALSE, FALSE) /\ y.frames = g
    BY <1>3 DEF Continued
  <2>. QED BY <2>1, <2>2
<1>4. CASE i.op \notin {"pop", "spwrite"}
  BY <1>4 DEF Continued
<1>. QED BY <1>2, <1>3, <1>4

\* What an instruction of a disciplined program leaves for advance_pc: a
\* stack that matches, and a PC that any outcome of REP keeps in Main.
Kept(x, y, i, Main) ==
    /\ Matches(y.stk, y.frames, Main)
    /\ y.pc \in Main /\ mask_pc(y.pc) \in Main /\ mask_pc(y.pc + y.adv) \in Main
    /\ i.op = "rep" => mask_pc(y.pc + y.adv + 1) \in Main

\* An instruction of Main.
LEMMA ExecMain ==
    ASSUME NEW x \in Machines, NEW c \in Codes, NEW Main, Disciplined(c, Main),
           x.pc \in Main, x.st # "Long", ~AtVector(x), Matches(x.stk, x.frames, Main),
           NEW taken \in BOOLEAN, NEW y, y = Exec(x, c, taken)
    PROVE  Kept(x, y, c[x.pc], Main) /\ y.st = x.st
<1>. DEFINE i == c[x.pc]
<1>1. /\ x.stk \in Stacks /\ x.frames \in Seq(Addrs \cup {None}) /\ x.pc \in Addrs
      /\ x.ipl \in 0 .. 3 /\ Main \subseteq Addrs
  BY DEF Machines, Disciplined
<1>2. /\ i.op \in Ops /\ i.len \in {1, 2} /\ (i.op = "spwrite" => i.arg \in Slots)
  BY <1>1, InstructionType
<1>3. /\ i.op \in {"jmp", "jsr", "jscc"} => i.arg \in Main
      /\ i.op \notin {"jmp", "rts", "rti"} => mask_pc(x.pc + i.len) \in Main
      /\ i.op = "rep" => mask_pc(x.pc + 2) \in Main /\ i.len = 1
  BY <1>1, InstructionType DEF Disciplined
<1>4. \A a \in Main : a \in Addrs /\ mask_pc(a) = a /\ a + 0 = a
  BY <1>1, MaskId DEF Addrs
<1>5. \/ i.op \in {"jsr", "jscc"} /\ Called(x, y, i)
      \/ i.op \in {"rts", "rti"} /\ Returned(x, y)
      \/ Jumped(x, y, i)
      \/ Continued(x, y, i)
  BY ExecFields
<1>. HIDE DEF i
<1>6. CASE i.op \in {"jsr", "jscc"} /\ Called(x, y, i)
  <2>. DEFINE ret == mask_pc(x.pc + i.len)
              g == IF PushFaults(x.stk) THEN Lost
                   ELSE IF x.stk.se \/ x.frames = Lost THEN Lost ELSE Append(x.frames, ret)
  <2>1. ret \in Main /\ ret \in Addrs /\ i.arg \in Main
    BY <1>3, <1>4, <1>6
  <2>2. /\ y.adv = 0 /\ y.pc = i.arg /\ y.st = x.st
        /\ y.stk = inline_push(x.stk, ret, x.ipl) /\ y.frames = g
    BY <1>6 DEF Called, Expect
  <2>. HIDE DEF ret
  <2>3. Matches(inline_push(x.stk, ret, x.ipl), g, Main)
    BY <1>1, <2>1, PushMatches
  <2>. HIDE DEF g
  <2>. QED BY <1>4, <1>6, <2>1, <2>2, <2>3 DEF Kept, i
<1>7. CASE i.op \in {"rts", "rti"} /\ Returned(x, y)
  <2>1. Matches(inline_pop(x.stk), ExpectPop(x), Main) /\ inline_popped(x.stk)[1] \in Main
    BY <1>1, PopMatches DEF ExpectPop, Expect
  <2>2. y.adv = 0 /\ y.pc \in Main
    BY <1>4, <1>7, <2>1 DEF Returned
  <2>. QED BY <1>4, <1>7, <2>1, <2>2 DEF Kept, Returned, i
<1>8. CASE Jumped(x, y, i)
  <2>1. y.adv = 0 /\ y.pc \in Main
    BY <1>3, <1>8 DEF Jumped
  <2>. QED BY <1>4, <1>8, <2>1 DEF Kept, Jumped, i
<1>9. CASE Continued(x, y, i)
  <2>1. Matches(y.stk, y.frames, Main)
    BY <1>2, <1>9, ContinuedMatches
  <2>2. y.adv = i.len /\ y.pc = x.pc /\ y.st = x.st /\ i.op \notin {"jmp", "rts", "rti"}
    BY <1>9 DEF Continued
  <2>3. i.op = "rep" => x.pc + i.len + 1 = x.pc + 2
    BY <1>1, <1>3 DEF Addrs
  <2>. QED BY <1>3, <1>4, <2>1, <2>2, <2>3 DEF Kept, i
<1>. QED BY <1>5, <1>6, <1>7, <1>8, <1>9 DEF i

\* execute and advance_pc, from an instruction of Main.
LEMMA MainRan ==
    ASSUME NEW x, Good(x), NEW c \in Codes, NEW Main, Disciplined(c, Main),
           Laid(x, c, Main), x.pc \in Main,
           NEW taken \in BOOLEAN, NEW y, y = Exec(x, c, taken), NEW z, z = AdvancePc(y)
    PROVE  Ran(z, c, Main) /\ (x.st = "Fast" => z.st = "Fast")
<1>. DEFINE i == c[x.pc]
<1>1. x \in Machines /\ InFlight(x) /\ x.rep \in BOOLEAN /\ x.frame \in BOOLEAN
  BY DEF Good, Machines
<1>2. ~AtVector(x) /\ ~InVector(x, c)
  <2>1. CASE x.st \notin {"Fast", "Long"}
    BY <2>1 DEF AtVector, InVector
  <2>2. CASE x.st \in {"Fast", "Long"}
    <3>1. x.vec \in VectorAddrs
      BY <1>1, <2>2 DEF InFlight
    <3>2. x.vec \notin Main /\ x.vec + 1 \notin Main /\ mask_pc(x.vec + 1) = x.vec + 1
      BY <3>1, VectorLayout
    <3>. QED BY <3>2 DEF AtVector, InVector
  <2>. QED BY <2>1, <2>2
<1>3. /\ x.st # "Long" /\ Matches(x.stk, x.frames, Main) /\ (x.rep => ~x.onrep)
      /\ x.st = "Fast" => /\ x.stage # 3 /\ (x.stage = 2 => x.frame)
                          /\ x.stage \in 1 .. 3 => x.saved \in Main
  BY <1>1, <1>2 DEF Laid
<1>4. Kept(x, y, i, Main) /\ y.st = x.st
  BY <1>1, <1>2, <1>3, ExecMain
<1>5. /\ y \in Machines /\ y.stage = x.stage /\ y.vec = x.vec /\ y.saved = x.saved
      /\ y.frame = x.frame /\ y.adv \in 0 .. 2
      /\ IF i.op = "rep" THEN y.rep = TRUE /\ y.onrep = TRUE
         ELSE y.rep = x.rep /\ y.onrep = x.onrep
  <2>1. Executed(x, y) /\ IF i.op = "rep" THEN y.rep = TRUE /\ y.onrep = TRUE
                          ELSE y.rep = x.rep /\ y.onrep = x.onrep
    <3>1. Executed(x, y) /\ OnlyRepStarts(x, y, i)
      BY Zenon, <1>1, ExecRep
    <3>. HIDE DEF i
    <3>. QED BY <3>1 DEF OnlyRepStarts
  <2>2. y.adv \in 0 .. 2
    BY ExecGood
  <2>. HIDE DEF i
  <2>. QED BY <2>1, <2>2 DEF Executed
<1>. HIDE DEF i
<1>6. /\ z.stk = y.stk /\ z.frames = y.frames /\ z.st = y.st /\ z.stage = y.stage
      /\ z.vec = y.vec /\ z.saved = y.saved /\ z.frame = y.frame
      /\ (z.rep => ~z.onrep /\ y.rep)
      /\ \/ z.pc = mask_pc(y.pc + y.adv)
         \/ y.rep /\ ~y.onrep /\ z.pc = mask_pc(y.pc)
         \/ y.rep /\ y.onrep /\ z.pc = mask_pc(y.pc + y.adv + 1)
  BY <1>5, AdvancePcFields
<1>7. y.rep /\ y.onrep => i.op = "rep"
  BY <1>3, <1>5
<1>8. z.pc \in Main
  BY <1>4, <1>6, <1>7 DEF Kept
<1>9. z.st = x.st /\ z.stage = x.stage /\ z.saved = x.saved /\ z.frame = x.frame
  BY <1>4, <1>5, <1>6
<1>10. Matches(z.stk, z.frames, Main)
  BY <1>4, <1>6 DEF Kept
<1>. QED BY <1>3, <1>6, <1>8, <1>9, <1>10 DEF Ran

\* execute and advance_pc, from a word of a vector.
LEMMA VectorRan ==
    ASSUME NEW x, Good(x), NEW c \in Codes, NEW Main, Disciplined(c, Main),
           Laid(x, c, Main), InVector(x, c),
           NEW taken \in BOOLEAN, NEW y, y = Exec(x, c, taken), NEW z, z = AdvancePc(y)
    PROVE  Ran(z, c, Main) /\ z.st = "Fast"
<1>. DEFINE i == c[x.pc]
            v == x.vec
<1>1. /\ x \in Machines /\ InFlight(x) /\ ~x.rep /\ x.frame \in BOOLEAN
      /\ x.st \in {"Fast", "Long"} /\ v \in VectorAddrs /\ x.pc \in Addrs
  BY DEF Good, Machines, InVector, InFlight
<1>2. /\ v \in Addrs /\ mask_pc(v + 1) = v + 1 /\ v + 1 \in Addrs
      /\ OneWord(c[v]) \/ Handler(c[v], Main)
      /\ OneWord(c[v]) => OneWord(c[v + 1]) \/ Handler(c[v + 1], Main)
  BY <1>1, VectorLayout
<1>3. AtVector(x) /\ (OneWord(i) \/ Handler(i, Main))
  BY <1>1, <1>2 DEF InVector, AtVector
<1>4. /\ x.saved \in Main /\ Matches(x.stk, x.frames, Main)
      /\ x.stage \in {2, 3}
      /\ (x.st = "Long") = (i.op = "jsr") /\ (x.st = "Long") = x.frame
  BY <1>1 DEF Laid, InVector
<1>5. /\ y \in Machines /\ y.stage = x.stage /\ y.vec = x.vec /\ y.saved = x.saved
      /\ y.frame = x.frame /\ y.adv \in 0 .. 2
      /\ (i.op # "rep" => y.rep = x.rep)
  <2>1. Executed(x, y) /\ IF i.op = "rep" THEN y.rep = TRUE /\ y.onrep = TRUE
                          ELSE y.rep = x.rep /\ y.onrep = x.onrep
    <3>1. Executed(x, y) /\ OnlyRepStarts(x, y, i)
      BY Zenon, <1>1, ExecRep
    <3>. HIDE DEF i
    <3>. QED BY <3>1 DEF OnlyRepStarts
  <2>2. y.adv \in 0 .. 2
    BY ExecGood
  <2>. HIDE DEF i
  <2>. QED BY <2>1, <2>2 DEF Executed
<1>6. \/ i.op \in {"jsr", "jscc"} /\ Called(x, y, i)
      \/ i.op \in {"rts", "rti"} /\ Returned(x, y)
      \/ Jumped(x, y, i)
      \/ Continued(x, y, i)
  BY <1>1, ExecFields
<1>7. i.op = "spwrite" => i.arg \in Slots
  BY <1>1, InstructionType
<1>8. \/ x.stage = 3 /\ x.pc = v
      \/ x.stage = 2 /\ x.pc = v + 1 /\ OneWord(c[v])
  BY DEF InVector
<1>. HIDE DEF i
<1>9. ~y.rep
  BY <1>1, <1>3, <1>5 DEF OneWord, Handler
<1>10. /\ z.stk = y.stk /\ z.frames = y.frames /\ z.st = y.st /\ z.stage = y.stage
       /\ z.vec = y.vec /\ z.saved = y.saved /\ z.frame = y.frame /\ ~z.rep
       /\ z.pc = mask_pc(y.pc + y.adv)
  BY <1>5, <1>9, AdvancePcFields
<1>11. CASE OneWord(i)
  <2>1. Continued(x, y, i) /\ i.len = 1 /\ i.op # "jsr"
    BY <1>6, <1>11 DEF OneWord, Jumped
  <2>2. x.st = "Fast" /\ ~x.frame
    BY <1>1, <1>4, <2>1
  <2>3. y.pc = x.pc /\ y.adv = 1 /\ y.st = "Fast"
    BY <2>1, <2>2 DEF Continued
  <2>4. Matches(y.stk, y.frames, Main)
    BY <1>1, <1>4, <1>7, <2>1, ContinuedMatches
  <2>5. z.pc = mask_pc(x.pc + 1)
    BY <1>10, <2>3
  <2>6. PastWord(z, c)
    <3>1. CASE x.stage = 3 /\ x.pc = v
      BY <1>2, <1>5, <1>10, <1>11, <2>2, <2>3, <2>5, <3>1 DEF PastWord, i
    <3>2. CASE x.stage = 2 /\ x.pc = v + 1 /\ OneWord(c[v])
      <4>1. v + 1 + 1 = v + 2
        BY <1>2 DEF Addrs
      <4>. QED BY <1>5, <1>10, <2>2, <2>3, <2>5, <3>2, <4>1 DEF PastWord
    <3>. QED BY <1>8, <3>1, <3>2
  <2>. QED BY <1>4, <1>5, <1>10, <2>3, <2>4, <2>6 DEF Ran
<1>12. CASE Handler(i, Main)
  <2>1. i.op = "jsr" /\ i.arg \in Main /\ i.arg \in Addrs
    BY <1>12 DEF Handler, Disciplined
  <2>2. Called(x, y, i)
    BY <1>6, <2>1 DEF Jumped, Continued
  <2>3. x.st = "Long" /\ x.frame
    BY <1>4, <2>1
  <2>4. y.adv = 0 /\ y.pc = i.arg /\ y.st = "Fast" /\ y.stk = x.stk /\ y.frames = x.frames
    BY <1>3, <2>2, <2>3 DEF Called
  <2>5. i.arg + 0 = i.arg /\ mask_pc(i.arg) = i.arg
    BY <2>1, MaskId DEF Addrs
  <2>6. z.pc \in Main
    BY <1>10, <2>1, <2>4, <2>5
  <2>. QED BY <1>4, <1>5, <1>10, <2>3, <2>4, <2>6 DEF Ran
<1>. QED BY <1>3, <1>11, <1>12

\* step_one keeps a disciplined program laid out, and resumes what a fast
\* interrupt interrupted.
LEMMA StepOneLaid ==
    ASSUME NEW x, Good(x), code \in Codes, NEW Main, Disciplined(code, Main),
           Laid(x, code, Main), NEW taken \in BOOLEAN, StepOne(x, taken)
    PROVE  /\ Laid(m', code, Main)
           /\ x.st = "Fast" /\ x.stage = 2 /\ m'.stage = 1 /\ ~m'.frame => m'.pc = x.saved
<1>. DEFINE i == code[x.pc]
            charged == x.st = "Armed" /\ ~x.rep
            bg == x.budget - Cost(i)
            w == IF charged THEN [x EXCEPT !.budget = bg] ELSE x
            y == Exec(w, code, taken)
            z == AdvancePc(y)
<1>1. x \in Machines /\ InFlight(x) /\ x.pc \in Addrs
  BY DEF Good, Machines
<1>2. CASE charged /\ Cost(i) > x.budget
  <2>1. m' = DeliverArmed(x, code)
    BY <1>2 DEF StepOne
  <2>2. x.vec \in VectorAddrs /\ \A k \in x.owed : x.vec = vector_addr(k)
    BY <1>1, <1>2 DEF InFlight
  <2>3. Fetched(x, x.vec, m', code)
    BY <1>1, <2>1, <2>2, DeliverArmedGood
  <2>4. x.pc \in Main /\ ~x.rep /\ Matches(x.stk, x.frames, Main)
    BY <1>2 DEF Laid, InVector
  <2>5. Laid(m', code, Main)
    BY <1>1, <2>2, <2>3, <2>4, FetchedLaid
  <2>. QED BY <1>2, <2>5
<1>3. CASE ~(charged /\ Cost(i) > x.budget)
  <2>1. m' = ProcessPending(z, code)
    BY <1>3 DEF StepOne
  <2>2. Good(w)
    BY <1>1, <1>3, ChargedGood
  <2>3. Laid(w, code, Main) /\ w.st = x.st /\ w.stage = x.stage /\ w.saved = x.saved
    <3>1. CASE charged
      <4>1. /\ w.pc = x.pc /\ w.stk = x.stk /\ w.frames = x.frames /\ w.rep = x.rep
            /\ w.onrep = x.onrep /\ w.st = x.st /\ w.stage = x.stage /\ w.vec = x.vec
            /\ w.saved = x.saved /\ w.frame = x.frame
        BY <1>1, <3>1 DEF Machines
      <4>. HIDE DEF w
      <4>. QED BY <4>1, LaidSame
    <3>2. CASE ~charged
      BY <3>2
    <3>. QED BY <3>1, <3>2
  <2>. HIDE DEF w
  <2>4. Good(y) /\ y.adv \in 0 .. 2 /\ y.stage = w.stage /\ y.saved = w.saved
    <3>1. w \in Machines
      BY <2>2 DEF Good
    <3>2. Executed(w, y)
      BY Zenon, <3>1, ExecRep
    <3>3. Good(y) /\ y.adv \in 0 .. 2
      BY <2>2, ExecGood
    <3>. QED BY <3>2, <3>3 DEF Executed
  <2>5. Ran(z, code, Main) /\ (w.st = "Fast" => z.st = "Fast")
    <3>1. CASE w.pc \in Main
      BY <2>2, <2>3, <3>1, MainRan
    <3>2. CASE InVector(w, code)
      BY <2>2, <2>3, <3>2, VectorRan
    <3>. QED BY <2>3, <3>1, <3>2 DEF Laid
  <2>. HIDE DEF y
  <2>6. Good(z) /\ z.stage = y.stage /\ z.saved = y.saved
    <3>1. y \in Machines
      BY <2>4 DEF Good
    <3>. QED BY <2>4, <3>1, AdvancePcGood, AdvancePcFields
  <2>. HIDE DEF z
  <2>7. Processed(z, m', code)
    BY <2>1, <2>6, ProcessPendingGood
  <2>8. Laid(m', code, Main)
    BY <2>5, <2>6, <2>7, ProcessedLaid
  <2>9. ASSUME x.st = "Fast", x.stage = 2, m'.stage = 1, ~m'.frame
        PROVE  m'.pc = x.saved
    <3>1. z.st = "Fast" /\ z.stage = 2 /\ z.saved = x.saved
      BY <2>3, <2>4, <2>5, <2>6, <2>9
    <3>2. Resumed(z, m')
      BY <2>7, <2>9, <3>1 DEF Processed, Waited, Fetched, SecondWord
    <3>3. PastWord(z, code)
      BY <2>5, <2>9, <3>1, <3>2 DEF Ran, Resumed
    <3>. QED BY <3>1, <3>2, <3>3 DEF Resumed, PastWord
  <2>. QED BY <2>8, <2>9
<1>. QED BY <1>2, <1>3

\* A block runs in Main, outside any interrupt or REP.
LEMMA InBlockRan ==
    ASSUME NEW x, Good(x), NEW c \in Codes, NEW Main, Disciplined(c, Main),
           Laid(x, c, Main), x.st = "None", ~x.rep,
           NEW taken \in BOOLEAN, NEW z, z = InBlock(x, c, taken)
    PROVE  /\ Ran(z, c, Main) /\ Laid(z, c, Main) /\ z.st = "None"
           /\ z.rep => LegacyRep(c[x.pc], c, x.pc)
<1>. DEFINE i == c[x.pc]
            y == Exec(x, c, taken)
<1>1. /\ x \in Machines /\ x.pc \in Main /\ Matches(x.stk, x.frames, Main)
      /\ x.pc \in Addrs /\ ~AtVector(x)
  BY DEF Good, Laid, InVector, AtVector, Machines
<1>2. /\ i.op \notin {"jmp", "rts", "rti"} => mask_pc(x.pc + i.len) \in Main
      /\ i.op = "rep" => mask_pc(x.pc + 2) \in Main
  BY <1>1 DEF Disciplined
<1>3. i.op = "rep" => i.len = 1
  BY <1>1, InstructionType
<1>4. /\ Kept(x, y, i, Main) /\ y.st = "None"
      /\ (i.op # "rep" => y.rep = x.rep)
  <2>1. Kept(x, y, i, Main) /\ y.st = x.st
    BY <1>1, ExecMain
  <2>2. i.op # "rep" => y.rep = x.rep
    <3>1. OnlyRepStarts(x, y, i)
      BY Zenon, <1>1, ExecRep
    <3>. HIDE DEF y, i
    <3>. QED BY <3>1 DEF OnlyRepStarts
  <2>. QED BY <2>1, <2>2
<1>5. \/ /\ i.op = "rep" /\ z.stk = x.stk /\ z.frames = x.frames /\ z.st = x.st
         /\ \/ z.rep = x.rep /\ z.pc = mask_pc(x.pc + 2)
            \/ LegacyRep(i, c, x.pc) /\ ~z.onrep /\ z.pc = mask_pc(x.pc + 1)
      \/ /\ i.op # "rep" /\ z.stk = y.stk /\ z.frames = y.frames /\ z.st = y.st
         /\ z.rep = y.rep /\ z.pc = mask_pc(y.pc + y.adv)
  BY <1>1, InBlockFields
<1>. HIDE DEF y, i
<1>6. /\ z.pc \in Main /\ Matches(z.stk, z.frames, Main) /\ z.st = "None"
      /\ z.rep => LegacyRep(i, c, x.pc) /\ ~z.onrep
  BY <1>1, <1>2, <1>3, <1>4, <1>5 DEF Kept
<1>. QED BY <1>6 DEF Ran, Laid, i

\* Every program considered has a layout; MainOf names one.
DisciplinedCodes == \A c \in Codes : \E Main \in SUBSET Addrs : Disciplined(c, Main)
MainOf(c) == CHOOSE Main \in SUBSET Addrs : Disciplined(c, Main)

ProgramInv ==
    /\ PipelineInv
    /\ Laid(m, code, MainOf(code))
    /\ inblock => m.st = "None" /\ ~m.rep

\* The machine starts at address 0 with an empty stack.
LEMMA InitProgram ==
    ASSUME DisciplinedCodes
    PROVE  Init => ProgramInv
<1>. SUFFICES ASSUME Init PROVE ProgramInv
  OBVIOUS
<1>. DEFINE Main == MainOf(code)
<1>1. Disciplined(code, Main) /\ ~inblock /\ PipelineInv
  BY InitPipeline DEF DisciplinedCodes, MainOf, Init
<1>. HIDE DEF Main
<1>2. PICK l \in 0 .. 3 : m = [Machine EXCEPT !.ipl = l]
  BY DEF Init
<1>3. m.pc = 0 /\ m.stk = EmptyStack(0) /\ m.frames = << >> /\ ~m.rep /\ m.st = "None"
  BY <1>2 DEF Machine
<1>4. 0 \in Main
  BY <1>1 DEF Disciplined
<1>5. Matches(EmptyStack(0), << >>, Main)
  BY <1>4 DEF Matches, EmptyStack
<1>6. Laid(m, code, Main)
  BY <1>3, <1>4, <1>5 DEF Laid
<1>. QED BY <1>1, <1>6 DEF ProgramInv, Main

\* Every step keeps a disciplined program laid out, and stage 2 of a fast
\* interrupt resumes it.
LEMMA NextProgram ==
    ASSUME DisciplinedCodes, ProgramInv, [Next]_vars
    PROVE  /\ ProgramInv'
           /\ m.st = "Fast" /\ m.stage = 2 /\ m'.stage = 1 /\ ~m'.frame => m'.pc = m.saved
<1>. DEFINE Main == MainOf(code)
            Resumes == m.st = "Fast" /\ m.stage = 2 /\ m'.stage = 1 /\ ~m'.frame
                          => m'.pc = m.saved
<1>1. /\ Good(m) /\ m \in Machines /\ code \in Codes /\ inblock \in BOOLEAN
      /\ Disciplined(code, Main) /\ Laid(m, code, Main)
      /\ inblock => m.st = "None" /\ ~m.rep
  BY DEF ProgramInv, PipelineInv, TypeOK, Good, DisciplinedCodes, MainOf
<1>2. PipelineInv'
  BY NextPipeline DEF ProgramInv
<1>3. ASSUME code' = code, Laid(m', code, Main), inblock' => m'.st = "None" /\ ~m'.rep
      PROVE  ProgramInv'
  BY <1>2, <1>3 DEF ProgramInv, MainOf, Laid, InVector
<1>. HIDE DEF Main
<1>4. CASE RunStep
  <2>. DEFINE x == Awake(m)
  <2>1. PICK taken \in BOOLEAN :
            StepOne(x, taken) /\ ~inblock /\ UNCHANGED <<code, inblock, posts>>
    BY <1>4 DEF RunStep
  <2>2. /\ x.pc = m.pc /\ x.stk = m.stk /\ x.frames = m.frames /\ x.rep = m.rep
        /\ x.onrep = m.onrep /\ x.st = m.st /\ x.stage = m.stage /\ x.vec = m.vec
        /\ x.saved = m.saved /\ x.frame = m.frame
    BY <1>1, AwakeFields
  <2>3. Good(x)
    BY <1>1, AwakeGood
  <2>. HIDE DEF x
  <2>4. Laid(x, code, Main)
    BY <1>1, <2>2, LaidSame
  <2>5. /\ Laid(m', code, Main)
        /\ x.st = "Fast" /\ x.stage = 2 /\ m'.stage = 1 /\ ~m'.frame => m'.pc = x.saved
    BY <1>1, <2>1, <2>3, <2>4, StepOneLaid
  <2>. QED BY <1>3, <2>1, <2>2, <2>5
<1>5. CASE HostStep
  <2>1. PICK taken \in BOOLEAN :
            StepOne(m, taken) /\ ~inblock /\ UNCHANGED <<code, inblock, posts>>
    BY <1>5 DEF HostStep
  <2>2. Laid(m', code, Main) /\ Resumes
    BY <1>1, <2>1, StepOneLaid
  <2>. QED BY <1>3, <2>1, <2>2
<1>6. CASE RunBlock
  <2>. DEFINE x == IF inblock THEN m ELSE Awake(m)
  <2>1. PICK taken \in BOOLEAN, ends \in BOOLEAN :
            /\ inblock \/ (x.st = "None" /\ ~x.rep)
            /\ LegacyRep(code[x.pc], code, x.pc) => ends
            /\ \E y \in {InBlock(x, code, taken)} :
                   m' = IF ends THEN ProcessPending(y, code) ELSE y
            /\ inblock' = ~ends /\ UNCHANGED <<code, posts>>
    BY <1>6 DEF RunBlock
  <2>2. /\ x.pc = m.pc /\ x.stk = m.stk /\ x.frames = m.frames /\ x.rep = m.rep
        /\ x.onrep = m.onrep /\ x.st = m.st /\ x.stage = m.stage /\ x.vec = m.vec
        /\ x.saved = m.saved /\ x.frame = m.frame
    BY <1>1, AwakeFields
  <2>3. Good(x)
    BY <1>1, AwakeGood
  <2>. HIDE DEF x
  <2>4. Laid(x, code, Main) /\ x.st = "None" /\ ~x.rep
    BY <1>1, <2>1, <2>2, LaidSame
  <2>. DEFINE y == InBlock(x, code, taken)
  <2>5. m' = IF ends THEN ProcessPending(y, code) ELSE y
    BY <2>1
  <2>6. /\ Ran(y, code, Main) /\ Laid(y, code, Main) /\ y.st = "None"
        /\ y.rep => LegacyRep(code[x.pc], code, x.pc)
    BY <1>1, <2>3, <2>4, InBlockRan
  <2>7. Good(y)
    BY <1>1, <2>3, InBlockGood
  <2>. HIDE DEF y
  <2>8. CASE ends
    <3>1. Processed(y, m', code)
      BY <1>1, <2>5, <2>7, <2>8, ProcessPendingGood
    <3>2. Laid(m', code, Main)
      BY <1>1, <2>6, <2>7, <3>1, ProcessedLaid
    <3>. QED BY <1>3, <2>1, <2>2, <2>4, <2>8, <3>2
  <2>9. CASE ~ends
    BY <1>3, <2>1, <2>2, <2>4, <2>5, <2>6, <2>9
  <2>. QED BY <2>8, <2>9
<1>7. ASSUME NEW i \in Sources \ CoreFaults, Post(i) PROVE ProgramInv' /\ Resumes
  <2>1. /\ m'.pc = m.pc /\ m'.stk = m.stk /\ m'.frames = m.frames /\ m'.rep = m.rep
        /\ m'.onrep = m.onrep /\ m'.st = m.st /\ m'.stage = m.stage /\ m'.vec = m.vec
        /\ m'.saved = m.saved /\ m'.frame = m.frame
    BY <1>1, <1>7, PostFields
  <2>2. Laid(m', code, Main)
    BY <1>1, <2>1, LaidSame
  <2>3. UNCHANGED <<code, inblock>>
    BY <1>7 DEF Post
  <2>. QED BY <1>1, <1>3, <2>1, <2>2, <2>3
<1>8. CASE UNCHANGED vars
  BY <1>1, <1>3, <1>8 DEF vars
<1>. QED BY <1>4, <1>5, <1>6, <1>7, <1>8 DEF Next, Run

\* The stack holds exactly the return addresses of the calls and interrupts in
\* progress, for every disciplined program: the pipeline and the JSR at the
\* vector stack one frame between them.
THEOREM OneFrameEach ==
    ASSUME DisciplinedCodes
    PROVE  Spec => []FramesMatch
<1>1. Init => ProgramInv
  BY InitProgram
<1>2. ProgramInv /\ [Next]_vars => ProgramInv'
  BY NextProgram
<1>3. ProgramInv => FramesMatch
  <2>. SUFFICES ASSUME ProgramInv, m.frames # Lost
                PROVE  /\ m.stk.ptr = Len(m.frames)
                       /\ \A k \in 1 .. m.stk.ptr : m.stk.hi[k] = m.frames[k]
    BY DEF FramesMatch, ProgramInv, PipelineInv
  <2>. QED BY DEF ProgramInv, Laid, Matches
<1>. QED BY <1>1, <1>2, <1>3, PTL DEF Spec

\* A fast interrupt of a disciplined program resumes where it interrupted.
THEOREM FastInterruptResumes ==
    ASSUME DisciplinedCodes
    PROVE  Spec => FastResumes
<1>1. Init => ProgramInv
  BY InitProgram
<1>2. ProgramInv /\ [Next]_vars => ProgramInv'
  BY NextProgram
<1>3. ProgramInv /\ [Next]_vars =>
          [m.st = "Fast" /\ m.stage = 2 /\ m'.stage = 1 /\ ~m'.frame => m'.pc = m.saved]_vars
  BY NextProgram
<1>. QED BY <1>1, <1>2, <1>3, PTL DEF Spec, FastResumes
====
