----------------------------- MODULE Instructions -----------------------------
(***************************************************************************)
(* The machine that executes move and control instructions, one at a time, *)
(* as a single step or as part of a block.  A menu is a set of             *)
(* instructions with a number of steps, the memory maps and the register   *)
(* contents it starts from; the guest program is any sequence from it.     *)
(*                                                                         *)
(* ins is the instruction executed last.  The rest is history, kept by     *)
(* what the instructions mean rather than by what the code does: frames is *)
(* the stack the program believes in, lim whether a value was ever         *)
(* clamped.                                                                *)
(***************************************************************************)
EXTENDS Control

CONSTANT Menus      \* sequence of [ins, depth, maps, regs, accs, srs, pcs]

VARIABLES st, ins, menu, steps, frames, lim

vars == <<st, ins, menu, steps, frames, lim>>

RegNames == {"X0", "X1", "Y0", "Y1", "R0", "N0", "R4", "N4"}
Nothing == [op |-> "none"]

\* The number of words in each of the embedder's arrays.
Sizes == [xr |-> 8, yr |-> 8, pr |-> 8]

-------------------------------------------------------------------------------
(* What a menu may hold: the operand fields an encoding has, and maps whose *)
(* windows lie within their arrays.                                         *)

DataSpaces == {"X", "Y"}
PartNames == {"A0", "A1", "A2", "B0", "B1", "B2"}
MoveRegs == RegNames \union {"A", "B"} \union PartNames
ControlRegs == MoveRegs \union {"SSH"}
Pairs == {"A10", "B10", "X", "Y", "A", "B", "AB", "BA"}
AluForms == {"move", "add x0,a", "add y0,b", "tfr b,a", "clr a"}
BitOps == {"Clear", "Set", "Toggle", "Test"}
IsEa(e) == /\ e.mode \in {"(R)-N", "(R)+N", "(R)-", "(R)+", "(R)", "(R+N)", "-(R)", "abs", "imm"}
           /\ e.rn \in {"R0", "R4"} /\ e.word \in Word

\* The operand fields, by what the form takes.
AluOperands(i) ==
    /\ i.op \in {"pm0", "pm1", "pm2", "pm2r", "pm22", "pm3", "pm4", "pm4a", "pm5", "pm5a",
                 "pm8"} /\ i.alu \in AluForms
    /\ i.op = "pm0" => i.reg \in {"A", "B"}
    /\ i.op = "pm1" => i.src2 \in {"A", "B"} /\ i.dst2 \in {"X0", "Y0"}
    /\ i.op = "pm22" => i.src \in MoveRegs
    /\ i.op = "pm3" => i.imm \in 0 .. 3
    /\ i.op \in {"pm4", "pm4a"} => i.reg \in Pairs
    /\ i.op = "pm8" => i.reg2 \in MoveRegs /\ i.w2 \in BOOLEAN /\ IsEa(i.ea2)
    /\ i.op \in {"pm1", "pm22", "pm3", "pm5", "pm5a", "pm8"} => i.reg \in MoveRegs
    /\ i.op \in {"pm0", "pm1", "pm5", "pm5a"} => i.space \in DataSpaces
    /\ i.op \in {"pm1", "pm4", "pm4a", "pm5", "pm5a", "pm8"} => i.w \in BOOLEAN
    /\ i.op \in {"pm4a", "pm5a"} => i.at \in Word
    /\ i.op \in {"pm0", "pm1", "pm2r", "pm4", "pm5", "pm8"} => IsEa(i.ea)
MoveOperands(i) ==
    /\ i.op \in {"movepr", "movepea", "movecimm", "movecreg", "movecea", "movecaa", "movemea",
                 "movemaa", "movedisp"}
    /\ i.op \in {"movepr", "movedisp"} => i.reg \in MoveRegs
    /\ i.op \in {"movecimm", "movecreg", "movecea", "movecaa", "movemea", "movemaa"} =>
          i.reg \in ControlRegs
    /\ i.op \notin {"movecimm", "movecreg"} => i.w \in BOOLEAN
    /\ i.op \in {"movepr", "movepea", "movecea", "movecaa", "movedisp"} => i.space \in DataSpaces
    /\ i.op \in {"movemea", "movemaa"} => i.space = "P"
    /\ i.op \in {"movepr", "movepea", "movecaa", "movemaa"} => i.at \in Word
    /\ i.op \in {"movepea", "movecea", "movemea"} => IsEa(i.ea)
    /\ i.op = "movepea" => i.src2 \in Spaces
    /\ i.op = "movecimm" => i.imm \in Word
    /\ i.op = "movecreg" => i.src \in ControlRegs
    /\ i.op = "movedisp" => i.src \in {"R0", "R4"} /\ i.imm \in Int /\ i.long \in BOOLEAN
OtherOperands(i) ==
    \/ i.op = "vsl" /\ i.reg \in {"A", "B"} /\ i.imm \in {0, 1} /\ IsEa(i.ea)
    \/ i.op = "lua" /\ i.reg \in RegNames /\ IsEa(i.ea)
    \/ i.op = "luarel" /\ i.reg \in RegNames /\ i.src \in {"R0", "R4"} /\ i.imm \in Int
    \/ i.op = "lrarn" /\ i.reg \in MoveRegs /\ i.src \in {"R0", "R4"}
    \/ i.op = "lradisp" /\ i.reg \in MoveRegs /\ i.imm \in Int
    \/ i.op = "bitmem" /\ i.space \in DataSpaces /\ i.at \in Word /\ i.bit \in 0 .. W - 1
         /\ i.bop \in BitOps
    \/ i.op = "bitea" /\ i.space \in DataSpaces /\ IsEa(i.ea) /\ i.bit \in 0 .. W - 1
         /\ i.bop \in BitOps
    \/ i.op = "bitreg" /\ i.reg \in ControlRegs /\ i.bit \in 0 .. W - 1 /\ i.bop \in BitOps
    \/ i.op \in {"andi", "ori"} /\ i.flags \subseteq CcrBits
FlowOperands(i) ==
    \/ i.op \in {"rts", "rti"}
    \/ /\ i.op = "flow" /\ i.form \in DOMAIN Forms
       /\ Forms[i.form].target = "abs" => i.at \in Word
       /\ Forms[i.form].target = "rel" => i.at \in Int
       /\ Forms[i.form].target = "ea" => IsEa(i.ea)
    \/ /\ i.op = "bittest" /\ i.operand \in {"const", "ea", "reg"} /\ i.bit \in 0 .. W - 1
       /\ i.set \in BOOLEAN /\ i.call \in BOOLEAN /\ i.rel \in BOOLEAN
       /\ i.to \in IF i.rel THEN Int ELSE Word
       /\ i.operand # "reg" => i.space \in DataSpaces
       /\ i.operand = "const" => i.at \in Word
       /\ i.operand = "ea" => IsEa(i.ea)
       /\ i.operand = "reg" => i.reg \in ControlRegs
Encodable(i) == AluOperands(i) \/ MoveOperands(i) \/ OtherOperands(i) \/ FlowOperands(i)

Regions == [kind : {"Buffer", "Callback"}, start : Nat, end : 0 .. 2^W,
            base : DOMAIN Sizes \union {"none"}, offset : Nat]
IsRegion(rg) ==
    /\ rg \in Regions
    /\ rg.kind = "Buffer" => /\ rg.base \in DOMAIN Sizes
                             /\ rg.end - rg.start + rg.offset <= Sizes[rg.base]
IsMap(map) ==
    \A space \in Spaces : /\ map[space] \in Seq(Regions)
                          /\ \A k \in DOMAIN map[space] : IsRegion(map[space][k])

Srs == [s1 : {0, 1}, s0 : {0, 1}, sm : {0, 1}, rm : {0, 1},
        S : {0, 1}, L : {0, 1}, E : {0, 1}, U : {0, 1}, N : {0, 1}, Z : {0, 1}, V : {0, 1},
        C : {0, 1}]

ASSUME MenusAssumption ==
    \A k \in DOMAIN Menus :
      /\ Menus[k].depth \in Nat /\ \A i \in Menus[k].ins : Encodable(i)
      /\ \A map \in Menus[k].maps : IsMap(map)
      /\ Menus[k].regs \subseteq [RegNames -> Word]
      /\ Menus[k].accs \subseteq [{"A", "B"} -> Acc]
      /\ Menus[k].srs \subseteq Srs /\ Menus[k].pcs \subseteq Word

\* Program memory has storage of its own: no data address and no other program
\* address stands for a word of it.
Apart(map) ==
    \A a \in Word, space \in Spaces, b \in Word :
      LET p == lookup(map["P"], a)
          x == lookup(map[space], b)
      IN  /\ p.kind = "Buffer" /\ x.kind = "Buffer" /\ p.base = x.base
          /\ a - p.start + p.offset = b - x.start + x.offset
          => space = "P" /\ b = a
ProgramApart == \A k \in DOMAIN Menus : \A map \in Menus[k].maps : Apart(map)

-------------------------------------------------------------------------------
\* What the embedder's arrays and the devices hold at first.  One word is
\* wider than a word of the machine.
InitBuf == [b \in DOMAIN Sizes |-> [k \in 0 .. Sizes[b] - 1 |->
              IF b = "xr" /\ k = 1 THEN 2^W + 3 ELSE (3 * k + Sizes[b] + 1) % 2^W]]
InitDev == [space \in Spaces |-> [a \in 0 .. 2^W - 1 |-> (5 * a + 2) % 2^W]]
InitMem == [buf |-> InitBuf, dev |-> InitDev, dirty |-> {}, log |-> <<>>]

Sr0 == [s1 |-> 0, s0 |-> 0, sm |-> 0, rm |-> 0,
        S |-> 0, L |-> 0, E |-> 0, U |-> 0, N |-> 0, Z |-> 0, V |-> 0, C |-> 0]
NewStack == [EmptyStack(0) EXCEPT !.lo = [k \in Slots |-> Sr0], !.ssl = Sr0]

Init ==
    /\ menu \in DOMAIN Menus
    /\ \E map \in Menus[menu].maps, r \in Menus[menu].regs, a \in Menus[menu].accs,
          f \in Menus[menu].srs, p \in Menus[menu].pcs :
         st = [pc |-> p, adv |-> 0, sr |-> f, stk |-> NewStack, reg |-> r, acc |-> a,
               map |-> map, m |-> InitMem]
    /\ ins = Nothing /\ steps = 0 /\ frames = <<>>
    /\ lim = (st.sr.L = 1)

-------------------------------------------------------------------------------
(* What an instruction means: a set of transfers between operands, all     *)
(* made at once.                                                           *)

\* The word of storage an address stands for, and what a program sees there.
Cell(map, space, addr) ==
    LET rg == lookup(map[space], addr)
    IN  CASE rg.kind = "Buffer" -> [at |-> rg.base, k |-> addr - rg.start + rg.offset]
          [] rg.kind = "Callback" -> [at |-> "dev " \o space, k |-> addr]
          [] OTHER -> [at |-> "none", k |-> addr]
IsDevice(map, space, addr) == lookup(map[space], addr).kind = "Callback"
View(s, space, addr) == read_memory(s.map, s.m, space, addr).val

HasAlu(i) == i.op \in {"pm0", "pm1", "pm2", "pm2r", "pm22", "pm3", "pm4", "pm4a",
                       "pm5", "pm5a", "pm8"}

\* The value of an accumulator, in units of A1, and its limited form.
AccValue(a) == sext56(a) \div 2^W
OutOfRange(a) == AccValue(a) < -(2^(W - 1)) \/ AccValue(a) > 2^(W - 1) - 1
Clamp(a) == CASE AccValue(a) < -(2^(W - 1)) -> 2^(W - 1)
              [] AccValue(a) > 2^(W - 1) - 1 -> 2^(W - 1) - 1
              [] OTHER -> AccValue(a) % 2^W

\* Instructions that read SSH pop it.
PopsSsh(i) == \/ i.op \in {"movecreg", "pm22"} /\ i.src = "SSH"
              \/ i.op \in {"movecea", "movecaa", "movemea", "movemaa"}
                   /\ ~ i.w /\ i.reg = "SSH"
              \/ i.op = "bitreg" /\ i.reg = "SSH" /\ i.bop = "Test"
              \/ i.op = "bittest" /\ i.operand = "reg" /\ i.reg = "SSH"
PushesSsh(i) == \/ i.op \in {"movecreg", "movecimm"} /\ i.reg = "SSH"
                \/ i.op \in {"movecea", "movecaa", "movemea", "movemaa"}
                     /\ i.w /\ i.reg = "SSH"
Calls(i) == \/ i.op = "flow" /\ Forms[i.form].call
            \/ i.op = "bittest" /\ i.call
Returns(i) == i.op \in {"rts", "rti"}

Reg(n) == [k |-> "reg", n |-> n, v |-> 0]
Mem(space, addr) == [k |-> "mem", n |-> space, v |-> addr]
Imm(v) == [k |-> "imm", n |-> "", v |-> v]

HasEa(i) == \/ i.op \in {"pm0", "pm1", "pm2r", "pm4", "pm5", "pm8", "movepea",
                         "movecea", "movemea", "vsl", "bitea"}
            \/ i.op = "flow" /\ Forms[i.form].target = "ea"
            \/ i.op = "bittest" /\ i.operand = "ea"
\* The address and the state after the address registers were updated.
Ea(i, s) == IF HasEa(i) THEN calc_ea(s, i.ea)
            ELSE IF i.op = "movedisp" THEN [addr |-> (s.reg[i.src] + i.imm) % 2^W,
                                            imm |-> FALSE, s |-> s]
            ELSE [addr |-> i.at, imm |-> FALSE, s |-> s]
Based(i, s) == LET t == IF HasEa(i) THEN Ea(i, s).s ELSE s
               IN  IF i.op = "pm8" THEN calc_ea(t, i.ea2).s ELSE t

\* A register pair as two operands; "A:1" and "A:0" are A as one long word.
PairOf(p) == CASE p = "A10" -> <<"A1", "A0">>  [] p = "B10" -> <<"B1", "B0">>
               [] p = "X" -> <<"X1", "X0">>    [] p = "Y" -> <<"Y1", "Y0">>
               [] p = "AB" -> <<"A", "B">>     [] p = "BA" -> <<"B", "A">>
               [] OTHER -> <<p \o ":1", p \o ":0">>

Toggled(i, v) == CASE i.bop = "Set" -> v + (1 - Bit(v, i.bit)) * 2^i.bit
                   [] i.bop = "Clear" -> v - Bit(v, i.bit) * 2^i.bit
                   [] OTHER -> v + (1 - 2 * Bit(v, i.bit)) * 2^i.bit

Transfers(i, s) ==
    LET e == Ea(i, s)
        from == IF e.imm THEN Imm(e.addr) ELSE Mem(i.space, e.addr)
        dual(r, w, mem) == IF w THEN <<mem, Reg(r)>> ELSE <<Reg(r), mem>>
    IN  CASE i.op = "pm0" -> {<<Reg(i.reg), Mem(i.space, e.addr)>>,
                              <<Reg(i.space \o "0"), Reg(i.reg)>>}
          [] i.op = "pm1" -> {dual(i.reg, i.w, from), <<Reg(i.src2), Reg(i.dst2)>>}
          [] i.op \in {"pm22", "movecreg"} -> {<<Reg(i.src), Reg(i.reg)>>}
          [] i.op \in {"pm4", "pm4a"} ->
               {dual(PairOf(i.reg)[1], i.w, Mem("X", e.addr)),
                dual(PairOf(i.reg)[2], i.w, Mem("Y", e.addr))}
          [] i.op \in {"pm5", "pm5a", "movecea", "movecaa", "movedisp"} ->
               {dual(i.reg, i.w, from)}
          [] i.op \in {"movemea", "movemaa"} -> {dual(i.reg, i.w, Mem("P", e.addr))}
          [] i.op = "pm8" -> {dual(i.reg, i.w, Mem("X", e.addr)),
                              dual(i.reg2, i.w2, Mem("Y", calc_ea(e.s, i.ea2).addr))}
          [] i.op = "movepr" -> {dual(i.reg, ~ i.w, Mem(i.space, i.at))}
          [] i.op = "movepea" ->
               LET far == IF e.imm /\ i.src2 # "P" THEN Imm(e.addr)
                          ELSE Mem(i.src2, e.addr)
               IN  {IF i.w THEN <<far, Mem(i.space, i.at)>>
                    ELSE <<Mem(i.space, i.at), far>>}
          [] i.op = "vsl" ->
               {<<Imm((s.acc[i.reg] \div 2^W) % 2^W), Mem("X", e.addr)>>,
                <<Imm((2 * s.acc[i.reg] + i.imm) % 2^W), Mem("Y", e.addr)>>}
          [] i.op \in {"bitmem", "bitea"} /\ i.bop # "Test" ->
               {<<Imm(Toggled(i, View(s, i.space, e.addr))), Mem(i.space, e.addr)>>}
          [] OTHER -> {}

\* The accumulator an operand is part of.
Whole(n) == CASE n \in {"A", "A0", "A1", "A2", "A:1", "A:0"} -> "A"
              [] n \in {"B", "B0", "B1", "B2", "B:1", "B:0"} -> "B"
              [] OTHER -> "no accumulator"

\* What a source holds before the instruction.  An address register is read
\* after its update.
Long(a) == LET v == sext56(a)
               top == 2^(2 * W - 1)
           IN  (CASE v < -top -> -top [] v > top - 1 -> top - 1 [] OTHER -> v) % 2^(2 * W)
Source(i, s, o) ==
    CASE o.k = "mem" -> View(s, o.n, o.v)
      [] o.k = "imm" -> o.v
      [] o.k = "reg" /\ o.n \in {"A", "B"} -> Clamp(s.acc[o.n])
      [] o.k = "reg" /\ o.n \in {"A:1", "B:1"} -> Long(s.acc[Whole(o.n)]) \div 2^W
      [] o.k = "reg" /\ o.n \in {"A:0", "B:0"} -> Long(s.acc[Whole(o.n)]) % 2^W
      [] o.k = "reg" /\ o.n = "SSH" -> frames[Len(frames)].h
      [] o.k = "reg" /\ o.n \in {"A2", "B2"} ->
           Signed(s.acc[Whole(o.n)] \div 2^(2 * W), EXT) % 2^W
      [] o.k = "reg" /\ o.n \in RegNames -> Based(i, s).reg[o.n]
      [] OTHER -> load_reg(s, o.n)

\* What each register, or part of an accumulator, named as a destination gets.
Arrivals(i, s, transfers) ==
    LET regs == {tr \in transfers : tr[2].k = "reg"}
    IN  [n \in {tr[2].n : tr \in regs} |->
           Source(i, s, (CHOOSE tr \in regs : tr[2].n = n)[1])]

NewRegs(i, s, gets) ==
    [n \in RegNames |-> IF n \in DOMAIN gets THEN gets[n] ELSE Based(i, s).reg[n]]
NewAcc(i, s, a, gets) ==
    LET Part(p, old) == IF a \o p \in DOMAIN gets THEN gets[a \o p] ELSE old
        old == IF HasAlu(i) /\ AluDest(i.alu) = a THEN AluResult(s, i.alu).val
               ELSE s.acc[a]
    IN  CASE a \in DOMAIN gets -> (sext24(gets[a]) * 2^W) % 2^N
          [] a \o ":1" \in DOMAIN gets ->
               Signed(gets[a \o ":1"] * 2^W + gets[a \o ":0"], 2 * W) % 2^N
          [] OTHER -> pack_acc(Part("2", extract_acc_hi(old)) % 2^EXT,
                               Part("1", extract_acc_mid(old)),
                               Part("0", extract_acc_lo(old)))

\* No destination is written twice, by two transfers or by one and the
\* arithmetic unit: the manual forbids it.
Written(s, transfers) == {IF tr[2].k = "reg" THEN [at |-> tr[2].n, k |-> 0]
                          ELSE Cell(s.map, tr[2].n, tr[2].v) : tr \in transfers}
Legal(i, s, transfers) ==
    /\ i.op \notin {"pm3", "movecimm", "lua", "luarel", "lrarn", "lradisp", "bitreg"}
    /\ Cardinality(Written(s, transfers)) = Cardinality(transfers)
    /\ HasAlu(i) => AluDest(i.alu) \notin {Whole(w.at) : w \in Written(s, transfers)}

\* The branch is taken.
Taken(i, s) ==
    CASE i.op = "flow" -> Forms[i.form].cond => eval_cc(i.cc, s.sr)
      [] i.op = "bittest" ->
           (Bit(CASE i.operand = "const" -> View(s, i.space, i.at)
                  [] i.operand = "ea" -> View(s, i.space, calc_ea(s, i.ea).addr)
                  [] OTHER -> IF i.reg = "SSH" THEN frames[Len(frames)].h
                              ELSE load_reg(s, i.reg), i.bit) = 1) = i.set

\* Where the program goes next.
NextPc(i, s) ==
    CASE Returns(i) -> frames[Len(frames)].h
      [] i.op = "flow" /\ Taken(i, s) ->
           CASE Forms[i.form].target = "abs" -> i.at
             [] Forms[i.form].target = "rel" -> (s.pc + i.at) % 2^W
             [] Forms[i.form].target = "rn" -> (s.pc + s.reg["R0"]) % 2^W
             [] OTHER -> calc_ea(s, i.ea).addr
      [] i.op = "bittest" /\ Taken(i, s) -> IF i.rel THEN (s.pc + i.to) % 2^W ELSE i.to
      [] OTHER -> (s.pc + instruction_length(i)) % 2^W

-------------------------------------------------------------------------------
(* History.                                                                *)

\* The guest keeps within the stack: HwStack has what happens when it does not.
StackRoom(i) ==
    /\ Calls(i) \/ PushesSsh(i) => st.stk.ptr < Depth - 1
    /\ Returns(i) \/ PopsSsh(i) \/ (i.op = "bitreg" /\ i.reg = "SSH") => st.stk.ptr > 0

\* The frames after an instruction: a call that was taken leaves the address
\* of the next instruction and the SR it found.
NextFrames(i, s, t) ==
    LET kept == IF PopsSsh(i) \/ Returns(i) THEN SubSeq(frames, 1, Len(frames) - 1)
                ELSE frames
        top == Len(frames)
    IN  CASE Calls(i) /\ Taken(i, s) ->
               Append(kept, [h |-> (s.pc + instruction_length(i)) % 2^W, l |-> s.sr])
          [] PushesSsh(i) -> Append(kept, [h |-> t.stk.ssh, l |-> t.stk.ssl])
          [] i.op = "bitreg" /\ i.reg = "SSH" /\ i.bop # "Test" ->
               [frames EXCEPT ![top].h = apply_bit_op(@, i.bit, i.bop)]
          [] OTHER -> kept

\* The accumulators an instruction reads as a word.
LimitedReads(i) ==
    LET own == CASE i.op \in {"pm1", "pm5", "pm5a", "movecea", "movecaa", "movemea",
                              "movemaa", "movedisp"} /\ ~ i.w -> {i.reg}
                 [] i.op = "movepr" /\ i.w -> {i.reg}
                 [] i.op \in {"pm22", "movecreg"} -> {i.src}
                 [] i.op \in {"pm0", "bitreg"} -> {i.reg}
                 [] i.op \in {"pm4", "pm4a"} /\ ~ i.w ->
                      IF i.reg \in {"AB", "BA"} THEN {"A", "B"} ELSE {i.reg}
                 [] i.op = "pm8" -> (IF i.w THEN {} ELSE {i.reg})
                                    \union (IF i.w2 THEN {} ELSE {i.reg2})
                 [] OTHER -> {}
        other == IF i.op = "pm1" THEN {i.src2} ELSE {}
    IN  (own \union other) \intersect {"A", "B"}

\* The sum an addition stands for does not fit.
AluOverflows(s, alu) ==
    LET sum == CASE alu = "add x0,a" -> sext56(s.acc["A"]) + sext24(s.reg["X0"]) * 2^W
                 [] alu = "add y0,b" -> sext56(s.acc["B"]) + sext24(s.reg["Y0"]) * 2^W
                 [] OTHER -> 0
        bits == IF s.sr.sm = 1 THEN 2 * W ELSE N
    IN  sum < -(2^(bits - 1)) \/ sum > 2^(bits - 1) - 1

\* Saturation mode looks at three bits of a sum (jit_saturate_sm), which is
\* enough if the accumulator was within the range it clamps to. A2 may hold
\* more, by a move or from before the mode was set: an overflow can be missed.
SaturationExact(s, alu) ==
    s.sr.sm = 1 => sext56(s.acc[AluDest(alu)]) \in -(2^(2 * W - 1)) .. 2^(2 * W - 1) - 1

\* t is the state after the instruction; where an overflow can be missed the
\* code may find it or not, and L is only claimed to be set for no other reason.
NextLim(i, s, t) ==
    CASE i.op = "rti" -> frames[Len(frames)].l.L = 1
      [] i.op = "andi" -> lim /\ "L" \in i.flags
      [] i.op = "ori" -> lim \/ "L" \in i.flags
      [] OTHER -> \/ lim
                  \/ \E a \in LimitedReads(i) : OutOfRange(s.acc[a])
                  \/ /\ HasAlu(i) /\ AluOverflows(s, i.alu)
                     /\ SaturationExact(s, i.alu) \/ t.sr.L = 1

-------------------------------------------------------------------------------
(* The instructions.                                                       *)

\* t is the state the emitted code leaves, before PC moves on.  Outside the
\* configured program memory there are only single steps.
Finish(i, t) ==
    /\ st' \in {advance_pc(t)} \union
               (IF st.pc < p_space_end(st.map) THEN {FallThrough(t, i)} ELSE {})
    /\ ins' = i
    /\ frames' = NextFrames(i, st, t)
    /\ lim' = NextLim(i, st, t)

\* The instruction starts with no device access made.
Start(i) == [st EXCEPT !.m.log = <<>>, !.adv = inst_len(i)]

Parallel(i) == HasAlu(i) /\ Finish(i, emit_parallel(Start(i), i))

MovePeripheral(i) ==
    /\ i.op \in {"movepr", "movepea"}
    /\ Finish(i, IF i.op = "movepr" THEN emit_movep_r(Start(i), i)
                 ELSE emit_movep_ea(Start(i), i))

MoveRegister(i) ==
    \/ i.op = "movecimm" /\ Finish(i, emit_movec_imm(Start(i), i))
    \/ i.op = "movecreg" /\ Finish(i, emit_movec_reg(Start(i), i))

MoveMemory(i) ==
    /\ i.op \in {"movecea", "movecaa", "movemea", "movemaa", "movedisp"}
    /\ Finish(i, emit_move(Start(i), i))

StoreShifted(i) == i.op = "vsl" /\ Finish(i, emit_vsl(Start(i), i))

LoadAddress(i) ==
    \/ i.op = "lua" /\ Finish(i, emit_lua(Start(i), i))
    \/ i.op = "luarel" /\ Finish(i, emit_lua_rel(Start(i), i))
    \/ i.op = "lrarn" /\ Finish(i, emit_lra_rn(Start(i), i))
    \/ i.op = "lradisp" /\ Finish(i, emit_lra_disp(Start(i), i))

BitOperation(i) ==
    \/ i.op \in {"bitmem", "bitea"} /\ Finish(i, emit_bit_op_mem(Start(i), i))
    \/ i.op = "bitreg" /\ Finish(i, emit_bit_op_reg(Start(i), i))

ConditionCodes(i) ==
    \/ i.op = "andi" /\ Finish(i, emit_andi(Start(i), i))
    \/ i.op = "ori" /\ Finish(i, emit_ori(Start(i), i))

Branch(i) == i.op = "flow" /\ Finish(i, emit_flow(Start(i), i))
BranchOnBit(i) == i.op = "bittest" /\ Finish(i, emit_bit_test_branch(Start(i), i))
Return(i) ==
    \/ i.op = "rts" /\ Finish(i, emit_rts(Start(i)))
    \/ i.op = "rti" /\ Finish(i, emit_rti(Start(i)))

Next ==
    /\ steps < Menus[menu].depth
    /\ steps' = steps + 1 /\ UNCHANGED menu
    /\ \E i \in Menus[menu].ins :
         /\ StackRoom(i)
         /\ \/ Parallel(i) \/ MovePeripheral(i) \/ MoveRegister(i) \/ MoveMemory(i)
            \/ StoreShifted(i) \/ LoadAddress(i) \/ BitOperation(i)
            \/ ConditionCodes(i) \/ Branch(i) \/ BranchOnBit(i) \/ Return(i)

Spec == Init /\ [][Next]_vars

-------------------------------------------------------------------------------
(* Properties.                                                             *)

\* Registers are words, accumulators N-bit values, addresses in range.
TypeOK ==
    /\ st.reg \in [RegNames -> Word] /\ st.acc \in [{"A", "B"} -> Acc]
    /\ st.pc \in Word /\ st.adv \in 0 .. 2 /\ Coherent(st.stk)
    /\ st.m.dirty \subseteq Word

Simultaneous(i, s, t, transfers) ==
    LET gets == Arrivals(i, s, transfers)
    IN  Legal(i, s, transfers) =>
          /\ t.reg = NewRegs(i, s, gets)
          /\ \A a \in {"A", "B"} : t.acc[a] = NewAcc(i, s, a, gets)

\* Every destination of a move ends with what its source held before the
\* instruction, and the arithmetic unit's destination with the result of the
\* operands before it, whatever order emit_pm_0 .. emit_pm_8 work in.
MovesAreSimultaneous ==
    [][Simultaneous(ins', st, st', Transfers(ins', st))]_vars

Stored(i, s, t, transfers) ==
    LET puts == {<<Cell(s.map, tr[2].n, tr[2].v), Source(i, s, tr[1])>> :
                   tr \in {x \in transfers : x[2].k = "mem"}}
        After(k, old, here) ==
            LET hit == {p \in here : p[1].k = k}
            IN  IF hit = {} THEN mask24(old) ELSE (CHOOSE p \in hit : TRUE)[2]
        Bank(at, old, new) ==
            LET here == {p \in puts : p[1].at = at}
            IN  IF here = {} THEN new = old
                ELSE \A k \in DOMAIN old : mask24(new[k]) = After(k, old[k], here)
    IN  Legal(i, s, transfers) =>
          /\ \A b \in DOMAIN s.m.buf : Bank(b, s.m.buf[b], t.m.buf[b])
          /\ \A space \in Spaces :
               Bank("dev " \o space, s.m.dev[space], t.m.dev[space])

\* A store reaches the word its address stands for, in every map, and no other
\* word of any space: the clamped fast path, the sink and the region walk of
\* write_mem_dyn together are one store.
StoresExact == [][Stored(ins', st, st', Transfers(ins', st))]_vars

Touched(i, s) ==
    LET e == Ea(i, s)
        mems == {tr[1] : tr \in Transfers(i, s)}
        test == CASE i.op \in {"bitmem", "bitea"} -> {Mem(i.space, e.addr)}
                  [] i.op = "bittest" /\ i.operand = "const" -> {Mem(i.space, i.at)}
                  [] i.op = "bittest" /\ i.operand = "ea" ->
                       {Mem(i.space, calc_ea(s, i.ea).addr)}
                  [] OTHER -> {}
        Dev(set) == {o \in set : o.k = "mem" /\ o.n # "P" /\ IsDevice(s.map, o.n, o.v)}
    IN  [reads |-> Dev(mems \union test), writes |-> Dev({tr[2] : tr \in Transfers(i, s)})]

\* The device registers of X and Y an instruction names as a source are read
\* once, those it names as a destination written once, reads first, and no
\* other is touched: a device may change state at every access.
DevicesOnce ==
    [][LET log == SelectSeq(st'.m.log, LAMBDA x : x[2] # "P")
           t == Touched(ins', st)
           reads == Cardinality(t.reads)
       IN  /\ Len(log) = reads + Cardinality(t.writes)
           /\ \A k \in DOMAIN log :
                IF k <= reads THEN log[k][1] = "read" /\ Mem(log[k][2], log[k][3]) \in t.reads
                ELSE log[k][1] = "write" /\ Mem(log[k][2], log[k][3]) \in t.writes]_vars

\* A program goes on at the instruction the decoder says is next, or at the
\* target of a branch that is taken, in single steps and in blocks alike.
NextInstruction == [][st'.pc = NextPc(ins', st)]_vars

\* The stack holds the frames of the calls in progress: every call form pushes
\* the address after itself and the SR it found, every read of SSH pops one
\* frame, also when the same instruction then calls.  The machine stays well
\* typed.
CallsOnStack ==
    /\ TypeOK
    /\ st.stk.ptr = Len(frames)
    /\ \A k \in DOMAIN frames : /\ st.stk.hi[k] = frames[k].h
                                 /\ st.stk.lo[k] = frames[k].l

\* L is set exactly when, since it was last cleared, some move clamped an
\* accumulator or some sum did not fit: N bits, or in saturation mode 2 * W,
\* where only a sum with an accumulator already outside may go unnoticed.
LimitSticky == (st.sr.L = 1) = lim

\* A word of program memory that changed is marked dirty, whichever
\* instruction wrote it.
ChangedIsDirty ==
    \A a \in 0 .. p_space_end(st.map) - 1 :
      View(st, "P", a) # View([st EXCEPT !.m = InitMem], "P", a) => a \in st.m.dirty
===============================================================================
