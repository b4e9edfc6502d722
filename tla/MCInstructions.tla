---------------------------- MODULE MCInstructions ----------------------------
(***************************************************************************)
(* Four menus: every form of move, peripheral, address and bit instruction *)
(* once, in four memory maps; some of them in sequence; programs that      *)
(* save, clobber and restore an accumulator; every jump, call and return,  *)
(* starting where PC wraps.                                                *)
(***************************************************************************)
EXTENDS Instructions

Map(x, y, p) == [X |-> x, Y |-> y, P |-> p]

\* RAM alone; RAM that is no power of two, a Y window on X's array and
\* devices; devices first; nothing at all.
Plain == Map(<<Buffer(0, 8, "xr", 0)>>, <<Buffer(0, 8, "yr", 0)>>,
             <<Buffer(0, 8, "pr", 0)>>)
Mixed == Map(<<Buffer(0, 6, "xr", 0), Callback(12, 16)>>,
             <<Buffer(0, 5, "yr", 1), Buffer(8, 10, "xr", 2), Callback(12, 16)>>,
             <<Buffer(0, 7, "pr", 0), Callback(7, 9)>>)
Devices == Map(<<Callback(0, 4), Buffer(4, 8, "xr", 0), Callback(12, 16)>>,
               <<Buffer(2, 6, "yr", 2), Callback(14, 16)>>,
               <<Callback(0, 3), Buffer(3, 8, "pr", 0)>>)
Empty == Map(<<>>, <<>>, <<>>)

Regs(r0, n0, r4, n4) == [X0 |-> 6, X1 |-> 9, Y0 |-> 11, Y1 |-> 2,
                         R0 |-> r0, N0 |-> n0, R4 |-> r4, N4 |-> n4]
\* An accumulator by its words; B lies below the range of a word.
Packed(a2, a1, a0) == (a2 % 2^EXT) * 2^(2 * W) + a1 * 2^W + a0
Accs(a) == [A |-> a, B |-> Packed(-1, 2, 1)]
InRange == Packed(0, 4, 9)
Above == Packed(1, 5, 3)
Below == Packed(-2, 11, 12)
\* So far above that three bits of it look like a value in range.
FarAbove == Packed(2, 1, 0)
Sr(sm, l) == [Sr0 EXCEPT !.sm = sm, !.L = l]

-------------------------------------------------------------------------------
EaOf(mode, rn, word) == [mode |-> mode, rn |-> rn, word |-> word]
Eas == {EaOf("(R)+", "R0", 0), EaOf("(R)-N", "R4", 0), EaOf("(R+N)", "R0", 0),
        EaOf("-(R)", "R4", 0), EaOf("abs", "R0", 13)}
ImmEa == EaOf("imm", "R0", 10)
Eas2 == {EaOf("(R)+", "R0", 0), EaOf("-(R)", "R4", 0), EaOf("abs", "R0", 9)}
Alus == {"move", "add x0,a", "add y0,b", "clr a", "tfr b,a"}

Pm0 == [op : {"pm0"}, alu : {"move", "add y0,b", "clr a"}, reg : {"A", "B"},
        space : {"X", "Y"}, ea : {EaOf("(R)+", "R0", 0), EaOf("(R)-", "R4", 0)}]
Pm1 == [op : {"pm1"}, alu : {"add x0,a", "tfr b,a"}, reg : {"X0", "X1", "A"},
        w : BOOLEAN, space : {"X"}, src2 : {"A", "B"}, dst2 : {"Y0"},
        ea : {EaOf("(R)+N", "R0", 0), EaOf("(R)", "R4", 0)}]
       \union [op : {"pm1"}, alu : {"clr a"}, reg : {"Y1"}, w : {TRUE}, space : {"Y"},
               src2 : {"A", "B"}, dst2 : {"X0"}, ea : {ImmEa}]
Pm2 == [op : {"pm2"}, alu : Alus]
       \union [op : {"pm2r"}, alu : {"move", "add x0,a"}, ea : Eas2 \ {EaOf("abs", "R0", 9)}]
Pm22 == [op : {"pm22"}, alu : {"add x0,a", "tfr b,a"}, src : {"A", "X0", "A2", "N0"},
         reg : {"X0", "B", "R0", "A1"}]
Pm3 == [op : {"pm3"}, alu : {"clr a"}, reg : {"X0", "B", "R0"}, imm : {0, 3}]
Pm4 == [op : {"pm4"}, alu : {"move", "add x0,a"},
        reg : {"A10", "X", "Y", "A", "B", "AB", "BA"}, w : BOOLEAN,
        ea : {EaOf("(R)+", "R0", 0), EaOf("abs", "R0", 4)}]
       \union [op : {"pm4a"}, alu : {"add y0,b"}, reg : {"B10", "A", "X", "AB"},
               w : BOOLEAN, at : {2}]
Pm5 == [op : {"pm5"}, alu : {"add x0,a"}, reg : {"A", "X0", "R0", "B2"}, w : BOOLEAN,
        space : {"X", "Y"}, ea : Eas]
       \union [op : {"pm5"}, alu : {"add x0,a"}, reg : {"A", "Y1"}, w : {TRUE},
               space : {"X"}, ea : {ImmEa}]
       \union [op : {"pm5a"}, alu : {"clr a"}, reg : {"A", "N4", "B0"}, w : BOOLEAN,
               space : {"X", "Y"}, at : {3, 7}]
Pm8 == [op : {"pm8"}, alu : {"add x0,a", "tfr b,a"}, reg : {"X0", "A"}, w : BOOLEAN,
        reg2 : {"Y0", "B"}, w2 : BOOLEAN, ea : {EaOf("(R)+", "R0", 0)},
        ea2 : {EaOf("(R)-", "R4", 0)}]

Movep == [op : {"movepr"}, reg : {"A", "R0", "X0"}, w : BOOLEAN, space : {"X", "Y"},
          at : {QqBase, PpBase + 1}]
         \union [op : {"movepea"}, w : BOOLEAN, space : {"X", "Y"}, at : {PpBase},
                 src2 : Spaces, ea : Eas2]
         \union [op : {"movepea"}, w : {TRUE}, space : {"X"}, at : {QqBase + 1},
                 src2 : {"Y"}, ea : {ImmEa}]
Movec == [op : {"movecimm"}, reg : {"N0", "SSH"}, imm : {5}]
         \union [op : {"movecreg"}, src : {"A", "SSH", "N0"}, reg : {"N4", "B"}]
         \union [op : {"movecreg"}, src : {"X0"}, reg : {"SSH"}]
         \union [op : {"movecea"}, reg : {"N0", "SSH"}, w : BOOLEAN,
                 space : {"X", "Y"}, ea : Eas2]
         \union [op : {"movecea"}, reg : {"N4"}, w : {TRUE}, space : {"X"}, ea : {ImmEa}]
         \union [op : {"movecaa"}, reg : {"N0", "SSH"}, w : BOOLEAN,
                 space : {"X", "Y"}, at : {2, 5}]
Movem == [op : {"movemea"}, reg : {"A", "X0", "SSH"}, w : BOOLEAN, space : {"P"}, ea : Eas2]
         \union [op : {"movemaa"}, reg : {"B", "R4"}, w : BOOLEAN, space : {"P"},
                 at : {1, 7}]
Disp == [op : {"movedisp"}, reg : {"A", "X1"}, w : BOOLEAN, space : {"X", "Y"},
         src : {"R0", "R4"}, imm : {-1, 2}, long : BOOLEAN]
Vsl == [op : {"vsl"}, reg : {"A", "B"}, imm : {0, 1}, ea : Eas2]
Lua == [op : {"lua"}, reg : {"R4", "N0"}, ea : {EaOf("(R)+N", "R0", 0), EaOf("(R)-", "R4", 0)}]
       \union [op : {"luarel"}, reg : {"N4"}, src : {"R0", "R4"}, imm : {-2, 3}]
       \union [op : {"lrarn"}, reg : {"X0"}, src : {"R0"}]
       \union [op : {"lradisp"}, reg : {"B", "N0"}, imm : {4}]
Bits == [op : {"bitmem"}, space : {"X", "Y"}, at : {1, QqBase, PpBase}, bit : {0, 2},
         bop : {"Clear", "Set", "Toggle", "Test"}]
        \union [op : {"bitea"}, space : {"X", "Y"}, bit : {1},
                bop : {"Clear", "Set", "Toggle", "Test"}, ea : Eas2]
        \union [op : {"bitreg"}, reg : {"A", "X0", "B1", "SSH"}, bit : {3},
                bop : {"Clear", "Set", "Toggle", "Test"}]
Ccr == [op : {"andi", "ori"}, flags : {{"C"}, CcrBits \ {"L"}, {"L", "V"}}]

BitTests == [op : {"bittest"}, operand : {"const"}, space : {"X", "Y"},
             at : {1, PpBase}, bit : {0}, set : BOOLEAN, call : {FALSE},
             rel : {FALSE}, to : {6}]
            \union [op : {"bittest"}, operand : {"ea"}, space : {"X"}, ea : Eas2,
                    bit : {1}, set : BOOLEAN, call : {FALSE}, rel : {TRUE}, to : {-3}]
            \union [op : {"bittest"}, operand : {"reg"}, reg : {"X0", "A1", "A"},
                    bit : {0, 3}, set : BOOLEAN, call : {FALSE}, rel : {TRUE}, to : {4}]

AllMoves == Pm0 \union Pm1 \union Pm2 \union Pm22 \union Pm3 \union Pm4 \union Pm5
            \union Pm8 \union Movep \union Movec \union Movem \union Disp \union Vsl
            \union Lua \union Bits \union Ccr \union BitTests

\* Sums that overflow, moves that limit, CCR cleared and set in between.
Saving == [op : {"pm4a"}, alu : {"move"}, reg : {"A10", "A"}, w : {FALSE}, at : {0}]
          \union [op : {"pm4a"}, alu : {"add x0,a"}, reg : {"A10"}, w : {FALSE}, at : {0}]
          \union [op : {"pm4a"}, alu : {"move"}, reg : {"A10"}, w : {TRUE}, at : {0}]
          \union [op : {"pm5a"}, alu : {"move", "clr a"}, reg : {"A2"}, w : {FALSE},
                  space : {"X"}, at : {1}]
          \union [op : {"pm5a"}, alu : {"move"}, reg : {"A2"}, w : {TRUE}, space : {"X"},
                  at : {1}]
          \union [op : {"pm2"}, alu : {"add x0,a", "clr a", "tfr b,a"}]
          \union [op : {"andi"}, flags : {{}}]
          \union [op : {"ori"}, flags : {{"L"}}]

\* Every jump, branch and call, taken and not.
Conditional(c) == {f \in DOMAIN Forms : Forms[f].target # "ea" /\ Forms[f].cond = c}
Flow == [op : {"flow"}, form : Conditional(TRUE), cc : {"CC", "LT"}, at : {9}]
        \union [op : {"flow"}, form : Conditional(FALSE), at : {9}]
        \union [op : {"flow"}, form : {f \in DOMAIN Forms : Forms[f].target = "ea"},
                cc : {"LE"}, ea : {EaOf("(R)+", "R0", 0), EaOf("abs", "R0", 9)}]
BitCalls == [op : {"bittest"}, operand : {"const"}, space : {"X"}, at : {1, PpBase},
             bit : {0}, set : BOOLEAN, call : {TRUE}, rel : {FALSE}, to : {6}]
            \union [op : {"bittest"}, operand : {"ea"}, space : {"X"}, set : {TRUE},
                    ea : {EaOf("(R)+", "R0", 0)}, bit : {1}, call : {TRUE},
                    rel : {TRUE}, to : {-3}]
            \union [op : {"bittest"}, operand : {"reg"}, reg : {"SSH"}, bit : {0, 3},
                    set : BOOLEAN, call : BOOLEAN, rel : {TRUE}, to : {4}]
Calling == Flow \union BitCalls
           \union [op : {"rts", "rti"}]
           \union [op : {"movecreg"}, src : {"SSH"}, reg : {"R0"}]
           \union [op : {"movecreg"}, src : {"R0"}, reg : {"SSH"}]
           \union [op : {"movecea"}, reg : {"SSH"}, w : BOOLEAN, space : {"X"},
                   ea : {EaOf("(R)+", "R0", 0)}]
           \union [op : {"bitreg"}, reg : {"SSH"}, bit : {0}, bop : {"Toggle", "Test"}]
           \union [op : {"ori"}, flags : {{"C", "N"}, {"L"}}]

\* Device accesses, P stores and address updates that follow each other.
Some == [op : {"pm0"}, alu : {"clr a"}, reg : {"A"}, space : {"X"},
         ea : {EaOf("(R)+", "R0", 0)}]
        \union [op : {"pm5"}, alu : {"add x0,a"}, reg : {"A"}, w : BOOLEAN,
                space : {"X", "Y"}, ea : Eas2]
        \union [op : {"pm4"}, alu : {"add x0,a"}, reg : {"A", "AB"}, w : BOOLEAN,
                ea : {EaOf("-(R)", "R4", 0)}]
        \union [op : {"pm8"}, alu : {"tfr b,a"}, reg : {"X0"}, w : BOOLEAN,
                reg2 : {"B"}, w2 : BOOLEAN, ea : {EaOf("(R)+", "R0", 0)},
                ea2 : {EaOf("(R)-", "R4", 0)}]
        \union [op : {"movepea"}, w : BOOLEAN, space : {"X"}, at : {PpBase},
                src2 : Spaces, ea : {EaOf("(R)+", "R0", 0)}]
        \union [op : {"movemea"}, reg : {"A", "X0"}, w : BOOLEAN, space : {"P"},
                ea : {EaOf("(R)+", "R0", 0), EaOf("abs", "R0", 8)}]
        \union [op : {"luarel"}, reg : {"R4"}, src : {"R0"}, imm : {3}]
        \union [op : {"bitea"}, space : {"X", "Y"}, bit : {1}, bop : {"Toggle", "Test"},
                ea : {EaOf("-(R)", "R4", 0)}]
        \union [op : {"andi"}, flags : {{"C"}}]

MCMenus == <<
    [ins |-> AllMoves, depth |-> 1, maps |-> {Plain, Mixed, Devices, Empty},
     regs |-> {Regs(3, 2, 13, 14), Regs(7, 9, 2, 1), Regs(15, 12, 0, 5)},
     accs |-> {Accs(InRange), Accs(Above), Accs(Below)}, srs |-> {Sr(0, 0), Sr(1, 1)},
     pcs |-> {6}],
    [ins |-> Some, depth |-> 2, maps |-> {Plain, Mixed, Devices, Empty},
     regs |-> {Regs(3, 2, 13, 14), Regs(7, 9, 2, 1)}, accs |-> {Accs(Above)},
     srs |-> {Sr(0, 0)}, pcs |-> {0}],
    [ins |-> Saving, depth |-> 5, maps |-> {Plain}, regs |-> {Regs(0, 0, 0, 0)},
     accs |-> {Accs(InRange), Accs(Below), Accs(FarAbove)},
     srs |-> {Sr(0, 0), Sr(1, 0)}, pcs |-> {0}],
    [ins |-> Calling, depth |-> 3, maps |-> {Mixed}, regs |-> {Regs(3, 2, 13, 14)},
     accs |-> {Accs(InRange)}, srs |-> {Sr(0, 0)}, pcs |-> {14}]>>

\* The maps keep program memory apart.
ASSUME MCProgramApart == ProgramApart
===============================================================================
