------------------------------ MODULE MCDataAlu -------------------------------
(***************************************************************************)
(* Words of 4 bits and accumulators of 2 + 4 + 4.  Instructions with one   *)
(* operand run on every accumulator value in every mode, instructions with *)
(* two on values around every boundary of both.                            *)
(***************************************************************************)
EXTENDS DataAlu

Mode(s, m, r) == ("s1" :> s \div 2) @@ ("s0" :> s % 2) @@ ("sm" :> m) @@ ("rm" :> r)
Plain == {Mode(0, 0, 0)}
BySm == {Mode(0, m, 0) : m \in {0, 1}}
ByScale == {Mode(s, 0, 0) : s \in 0 .. 2}
AllModes == {Mode(s, m, r) : s \in 0 .. 3, m \in {0, 1}, r \in {0, 1}}

\* Accumulator values next to each boundary: the ends of the range, the
\* range of A1:A0 and its half, one unit of A1, zero.
Edges == {mask56(k + j) : k \in {2^(N - 1), 2^(2 * W), 2^(2 * W - 1), 2^(2 * W - 2),
                                 -(2^(2 * W - 1)), -(2^(2 * W - 2)), -(2^(2 * W)), 2^W, 0},
                          j \in {-2, -1, 0, 1, 7}}
Words == {0, 1, 3, 7, 8, 9, 14, 15}

Base == [prog |-> <<>>, A |-> {0}, B |-> {0}, X1 |-> {0}, X0 |-> {0}, Y1 |-> {0},
         Y0 |-> {0}, C |-> {0}, V |-> {0}, modes |-> Plain]
Op(o) == [op |-> o, d |-> "A", s |-> "B"]
Times(i, n) == [j \in 1 .. n |-> i]

Unary == {[Base EXCEPT !.prog = <<Op(o)>>, !.A = Acc, !.modes = AllModes] :
            o \in {"rnd", "asl", "neg"}}
    \cup {[Base EXCEPT !.prog = <<Op(o)>>, !.A = Acc, !.modes = BySm \cup ByScale] :
            o \in {"asr", "abs", "tst", "clr"}}
    \cup {[Base EXCEPT !.prog = <<[Op(o) EXCEPT !.s = "one"]>>, !.A = Edges,
                       !.modes = BySm] : o \in {"add", "sub"}}
    \cup {[Base EXCEPT !.prog = <<Op("not")>>, !.A = Edges]}

Binary == {[Base EXCEPT !.prog = <<Op(o)>>, !.A = Edges, !.B = Edges, !.modes = BySm] :
             o \in {"add", "sub", "cmp", "addr", "subr", "addl", "subl"}}
     \cup {[Base EXCEPT !.prog = <<Op(o)>>, !.A = Edges, !.B = Edges] :
             o \in {"cmpm", "cmpu"}}
     \cup {[Base EXCEPT !.prog = <<Op(o)>>, !.A = Edges, !.B = Edges, !.V = {0, 1}] :
             o \in {"max", "maxm"}}
     \cup {[Base EXCEPT !.prog = <<[Op(o) EXCEPT !.s = "X"]>>, !.A = Edges,
                        !.X1 = Words, !.X0 = {0, 15}, !.C = {0, 1}, !.modes = BySm] :
             o \in {"adc", "sbc", "add"}}
     \cup {[Base EXCEPT !.prog = <<[Op(o) EXCEPT !.s = "X1"]>>, !.A = Edges,
                        !.X1 = Words, !.modes = BySm] :
             o \in {"add", "cmp", "cmpm", "cmpu", "tfr", "and", "or", "eor", "merge"}}
     \cup {[Base EXCEPT !.prog = <<[op |-> o, d |-> "A", s |-> "imm", n |-> 5]>>,
                        !.A = Edges] : o \in {"add", "sub", "cmp", "and"}}
     \cup {[Base EXCEPT !.prog = <<Op("cmp"), [op |-> "tcc", cc |-> c, d |-> "A",
                                               s |-> "B"]>>,
                        !.A = Edges, !.B = {0}] : c \in {"GT", "LC", "ES", "PL", "NN"}}

Mul(o, a, b, k) == [op |-> o, d |-> "A", s1 |-> a, s2 |-> b, k |-> k, n |-> 9]
MulSh(o, n, k) == [op |-> o, d |-> "A", s1 |-> "X1", k |-> k, n |-> n]
Products ==
    {[Base EXCEPT !.prog = <<Mul(o, "X1", y, k)>>, !.A = Edges, !.X1 = Words,
                  !.Y1 = IF y = "imm" THEN {0} ELSE Words, !.modes = BySm] :
        o \in {"mpy", "mac", "dmacss", "macr"}, y \in {"Y1", "imm"}, k \in BOOLEAN}
    \cup {[Base EXCEPT !.prog = <<MulSh(o, n, k)>>, !.A = Edges, !.X1 = Words,
                       !.modes = BySm] :
            o \in {"mpy", "mpyr", "mac", "macr"}, n \in {0, 1, 3, 4}, k \in BOOLEAN}
    \cup {[Base EXCEPT !.prog = <<Mul(o, "X1", "Y1", k),
                                  [Mul(o2, "X1", "Y1", k) EXCEPT !.d = "B"],
                                  Op("rnd")>>,
                       !.X1 = Word, !.Y1 = Word,
                       !.modes = {Mode(s, m, r) : s \in 0 .. 2, m \in {0, 1}, r \in {0, 1}}] :
            o \in {"mpy"}, o2 \in {"mpyr"}, k \in BOOLEAN}
    \cup {[Base EXCEPT !.prog = <<Mul("mac", "X1", "Y1", FALSE),
                                  [Mul("macr", "X1", "Y1", FALSE) EXCEPT !.d = "B"],
                                  Op("rnd")>>,
                       !.A = {a}, !.B = {a}, !.X1 = Words, !.Y1 = Words,
                       !.modes = {Mode(s, 0, 0) : s \in 0 .. 2}] : a \in Edges}
    \cup {[Base EXCEPT !.prog = <<Mul("macuu", "X1", "Y1", TRUE)>>, !.A = Edges,
                       !.X1 = Words, !.Y1 = Words],
          [Base EXCEPT !.prog = <<Mul("mpysu", "X1", "Y1", TRUE)>>, !.X1 = Words,
                       !.Y1 = Words],
          [Base EXCEPT !.prog = <<Mul("dmacuu", "X1", "Y1", TRUE)>>, !.A = Edges,
                       !.X1 = Words, !.Y1 = Words],
          [Base EXCEPT !.prog = <<Mul("mpyuu", "X0", "Y0", FALSE),
                                  Mul("dmacsu", "X1", "Y0", FALSE),
                                  Mul("macsu", "Y1", "X0", FALSE),
                                  Mul("dmacss", "X1", "Y1", FALSE)>>,
                       !.X1 = {0, 3, 7, 8, 15}, !.X0 = {0, 1, 9, 15},
                       !.Y1 = {0, 3, 7, 8, 15}, !.Y0 = {0, 1, 9, 15}]}

ShN(o, s, n) == [op |-> o, d |-> "B", a |-> "B", s |-> s, n |-> n]
Shifting ==
    {[Base EXCEPT !.prog = Append(Times(Op(p[1]), n), ShN(p[2], "imm", n)),
                  !.A = {a}, !.B = {a}] :
        p \in {<<"asl", "aslN">>, <<"asr", "asrN">>, <<"lsl", "lslN">>, <<"lsr", "lsrN">>},
        n \in 0 .. W, a \in Edges}
    \cup {[Base EXCEPT !.prog = <<ShN(o, s, n)>>, !.B = Edges, !.A = {1}, !.X1 = {n},
                       !.modes = BySm] :
            o \in {"aslN", "asrN", "lslN", "lsrN"}, s \in {"imm", "X1"}, n \in 0 .. 15}
    \cup {[Base EXCEPT !.prog = Times(Op(o), W + 1), !.A = Edges, !.C = {0, 1}] :
            o \in {"rol", "ror"}}

Iterated ==
    {[Base EXCEPT !.prog = Times([Op("div") EXCEPT !.s = "X1"], W),
                  !.A = 0 .. 2^(2 * W - 1) - 1, !.X1 = 1 .. 2^(W - 1) - 1],
     [Base EXCEPT !.prog = <<Op("tst")>> \o Times(Op("norm"), N), !.A = Acc,
                  !.modes = ByScale],
     [Base EXCEPT !.prog = <<[op |-> "clb", d |-> "B", s |-> "A"], Op("normf")>>,
                  !.A = Acc],
     [Base EXCEPT !.prog = <<[Op("normf") EXCEPT !.s = "X1"]>>, !.A = Edges,
                  !.X1 = Word, !.modes = BySm]}
    \cup {[Base EXCEPT !.prog = <<[op |-> "insert", d |-> "A", s |-> "X1", wd |-> w,
                                   off |-> o],
                                  [op |-> e, d |-> "B", a |-> "A", wd |-> w, off |-> o]>>,
                       !.A = {0, 2^N - 1, 679}, !.X1 = Word] :
            w \in 0 .. W, o \in 0 .. N - W, e \in {"extract", "extractu"}}

MCCases == Unary \cup Binary \cup Products \cup Shifting \cup Iterated
===============================================================================
