------------------------------ MODULE MCLoopBlock ------------------------------
(***************************************************************************)
(* Instances of LoopBlock.  A program is written as a sequence; the second *)
(* word of a two-word instruction is Pad, and memory behind the program    *)
(* jumps to its start.                                                     *)
(***************************************************************************)
EXTENDS LoopBlock

Ins(op, len, arg, to) == [op |-> op, len |-> len, arg |-> arg, to |-> to]
Plain == Ins("plain", 1, 0, 0)
Pad == Plain
Do(n, la) == Ins("do", 2, n, la)
Forever(la) == Ins("forever", 2, 0, la)
Rep(n) == Ins("rep", 1, n, 0)
Bcc(to) == Ins("bcc", 1, 0, to)
Jmp(to) == Ins("jmp", 1, 0, to)
Pop == Ins("pop", 1, 0, 0)
Brk == Ins("brk", 1, 0, 0)
Enddo == Ins("enddo", 1, 0, 0)
Exit == Ins("exit", 1, 0, 0)
SetLa(a) == Ins("setla", 1, 0, a)

Program(s) == [a \in Addrs |-> IF a < Len(s) THEN s[a + 1] ELSE Jmp(0)]

MCWords == 0 .. Size

\* A nest with a REP, a skip and an annulled loop, all inlined.
Nest == Program(<<Do(2, 8), Pad, Plain, Do(2, 6), Pad, Rep(2), Plain, Bcc(8), Plain,
                  Do(0, 11), Pad, Plain>>)

\* Inlined REPs in a body, of count zero and at its end, and behind it.
Reps == Program(<<Do(2, 6), Pad, Rep(0), Plain, Plain, Rep(2), Plain, Rep(1), Plain, Rep(0),
                  Plain>>)

\* A loop whose body is also run before the loop is entered, past its end.
Shared == Program(<<Jmp(4), Plain, Do(3, 5), Pad, Plain, Plain, Plain, Jmp(2)>>)

\* DO FOREVER left by BRKcc, with a skip and a peripheral write.
Endless == Program(<<Forever(7), Pad, Exit, Bcc(5), Bcc(5), Plain, Brk, Plain, Rep(0), Pop>>)

\* DO FOREVER left by ENDDO, a counted loop inside that is not inlined.
Ended == Program(<<Forever(9), Pad, Do(2, 6), Pad, Plain, Exit, Plain, Bcc(9), Jmp(10),
                   Plain, Enddo>>)

\* Two loops with one end: only the inner one ends there.
SameEnd == Program(<<Forever(5), Pad, Do(2, 5), Pad, Plain, Plain, Enddo>>)

\* More loops than the stack has room for.
Deep == Program(<<Do(2, 9), Pad, Do(2, 8), Pad, Do(2, 6), Pad, Plain, Plain, Plain, Plain>>)

\* A move from SSH repeated inside a loop.
Popped == Program(<<Do(2, 4), Pad, Rep(0), Pop, Plain, Rep(2), Pop>>)

Checked == {Nest, Reps, Shared, Endless, Ended, SameEnd, Deep, Popped}
Counted == {Nest, Reps, Shared}

\* A REP of a pop with count zero that ends at the loop address.
LegacyAtEnd == {Program(<<Do(2, 4), Pad, Plain, Rep(0), Pop>>)}
\* An inlined REP with count zero that is all of a body.
RepIsBody == {Program(<<Forever(3), Pad, Rep(0), Plain>>)}
\* The inner loop is compiled before the outer one with the same end runs.
StaleEnd == {Program(<<Jmp(4), Plain, Do(2, 6), Pad, Do(2, 6), Pad, Plain, Jmp(2)>>)}
\* The body moves its own end.
MovedEnd == {Program(<<Do(2, 6), Pad, SetLa(7), Plain, Plain, Plain, Plain, Plain>>)}
\* A loop of count zero where the stack is full.
AnnulledDeep == {Program(<<Do(1, 9), Pad, Do(1, 8), Pad, Do(0, 6), Pad, Plain, Plain, Plain,
                           Plain>>)}
\* A skip to the word behind the loop, compiled before the loop runs.
SkipEnd == {Program(<<Jmp(4), Plain, Do(2, 5), Pad, Bcc(6), Plain, Jmp(2)>>)}
\* A REP that is the last word of the body.
RepAtEnd == {Program(<<Do(2, 3), Pad, Plain, Rep(2), Plain, Plain>>)}
===============================================================================
