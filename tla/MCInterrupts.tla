----------------------------- MODULE MCInterrupts -----------------------------
(***************************************************************************)
(* Small programs for the interrupt model.  Vectors are at their real      *)
(* addresses (VBA 0): STACK_ERROR 2, ILLEGAL 4, TRAP 8; the peripherals    *)
(* use 10 (level 0), 12 (level 2) and 14 (level 1).                        *)
(***************************************************************************)
EXTENDS Interrupts, TLC

MCSources == {1, 2, 4, 5, 6, 7}
MCIpl == (1 :> 3) @@ (2 :> 3) @@ (4 :> 3) @@ (5 :> 0) @@ (6 :> 2) @@ (7 :> 1)

I1(o, a) == [op |-> o, len |-> 1, arg |-> a]
I2(o, a) == [op |-> o, len |-> 2, arg |-> a]
Plain == I1("plain", 0)

\* A program given by its words that are not plain.
Prog(f) == [a \in Addrs |-> IF a \in DOMAIN f THEN f[a] ELSE Plain]

\* Vectors: long stack error, fast ILLEGAL, TRAP long on its second word,
\* long peripherals 5 and 6 (the second with a two-word JSR), fast 7.
Vectors == (0 :> I1("jmp", 16)) @@ (2 :> I1("jsr", 34)) @@ (9 :> I1("jsr", 32))
           @@ (10 :> I1("jsr", 30)) @@ (12 :> I2("jsr", 32))
           \* handlers: 30 for peripheral 5, 32 shared, 34 recovers the stack
           @@ (31 :> I1("rti", 0)) @@ (33 :> I1("rti", 0))
           @@ (34 :> I1("spwrite", 0)) @@ (35 :> I1("jmp", 16))

\* Calls, REP and traps, and an illegal instruction in a handler.
Traps == Prog((16 :> I1("mask", 0)) @@ (17 :> I1("rep", 2)) @@ (19 :> I1("jsr", 28))
              @@ (20 :> I1("fault", 4)) @@ (21 :> I1("jmp", 16))
              @@ (29 :> I1("rts", 0)) @@ (30 :> I1("fault", 2)) @@ Vectors)

\* Calls until the stack overflows, with an illegal instruction inside the
\* shadow of the overflow.
Overflow == Prog((16 :> I1("mask", 0)) @@ (17 :> I1("jsr", 18)) @@ (18 :> I2("jsr", 20))
                 @@ (20 :> I1("jsr", 21)) @@ (22 :> I1("jscc", 23)) @@ (23 :> I1("fault", 2))
                 @@ (25 :> I1("jmp", 17)) @@ Vectors)

\* Underflow by a repeated pop, with a REP in its shadow.
Underflow == Prog((16 :> I1("mask", 0)) @@ (17 :> I1("rep", 0)) @@ (19 :> I1("rep", 2))
                  @@ (20 :> I1("pop", 0)) @@ (21 :> I1("rep", 3)) @@ (23 :> I1("jmp", 17))
                  @@ Vectors)

\* Underflow by a return.
Returns == Prog((16 :> I1("mask", 0)) @@ (17 :> I1("rts", 0)) @@ Vectors)

\* A core that waits, is woken or single-stepped, and stops.
Halts == Prog((16 :> I1("mask", 0)) @@ (17 :> I1("wait", 0)) @@ (18 :> I1("jsr", 28))
              @@ (19 :> I1("stop", 0)) @@ (20 :> I1("jmp", 16)) @@ (29 :> I1("rts", 0))
              @@ Vectors)

\* A trap whose handler executes an illegal instruction: that fault is parked
\* at 38.  What follows writes SP once and then repeats and waits, or never
\* stops writing it.
Parks(f) == Prog(f @@ (16 :> I1("mask", 0)) @@ (17 :> I1("fault", 4)) @@ (18 :> I1("jmp", 16))
                 @@ (9 :> I1("jsr", 36)) @@ (36 :> I1("fault", 2)) @@ Vectors)
Parking == {Parks((39 :> I1("spwrite", 1)) @@ (40 :> I1("rep", 2)) @@ (42 :> I1("wait", 0))
                  @@ (43 :> I1("rti", 0))),
            Parks((40 :> I1("spwrite", 1)) @@ (41 :> I1("jmp", 40)))}

MCCodes == {Traps, Halts, Overflow, Underflow, Returns} \cup Parking

\* The programs keep to the vector discipline the proofs ask for.
MCMain == {0} \cup 16 .. 43
ASSUME MCDisciplined == \A c \in MCCodes : Disciplined(c, MCMain)

\* For the liveness run: a program that faults and calls, but not for ever in
\* the shadow of its own faults.
MCCalm == {Traps}

\* WAIT with the peripheral vectors above.
MCWait == {Prog((16 :> I1("mask", 0)) @@ (17 :> I1("wait", 0)) @@ (18 :> I1("jmp", 16))
                @@ Vectors)}

\* A two-word move as the fast interrupt of peripheral 7.
MCTwoWord == {Prog((16 :> I1("mask", 0)) @@ (18 :> I1("jmp", 16))
                   @@ (14 :> I2("plain", 0)) @@ Vectors)}

\* A conditional JSR at the vector of peripheral 5.
MCCond == {Prog((16 :> I1("mask", 0)) @@ (18 :> I1("jmp", 16))
                @@ (10 :> I1("jscc", 24)) @@ Vectors)}
===============================================================================
