------------------------------- MODULE StackOps -------------------------------
(***************************************************************************)
(* The hardware stack of the core as operators on a record.  The same     *)
(* stack is implemented three times in the repository: the DspState       *)
(* methods stack_push / stack_pop (core.rs), the extern helpers called    *)
(* from compiled code (jit_write_ssh, jit_read_ssh, ... in core.rs), and  *)
(* the push / pop sequences the emitter inlines (emit/mod.rs).  Each one  *)
(* has its operator here.                                                 *)
(*                                                                         *)
(* SP is a 6-bit register: UF (bit 5), SE (bit 4) and a pointer.  The     *)
(* source has 16 slots; Depth is that number.  A stack record s has       *)
(*   ptr, se, uf   the three fields of SP                                  *)
(*   sc            the stack counter register, modulo 2 * Depth            *)
(*   hi, lo        stack[0] and stack[1], the slots                        *)
(*   ssh, ssl      the registers that mirror the top slot                  *)
(***************************************************************************)
EXTENDS Integers

CONSTANTS Depth,   \* number of slots (16 in the code)
          Words    \* values a slot half can hold

ASSUME DepthAssumption == Depth \in Nat /\ Depth > 1

Slots == 0 .. Depth - 1

StackRecords ==
    [ptr : Slots, se : BOOLEAN, uf : BOOLEAN, sc : 0 .. 2 * Depth - 1,
     hi : [Slots -> Words], lo : [Slots -> Words], ssh : Words, ssl : Words]

\* The mirrors show the slot under the pointer.
Coherent(s) == s.ssh = s.hi[s.ptr] /\ s.ssl = s.lo[s.ptr]

\* The counter is d ahead of the pointer, modulo the number of slots.
CounterAgrees(s, d) == s.sc - s.ptr \in {d - Depth, d, d + Depth}

\* How far the counter is ahead.
Drift(s) == CHOOSE d \in Slots : CounterAgrees(s, d)

\* The stack after DspState::new.
EmptyStack(zero) ==
    [ptr |-> 0, se |-> FALSE, uf |-> FALSE, sc |-> 0,
     hi |-> [i \in Slots |-> zero], lo |-> [i \in Slots |-> zero],
     ssh |-> zero, ssl |-> zero]

-------------------------------------------------------------------------------
(* The pointer arithmetic shared by every push and every pop.  "counter"  *)
(* is the 4-bit field plus or minus one before it is masked; its bit 4 is *)
(* the wrap that sets SE, and a borrow sets UF as well.                   *)

Up(p) == IF p = Depth - 1 THEN 0 ELSE p + 1
Down(p) == IF p = 0 THEN Depth - 1 ELSE p - 1

\* Mutated: the overflow test ignores the latched SE bit.
PushFaultsUnlatched(s) == s.ptr = Depth - 1

\* A push posts STACK_ERROR when it wraps and no error is latched yet.
PushFaults(s) == ~s.se /\ s.ptr = Depth - 1
PopFaults(s) == ~s.se /\ s.ptr = 0

ScUp(c) == IF c = 2 * Depth - 1 THEN 0 ELSE c + 1
ScDown(c) == IF c = 0 THEN 2 * Depth - 1 ELSE c - 1

-------------------------------------------------------------------------------
(* Mutated forms of the operations below, one plausible slip each.        *)

\* The inlined pop loads the popped pair after moving the counter.
inline_poppedLate(s) == <<s.hi[Down(s.ptr)], s.lo[Down(s.ptr)]>>

\* The SP write does not reload the mirrors.
write_spNoReload(s, p, e, u) == [s EXCEPT !.ptr = p, !.se = e, !.uf = u]

\* The SSH-only push does not count in SC.
write_sshNoCount(s, h) ==
    LET idx == Up(s.ptr) IN
    [s EXCEPT !.ptr = idx, !.se = @ \/ s.ptr = Depth - 1,
              !.hi[idx] = h, !.ssh = h, !.ssl = s.lo[idx]]

\* The in-place SSH write lands one slot below the top.
write_ssh_tosBelow(s, h) ==
    IF s.ptr # 0 THEN [s EXCEPT !.hi[s.ptr - 1] = h, !.ssh = s.hi[s.ptr]]
    ELSE [s EXCEPT !.se = TRUE, !.uf = TRUE, !.ssh = s.hi[0]]

-------------------------------------------------------------------------------
(* DspState::stack_push / stack_pop.                                      *)

stack_push(s, h, l) ==
    LET idx == Up(s.ptr) IN
    [ptr |-> idx, se |-> s.se \/ s.ptr = Depth - 1, uf |-> s.uf,
     sc |-> ScUp(s.sc),
     hi |-> [s.hi EXCEPT ![idx] = h], lo |-> [s.lo EXCEPT ![idx] = l],
     ssh |-> h, ssl |-> l]

stack_pop(s) ==
    LET idx == Down(s.ptr) IN
    [ptr |-> idx, se |-> s.se \/ s.ptr = 0, uf |-> s.uf \/ s.ptr = 0,
     sc |-> ScDown(s.sc), hi |-> s.hi, lo |-> s.lo,
     ssh |-> s.hi[idx], ssl |-> s.lo[idx]]

\* stack_pop returns the mirror registers as they were before the pop.
popped(s) == <<s.ssh, s.ssl>>

-------------------------------------------------------------------------------
(* The sequences inlined by Emitter::stack_push / stack_pop.  The pop     *)
(* loads the popped pair from the slot, not from the mirrors.             *)

inline_push(s, h, l) ==
    LET idx == Up(s.ptr) IN
    [s EXCEPT !.ptr = idx, !.se = @ \/ s.ptr = Depth - 1, !.sc = ScUp(@),
              !.hi[idx] = h, !.lo[idx] = l, !.ssh = h, !.ssl = l]

inline_pop(s) ==
    LET idx == Down(s.ptr) IN
    [s EXCEPT !.ptr = idx, !.se = @ \/ s.ptr = 0, !.uf = @ \/ s.ptr = 0,
              !.sc = ScDown(@), !.ssh = s.hi[idx], !.ssl = s.lo[idx]]

inline_popped(s) == <<s.hi[s.ptr], s.lo[s.ptr]>>

-------------------------------------------------------------------------------
(* The extern helpers behind moves and bit operations on SSH, SSL and SP. *)

\* jit_write_ssh: a push that leaves the SSL half of the new slot alone.
write_ssh(s, h) ==
    LET idx == Up(s.ptr) IN
    [s EXCEPT !.ptr = idx, !.se = @ \/ s.ptr = Depth - 1, !.sc = ScUp(@),
              !.hi[idx] = h, !.ssh = h, !.ssl = s.lo[idx]]

\* jit_write_ssh_tos: rewrite the top slot; at pointer 0 nothing is
\* written and both error bits are set instead.
write_ssh_tos(s, h) ==
    IF s.ptr # 0 THEN [s EXCEPT !.hi[s.ptr] = h, !.ssh = h]
    ELSE [s EXCEPT !.se = TRUE, !.uf = TRUE, !.ssh = s.hi[0]]

TosFaults(s) == s.ptr = 0 /\ ~s.se

\* jit_write_ssl.
write_ssl(s, l) == [s EXCEPT !.lo[s.ptr] = l, !.ssl = l]

\* jit_write_sp: the three fields are replaced and the mirrors reloaded.
write_sp(s, p, e, u) ==
    [s EXCEPT !.ptr = p, !.se = e, !.uf = u, !.ssh = s.hi[p], !.ssl = s.lo[p]]

\* A move or a bit operation on SC is a plain register store: the mask of
\* the register is modulo 2 * Depth and the pointer does not move.
write_sc(s, v) == [s EXCEPT !.sc = v % (2 * Depth)]

WriteSpFaults(s, e) == ~s.se /\ ~s.uf /\ e

===============================================================================
