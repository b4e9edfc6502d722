---------------------------- MODULE CodegenProofs -----------------------------
(***************************************************************************)
(* The emitter is sound for every program: EmitterSound of Codegen, for    *)
(* any program length and any set of instructions.                         *)
(*                                                                         *)
(* The proof follows the code bottom up.  Core says what every operator    *)
(* may rely on (variables, blocks, scopes, saved arms), PendingOk that a   *)
(* saturation marker belongs to the pending computation.  Each operator of *)
(* the emitter gets a lemma saying what it keeps: Keeps and Calm stay in   *)
(* the block, Goes and Instr may leave it.  Between instructions the       *)
(* emitter is Quiet: no keep-flags region is open.  EmitterInv adds how    *)
(* scopes and regions nest.                                                *)
(***************************************************************************)
EXTENDS Codegen, FiniteSetTheorems, TLAPS

\* A finite sequence, of whatever elements.
IsSeq(c) == \E S : c \in Seq(S)

\* A sequence with one element replaced.
LEMMA SeqUpdate ==
    ASSUME NEW c, IsSeq(c), NEW i, NEW v
    PROVE  /\ IsSeq([c EXCEPT ![i] = v]) /\ Len([c EXCEPT ![i] = v]) = Len(c)
           /\ Len(c) \in Nat /\ DOMAIN c = 1 .. Len(c)
           /\ DOMAIN [c EXCEPT ![i] = v] = DOMAIN c
<1>1. PICK S : c \in Seq(S)
  BY DEF IsSeq
<1>2. Len(c) \in Nat /\ DOMAIN c = 1 .. Len(c) /\ \A k \in 1 .. Len(c) : c[k] \in S
  BY <1>1
<1>. DEFINE d == [c EXCEPT ![i] = v]  T == S \cup {v}
<1>3. DOMAIN d = 1 .. Len(c)
  BY <1>2
<1>4. d \in [1 .. Len(c) -> T]
  BY <1>1, <1>2
<1>5. d \in Seq(T) /\ Len(d) = Len(c)
  BY <1>2, <1>4
<1>. QED BY <1>2, <1>3, <1>5 DEF IsSeq

\* A sequence extended, and cut back.
LEMMA SeqAppend ==
    ASSUME NEW c, IsSeq(c), NEW v
    PROVE  /\ IsSeq(Append(c, v)) /\ Len(Append(c, v)) = Len(c) + 1 /\ Len(c) \in Nat
           /\ Front(Append(c, v)) = c /\ Last(Append(c, v)) = v
           /\ \A k \in 1 .. Len(c) : Append(c, v)[k] = c[k]
           /\ Append(c, v)[Len(c) + 1] = v
<1>1. PICK S : c \in Seq(S)
  BY DEF IsSeq
<1>. DEFINE T == S \cup {v}  d == Append(c, v)
<1>2. c \in Seq(T) /\ v \in T
  BY <1>1
<1>. HIDE DEF T
<1>3. /\ d \in Seq(T) /\ Len(d) = Len(c) + 1 /\ Len(c) \in Nat
      /\ \A k \in 1 .. Len(c) : d[k] = c[k]
      /\ d[Len(c) + 1] = v
  BY <1>2
<1>. HIDE DEF d
<1>4. Last(d) = v
  BY <1>3 DEF Last
<1>5. Front(d) = c
  <2>1. Front(d) = SubSeq(d, 1, Len(c))
    BY <1>3 DEF Front
  <2>2. SubSeq(d, 1, Len(c)) \in Seq(T) /\ Len(SubSeq(d, 1, Len(c))) = Len(c)
    BY <1>3
  <2>3. \A k \in 1 .. Len(c) : SubSeq(d, 1, Len(c))[k] = c[k]
    BY <1>3
  <2>. QED BY <1>2, <2>1, <2>2, <2>3
<1>. QED BY <1>3, <1>4, <1>5 DEF IsSeq, d

\* Two sequences joined.
LEMMA SeqConcat ==
    ASSUME NEW c, NEW d, IsSeq(c), IsSeq(d)
    PROVE  IsSeq(c \o d) /\ Len(c \o d) = Len(c) + Len(d) /\ Len(c) \in Nat /\ Len(d) \in Nat
<1>1. PICK S : c \in Seq(S)
  BY DEF IsSeq
<1>2. PICK R : d \in Seq(R)
  BY DEF IsSeq
<1>. DEFINE T == S \cup R
<1>3. c \in Seq(T) /\ d \in Seq(T)
  BY <1>1, <1>2
<1>. HIDE DEF T
<1>4. c \o d \in Seq(T) /\ Len(c \o d) = Len(c) + Len(d) /\ Len(c) \in Nat /\ Len(d) \in Nat
  BY <1>3
<1>. QED BY <1>4 DEF IsSeq

\* A sequence without its last element.
LEMMA SeqFront ==
    ASSUME NEW c, IsSeq(c), Len(c) > 0
    PROVE  /\ IsSeq(Front(c)) /\ Len(Front(c)) = Len(c) - 1
           /\ \A k \in 1 .. Len(c) - 1 : Front(c)[k] = c[k]
           /\ Last(c) = c[Len(c)] /\ Len(c) \in Nat
<1>1. PICK S : c \in Seq(S)
  BY DEF IsSeq
<1>2. Len(c) \in Nat /\ Front(c) = SubSeq(c, 1, Len(c) - 1)
  BY <1>1 DEF Front
<1>3. Front(c) \in Seq(S) /\ Len(Front(c)) = Len(c) - 1
  <2>1. PICK n \in Nat : n = Len(c) - 1
    BY <1>2
  <2>2. SubSeq(c, 1, n) \in Seq(S) /\ Len(SubSeq(c, 1, n)) = n
    BY <1>1, <1>2, <2>1
  <2>. QED BY <1>2, <2>1, <2>2
<1>4. \A k \in 1 .. Len(c) - 1 : Front(c)[k] = c[k]
  BY <1>1, <1>2
<1>. QED BY <1>2, <1>3, <1>4 DEF IsSeq, Last

-------------------------------------------------------------------------------
(* What holds of the emitter inside and between its operations.            *)

Fields == {"code", "cur", "base", "arms", "valid", "dirty", "scopes", "pending",
           "pending_sm_marker", "slot", "cond_keep_flags", "cond_depth", "eunz_current",
           "defer_hazard_sites", "pending_cycles", "panic", "open", "prog"}

\* A ConditionalState: what its arms modified is disjoint from what was dirty
\* at the branch, and a recording region starts with nothing dirty.
ArmOk(c) == /\ c.dirty \subseteq c.valid /\ c.valid \subseteq PROMOTED_REGS
            /\ c.modified \cap c.dirty = {}
            /\ c.record => c.dirty = {}
            /\ c.record \in BOOLEAN
            /\ DOMAIN c = {"record", "dirty", "valid", "modified"}

\* Dirty variables are valid, nothing has panicked, the current block exists,
\* some scope is open, and the depth counts the regions.
Core(x) ==
    /\ DOMAIN x = Fields
    /\ x.dirty \subseteq x.valid /\ x.valid \subseteq PROMOTED_REGS
    /\ x.panic = FALSE
    /\ IsSeq(x.code) /\ x.cur \in 1 .. Len(x.code) /\ x.base \in Nat
    /\ IsSeq(x.scopes) /\ Len(x.scopes) > 0
    /\ IsSeq(x.arms) /\ \A k \in 1 .. Len(x.arms) : ArmOk(x.arms[k])
    /\ x.slot \in Nat /\ x.cond_keep_flags \in Nat /\ x.cond_depth = Len(x.arms)

\* The pending computation is of a kind a flush knows, and holds the marker
\* exactly if it reads one.
PendingOk(x) ==
    \/ x.pending = None /\ x.pending_sm_marker = 0
    \/ \E k \in DOMAIN Parts, t \in Nat \ {0} :
         /\ x.pending = [kind |-> k, t |-> t]
         /\ x.pending_sm_marker = IF consumes_sm_marker(k) THEN t ELSE 0

\* What operations keep, in groups: the nesting, the place in the code, the
\* register sets, the pending computation.
Frame(x) == <<Len(x.scopes), x.arms, x.open, x.prog, x.cond_depth, x.cond_keep_flags, x.slot>>
Place(x) == <<x.base, x.cur, Len(x.code)>>
Regs(x) == <<x.valid, x.dirty>>
Pend(x) == <<x.pending, x.pending_sm_marker>>

\* Writing an operation or a terminator into the current block.
LEMMA WriteSound ==
    ASSUME NEW x, Core(x), NEW o, NEW y, y = Emit(x, o) \/ y = End(x, o)
    PROVE  /\ Core(y) /\ Frame(y) = Frame(x) /\ Place(y) = Place(x)
           /\ Regs(y) = Regs(x) /\ Pend(y) = Pend(x)
<1>1. PICK b : y = [x EXCEPT !.code = [x.code EXCEPT ![x.cur] = b]]
  BY DEF Emit, End, Core, Fields
<1>. DEFINE c == [x.code EXCEPT ![x.cur] = b]
<1>2. IsSeq(c) /\ Len(c) = Len(x.code)
  BY SeqUpdate DEF Core
<1>. HIDE DEF c
<1>3. /\ DOMAIN y = Fields /\ y.code = c /\ y.cur = x.cur /\ y.base = x.base /\ y.arms = x.arms
      /\ y.valid = x.valid /\ y.dirty = x.dirty /\ y.scopes = x.scopes
      /\ y.pending = x.pending /\ y.pending_sm_marker = x.pending_sm_marker
      /\ y.slot = x.slot /\ y.cond_keep_flags = x.cond_keep_flags
      /\ y.cond_depth = x.cond_depth /\ y.panic = x.panic /\ y.open = x.open
      /\ y.prog = x.prog
  BY <1>1 DEF c, Core, Fields
<1>4. Core(y)
  BY <1>2, <1>3 DEF Core
<1>. QED BY <1>2, <1>3, <1>4 DEF Frame, Place, Regs, Pend

\* A step that only touches the sets of registers keeps them nested.
LEMMA RegsSound ==
    ASSUME NEW x, Core(x), NEW y,
           y = [x EXCEPT !.valid = y.valid, !.dirty = y.dirty],
           y.valid \subseteq PROMOTED_REGS, y.dirty \subseteq y.valid
    PROVE  Core(y) /\ Frame(y) = Frame(x) /\ Place(y) = Place(x) /\ Pend(y) = Pend(x)
<1>3. /\ DOMAIN y = Fields /\ y.code = x.code /\ y.cur = x.cur /\ y.base = x.base
      /\ y.arms = x.arms /\ y.scopes = x.scopes
      /\ y.pending = x.pending /\ y.pending_sm_marker = x.pending_sm_marker
      /\ y.slot = x.slot /\ y.cond_keep_flags = x.cond_keep_flags
      /\ y.cond_depth = x.cond_depth /\ y.panic = x.panic /\ y.open = x.open
      /\ y.prog = x.prog
  BY DEF Core, Fields
<1>4. Core(y)
  BY <1>3 DEF Core
<1>. QED BY <1>3, <1>4 DEF Frame, Place, Pend

\* So does one that only touches eunz_current, the hazard sites or the cycles.
LEMMA BookSound ==
    ASSUME NEW x, Core(x), NEW y, NEW v,
           \/ y = [x EXCEPT !.eunz_current = v]
           \/ y = [x EXCEPT !.defer_hazard_sites = v]
           \/ y = [x EXCEPT !.pending_cycles = v]
    PROVE  /\ Core(y) /\ Frame(y) = Frame(x) /\ Place(y) = Place(x)
           /\ Regs(y) = Regs(x) /\ Pend(y) = Pend(x)
<1>3. /\ DOMAIN y = Fields /\ y.code = x.code /\ y.cur = x.cur /\ y.base = x.base
      /\ y.arms = x.arms /\ y.valid = x.valid /\ y.dirty = x.dirty /\ y.scopes = x.scopes
      /\ y.pending = x.pending /\ y.pending_sm_marker = x.pending_sm_marker
      /\ y.slot = x.slot /\ y.cond_keep_flags = x.cond_keep_flags
      /\ y.cond_depth = x.cond_depth /\ y.panic = x.panic /\ y.open = x.open
      /\ y.prog = x.prog
  BY DEF Core, Fields
<1>4. Core(y)
  BY <1>3 DEF Core
<1>. QED BY <1>3, <1>4 DEF Frame, Place, Regs, Pend

\* store_reg of a register without a rule of its own: valid and dirty.
LEMMA StoreVarSound ==
    ASSUME NEW x, Core(x), NEW r \in PROMOTED_REGS, NEW y, y = store_var(x, r)
    PROVE  Core(y) /\ Frame(y) = Frame(x) /\ Place(y) = Place(x) /\ Pend(y) = Pend(x)
<1>1. y = [x EXCEPT !.valid = x.valid \cup {r}, !.dirty = x.dirty \cup {r}]
  BY DEF store_var
<1>3. y.valid = x.valid \cup {r} /\ y.dirty = x.dirty \cup {r}
  BY <1>1 DEF Core, Fields
<1>2. x.valid \cup {r} \subseteq PROMOTED_REGS /\ x.dirty \cup {r} \subseteq x.valid \cup {r}
  BY DEF Core
<1>. QED BY <1>1, <1>2, <1>3, RegsSound

\* load_reg of such a register: valid, on one of its three paths.
LEMMA LoadVarSound ==
    ASSUME NEW x, Core(x), NEW r \in PROMOTED_REGS, NEW y, y = load_var(x, r)
    PROVE  /\ Core(y) /\ Frame(y) = Frame(x) /\ Place(y) = Place(x) /\ Pend(y) = Pend(x)
           /\ y.dirty = x.dirty
<1>. DEFINE z == [x EXCEPT !.valid = x.valid \cup {r}]
<1>1. z = [x EXCEPT !.valid = x.valid \cup {r}, !.dirty = x.dirty]
  BY DEF Core, Fields
<1>2. x.valid \cup {r} \subseteq PROMOTED_REGS /\ x.dirty \subseteq x.valid \cup {r}
  BY DEF Core
<1>3. Core(z) /\ Frame(z) = Frame(x) /\ Place(z) = Place(x) /\ Pend(z) = Pend(x)
      /\ z.dirty = x.dirty /\ Len(z.scopes) = Len(x.scopes)
  <2>0. z.valid = x.valid \cup {r} /\ z.dirty = x.dirty /\ z.scopes = x.scopes
    BY DEF Core, Fields
  <2>. HIDE DEF z
  <2>1. Core(z) /\ Frame(z) = Frame(x) /\ Place(z) = Place(x) /\ Pend(z) = Pend(x)
    BY <1>1, <1>2, <2>0, RegsSound
  <2>. QED BY <2>0, <2>1
<1>4. \/ y = x \/ y = Emit(z, [op |-> "load", r |-> r])
      \/ y = [z EXCEPT !.scopes[Len(x.scopes)].deferred = @ \cup {r}]
  BY DEF load_var
<1>. HIDE DEF z
<1>5. CASE y = x
  BY <1>5
<1>6. CASE y = Emit(z, [op |-> "load", r |-> r])
  <2>1. Core(y) /\ Frame(y) = Frame(z) /\ Place(y) = Place(z) /\ Pend(y) = Pend(z)
        /\ Regs(y) = Regs(z)
    BY <1>3, <1>6, WriteSound
  <2>. QED BY <1>3, <2>1 DEF Regs
<1>7. CASE y = [z EXCEPT !.scopes[Len(x.scopes)].deferred = @ \cup {r}]
  <2>1. PICK b : y = [z EXCEPT !.scopes = [z.scopes EXCEPT ![Len(x.scopes)] = b]]
    BY <1>3, <1>7 DEF Core, Fields
  <2>. DEFINE c == [z.scopes EXCEPT ![Len(x.scopes)] = b]
  <2>2. IsSeq(c) /\ Len(c) = Len(z.scopes)
    <3>1. IsSeq(z.scopes)
      BY <1>3 DEF Core
    <3>. QED BY <3>1, SeqUpdate
  <2>. HIDE DEF c
  <2>3. /\ DOMAIN y = Fields /\ y.code = z.code /\ y.cur = z.cur /\ y.base = z.base
        /\ y.arms = z.arms /\ y.valid = z.valid /\ y.dirty = z.dirty /\ y.scopes = c
        /\ y.pending = z.pending /\ y.pending_sm_marker = z.pending_sm_marker
        /\ y.slot = z.slot /\ y.cond_keep_flags = z.cond_keep_flags
        /\ y.cond_depth = z.cond_depth /\ y.panic = z.panic /\ y.open = z.open
        /\ y.prog = z.prog
    BY <1>3, <2>1 DEF c, Core, Fields
  <2>4. Core(y)
    BY <1>3, <2>2, <2>3 DEF Core
  <2>. QED BY <1>3, <2>2, <2>3, <2>4 DEF Frame, Place, Pend
<1>. QED BY <1>4, <1>5, <1>6, <1>7

\* What the steps below keep: everything but the code, the register sets and
\* the pending computation.
Keeps(x, y) == Core(y) /\ Frame(y) = Frame(x) /\ Place(y) = Place(x)

\* One part of a flag computation, read-modify-write on SR.
LEMMA FlagsSound ==
    ASSUME NEW x, Core(x), NEW part, NEW t, NEW mark, NEW y, y = Flags(x, part, t, mark)
    PROVE  Keeps(x, y) /\ Pend(y) = Pend(x)
<1>. DEFINE a == load_var(x, "SR")
            o == [op |-> "flags", part |-> part, t |-> t, mark |-> mark]
            b == Emit(a, o)
<1>0. "SR" \in PROMOTED_REGS
  BY DEF PROMOTED_REGS
<1>1. Keeps(x, a) /\ Pend(a) = Pend(x)
  BY <1>0, LoadVarSound DEF Keeps
<1>2. Keeps(a, b) /\ Pend(b) = Pend(a)
  <2>. HIDE DEF a, o
  <2>. QED BY <1>1, WriteSound DEF Keeps
<1>3. y = store_var(b, "SR")
  BY DEF Flags
<1>. HIDE DEF a, b
<1>4. Keeps(b, y) /\ Pend(y) = Pend(b)
  BY <1>0, <1>2, <1>3, StoreVarSound DEF Keeps
<1>. QED BY <1>1, <1>2, <1>4 DEF Keeps

\* update_nz_now, and the deferred form of it.
LEMMA NzNowSound ==
    ASSUME NEW x, Core(x), NEW t, NEW y, y = update_nz_now(x, t) \/ y = emit_deferred_nz(x, t)
    PROVE  Keeps(x, y) /\ Pend(y) = Pend(x)
<1>. DEFINE a == Flags(x, "nz", t, 0)
<1>1. Keeps(x, a) /\ Pend(a) = Pend(x)
  BY FlagsSound
<1>2. y = x \/ y = update_nz_now(x, t)
  BY DEF emit_deferred_nz
<1>3. y = x \/ \E v : y = [a EXCEPT !.eunz_current = v]
  BY <1>2 DEF update_nz_now
<1>. HIDE DEF a
<1>4. CASE y = x
  BY <1>4 DEF Keeps
<1>5. CASE \E v : y = [a EXCEPT !.eunz_current = v]
  <2>1. PICK v : y = [a EXCEPT !.eunz_current = v]
    BY <1>5
  <2>. QED BY <1>1, <2>1, BookSound DEF Keeps
<1>. QED BY <1>3, <1>4, <1>5

\* One part of a flush; the saturation part gives the marker back.
LEMMA FlushPartSound ==
    ASSUME NEW x, Core(x), NEW part, NEW p, NEW dead, NEW y, y = FlushPart(x, part, p, dead)
    PROVE  /\ Keeps(x, y) /\ y.pending = x.pending
           /\ y.pending_sm_marker = IF part = "sm" THEN 0 ELSE x.pending_sm_marker
<1>1. CASE part = "sm"
  <2>. DEFINE a == Flags(x, "sm", p.t, x.pending_sm_marker)
  <2>1. Keeps(x, a) /\ Pend(a) = Pend(x)
    BY FlagsSound
  <2>2. y = [a EXCEPT !.pending_sm_marker = 0]
    BY <1>1 DEF FlushPart
  <2>. HIDE DEF a
  <2>3. /\ DOMAIN y = Fields /\ y.code = a.code /\ y.cur = a.cur /\ y.base = a.base
        /\ y.arms = a.arms /\ y.valid = a.valid /\ y.dirty = a.dirty /\ y.scopes = a.scopes
        /\ y.pending = a.pending /\ y.pending_sm_marker = 0
        /\ y.slot = a.slot /\ y.cond_keep_flags = a.cond_keep_flags
        /\ y.cond_depth = a.cond_depth /\ y.panic = a.panic /\ y.open = a.open
        /\ y.prog = a.prog
    BY <2>1, <2>2 DEF Keeps, Core, Fields
  <2>4. Core(y)
    BY <2>1, <2>3 DEF Keeps, Core
  <2>5. Frame(y) = Frame(a) /\ Place(y) = Place(a) /\ a.pending = x.pending
    BY <2>1, <2>3 DEF Frame, Place, Pend
  <2>. QED BY <1>1, <2>1, <2>3, <2>4, <2>5 DEF Keeps
<1>2. CASE part = "nz"
  <2>1. y = x \/ y = update_nz_now(x, p.t)
    BY <1>2 DEF FlushPart
  <2>2. Keeps(x, y) /\ Pend(y) = Pend(x)
    BY <2>1, NzNowSound DEF Keeps
  <2>. QED BY <1>2, <2>2 DEF Pend
<1>3. CASE part # "sm" /\ part # "nz"
  <2>1. y = Flags(x, part, p.t, 0)
    BY <1>3, Zenon DEF FlushPart
  <2>2. Keeps(x, y) /\ Pend(y) = Pend(x)
    BY <2>1, FlagsSound
  <2>. QED BY <1>3, <2>2 DEF Pend
<1>. QED BY <1>1, <1>2, <1>3

\* Exactly the kinds with a part that reads a saturation marker capture one.
HasSm(k) == \E i \in DOMAIN Parts[k] : Parts[k][i] = "sm"
\* The kinds consumes_sm_marker lists are those with a saturation part.
LEMMA MarkerKinds ==
    ASSUME NEW k \in DOMAIN Parts
    PROVE  /\ HasSm(k) <=> consumes_sm_marker(k)
           /\ DOMAIN Parts[k] \subseteq 1 .. 4
           /\ k # "none"
<1>. USE DEF HasSm, Parts, consumes_sm_marker
<1>1. CASE k \in {"AluAddSub", "NzClearV", "NzOnly"}
  BY <1>1
<1>2. CASE k \in {"NzClearVSm", "MacVlSm", "NzVlSm"}
  BY <1>2
<1>3. CASE k \in {"NzSm", "NzVclSub", "AddlSubl"}
  BY <1>3
<1>4. CASE k \in {"DmacVl", "Shift24", "Logical"}
  BY <1>4
<1>. QED BY <1>1, <1>2, <1>3, <1>4

\* Steps that keep the frame compose.
LEMMA KeepsTransitive ==
    ASSUME NEW x, NEW y, NEW z, Keeps(x, y), Keeps(y, z)
    PROVE  Keeps(x, z)
BY DEF Keeps

\* flush_pending_flags_eliding_eunz outside a keep-flags region: it does not
\* panic, nothing is pending afterwards and no marker is left.
LEMMA FlushSound ==
    ASSUME NEW x, Core(x), PendingOk(x), x.cond_keep_flags = 0 \/ x.pending = None,
           NEW dead, NEW y, y = flush_eliding(x, dead)
    PROVE  Keeps(x, y) /\ PendingOk(y) /\ y.pending = None
<1>1. CASE x.pending = None
  BY <1>1 DEF flush_eliding, Keeps
<1>2. CASE x.pending # None
  <2>1. PICK k \in DOMAIN Parts, t \in Nat \ {0} :
         /\ x.pending = [kind |-> k, t |-> t]
         /\ x.pending_sm_marker = IF consumes_sm_marker(k) THEN t ELSE 0
    BY <1>2 DEF PendingOk
  <2>. DEFINE p == x.pending
              Part(z, n) == IF n \in DOMAIN Parts[p.kind]
                            THEN FlushPart(z, Parts[p.kind][n], p, dead) ELSE z
              a0 == [x EXCEPT !.pending = None, !.panic = @ \/ x.cond_keep_flags > 0]
              a1 == Part(a0, 1)
              a2 == Part(a1, 2)
              a3 == Part(a2, 3)
              a4 == Part(a3, 4)
  <2>2. y = a4
    BY <1>2 DEF flush_eliding
  <2>3. Keeps(x, a0) /\ a0.pending = None /\ a0.pending_sm_marker = x.pending_sm_marker
    <3>3. /\ DOMAIN a0 = Fields /\ a0.code = x.code /\ a0.cur = x.cur /\ a0.base = x.base
          /\ a0.arms = x.arms /\ a0.valid = x.valid /\ a0.dirty = x.dirty
          /\ a0.scopes = x.scopes
          /\ a0.pending = None /\ a0.pending_sm_marker = x.pending_sm_marker
          /\ a0.slot = x.slot /\ a0.cond_keep_flags = x.cond_keep_flags
          /\ a0.cond_depth = x.cond_depth /\ a0.open = x.open
          /\ a0.prog = x.prog
      BY DEF Core, Fields
    <3>4. a0.panic = FALSE
      <4>1. x.panic = FALSE /\ ~(x.cond_keep_flags > 0)
        BY <1>2 DEF Core
      <4>2. (x.panic \/ x.cond_keep_flags > 0) = FALSE
        BY <4>1
      <4>. DEFINE q == (x.panic \/ x.cond_keep_flags > 0)
      <4>3. a0 = [x EXCEPT !.pending = None, !.panic = q]
        OBVIOUS
      <4>. HIDE DEF q, a0
      <4>4. a0.panic = q
        BY <4>3 DEF Core, Fields
      <4>. QED BY <4>2, <4>4 DEF q
    <3>. HIDE DEF a0
    <3>5. Core(a0)
      BY <3>3, <3>4 DEF Core
    <3>. QED BY <3>3, <3>5 DEF Keeps, Frame, Place
  <2>. DEFINE Done(z, n) ==
                /\ Keeps(x, z) /\ z.pending = None
                /\ z.pending_sm_marker =
                     IF \E i \in DOMAIN Parts[k] : i <= n /\ Parts[k][i] = "sm"
                     THEN 0 ELSE x.pending_sm_marker
  <2>4. Done(a0, 0)
    <3>1. ~ \E i \in DOMAIN Parts[k] : i <= 0 /\ Parts[k][i] = "sm"
      BY MarkerKinds
    <3>. HIDE DEF a0
    <3>. QED BY <2>3, <3>1
  <2>5. ASSUME NEW z, NEW n \in 0 .. 3, Done(z, n)
        PROVE  Done(Part(z, n + 1), n + 1)
    <3>. DEFINE w == Part(z, n + 1)
    <3>0. p.kind = k
      BY <2>1
    <3>1. CASE n + 1 \notin DOMAIN Parts[k]
      <4>1. w = z
        BY <3>0, <3>1
      <4>2. (\E i \in DOMAIN Parts[k] : i <= n + 1 /\ Parts[k][i] = "sm")
             <=> (\E i \in DOMAIN Parts[k] : i <= n /\ Parts[k][i] = "sm")
        BY <3>1, MarkerKinds
      <4>. HIDE DEF w
      <4>. QED BY <2>5, <4>1, <4>2 DEF w
    <3>2. CASE n + 1 \in DOMAIN Parts[k]
      <4>1. w = FlushPart(z, Parts[k][n + 1], p, dead)
        BY <3>0, <3>2
      <4>2. Core(z) /\ z.pending = None
        BY <2>5 DEF Keeps
      <4>. HIDE DEF w
      <4>3. /\ Keeps(z, w) /\ w.pending = z.pending
            /\ w.pending_sm_marker = IF Parts[k][n + 1] = "sm" THEN 0 ELSE z.pending_sm_marker
        BY <4>1, <4>2, FlushPartSound
      <4>4. Keeps(x, w)
        BY <2>5, <4>3, KeepsTransitive
      <4>5. (\E i \in DOMAIN Parts[k] : i <= n + 1 /\ Parts[k][i] = "sm")
             <=> \/ \E i \in DOMAIN Parts[k] : i <= n /\ Parts[k][i] = "sm"
                 \/ Parts[k][n + 1] = "sm"
        BY <3>2, MarkerKinds
      <4>. QED BY <2>5, <4>2, <4>3, <4>4, <4>5 DEF w
    <3>. QED BY <3>1, <3>2
  <2>. HIDE DEF Part, a0, Done
  <2>6. Done(a1, 0 + 1)
    BY <2>4, <2>5
  <2>. HIDE DEF a1
  <2>7. Done(a2, 1 + 1)
    BY <2>5, <2>6
  <2>. HIDE DEF a2
  <2>8. Done(a3, 2 + 1)
    BY <2>5, <2>7
  <2>. HIDE DEF a3
  <2>9. Done(a4, 3 + 1)
    BY <2>5, <2>8
  <2>10. (\E i \in DOMAIN Parts[k] : i <= 4 /\ Parts[k][i] = "sm") <=> consumes_sm_marker(k)
    BY MarkerKinds DEF HasSm
  <2>11. Keeps(x, a4) /\ a4.pending = None /\ a4.pending_sm_marker = 0
    <3>. HIDE DEF a4
    <3>. QED BY <2>1, <2>9, <2>10 DEF Done
  <2>. QED BY <2>2, <2>11 DEF PendingOk
<1>. QED BY <1>1, <1>2

\* What the emitter may be between two of its own steps.  Quiet: no conditional
\* region forbids materialising flags.
Ok(x) == Core(x) /\ PendingOk(x)
Quiet(x) == Core(x) /\ PendingOk(x) /\ x.cond_keep_flags = 0

\* The full flush.
LEMMA FlushFlagsSound ==
    ASSUME NEW x, Ok(x), x.cond_keep_flags = 0 \/ x.pending = None,
           NEW y, y = flush_pending_flags(x)
    PROVE  Keeps(x, y) /\ Ok(y) /\ y.pending = None
BY FlushSound DEF Ok, flush_pending_flags, Keeps

\* The same pending computation is as sound in another record.
LEMMA PendSame ==
    ASSUME NEW x, NEW y, PendingOk(x), Pend(y) = Pend(x)
    PROVE  PendingOk(y)
BY DEF PendingOk, Pend

\* A step that leaves the pending computation alone.
LEMMA OkKept ==
    ASSUME NEW x, NEW y, Ok(x), Keeps(x, y), Pend(y) = Pend(x)
    PROVE  Ok(y)
BY PendSame DEF Ok, Keeps

\* load_reg(SR) materialises what is pending.
LEMMA LoadSrSound ==
    ASSUME NEW x, Quiet(x), NEW tr, NEW y, y = load_sr(x, tr)
    PROVE  Keeps(x, y) /\ Quiet(y) /\ y.pending = None
<1>1. PICK a : /\ a = x \/ \E v : a = [x EXCEPT !.defer_hazard_sites = v]
               /\ y = load_var(flush_pending_flags(a), "SR")
  BY DEF load_sr
<1>2. Keeps(x, a) /\ Pend(a) = Pend(x)
  <2>1. CASE a = x
    BY <2>1 DEF Keeps, Quiet
  <2>2. CASE \E v : a = [x EXCEPT !.defer_hazard_sites = v]
    <3>1. PICK v : a = [x EXCEPT !.defer_hazard_sites = v]
      BY <2>2
    <3>. QED BY <3>1, BookSound DEF Keeps, Quiet
  <2>. QED BY <1>1, <2>1, <2>2
<1>3. Ok(a) /\ a.cond_keep_flags = 0
  BY <1>2, OkKept DEF Ok, Quiet, Keeps, Frame
<1>. DEFINE b == flush_pending_flags(a)
<1>4. Keeps(a, b) /\ Ok(b) /\ b.pending = None
  BY <1>3, FlushFlagsSound
<1>. HIDE DEF b
<1>5. y = load_var(b, "SR") /\ "SR" \in PROMOTED_REGS
  BY <1>1 DEF b, PROMOTED_REGS
<1>6. Keeps(b, y) /\ Pend(y) = Pend(b)
  BY <1>4, <1>5, LoadVarSound DEF Keeps, Ok
<1>7. Keeps(x, y)
  BY <1>2, <1>4, <1>6 DEF Keeps
<1>. QED BY <1>4, <1>6, <1>7, PendSame DEF Quiet, Ok, Keeps, Frame, Pend

\* [x EXCEPT !.pending = p, !.pending_sm_marker = m].
LEMMA PendingSet ==
    ASSUME NEW x, Core(x), NEW y,
           y = [x EXCEPT !.pending = y.pending, !.pending_sm_marker = y.pending_sm_marker]
    PROVE  Keeps(x, y) /\ Regs(y) = Regs(x)
<1>3. /\ DOMAIN y = Fields /\ y.code = x.code /\ y.cur = x.cur /\ y.base = x.base
      /\ y.arms = x.arms /\ y.valid = x.valid /\ y.dirty = x.dirty /\ y.scopes = x.scopes
      /\ y.slot = x.slot /\ y.cond_keep_flags = x.cond_keep_flags
      /\ y.cond_depth = x.cond_depth /\ y.panic = x.panic /\ y.open = x.open
      /\ y.prog = x.prog
  BY DEF Core, Fields
<1>4. Core(y)
  BY <1>3 DEF Core
<1>. QED BY <1>3, <1>4 DEF Frame, Place, Regs, Keeps

\* store_reg(SR) drops what is pending, and its marker.
LEMMA StoreSrSound ==
    ASSUME NEW x, Quiet(x), NEW y, y = store_sr(x)
    PROVE  Keeps(x, y) /\ Quiet(y) /\ y.pending = None
<1>. DEFINE a == [x EXCEPT !.pending = None, !.pending_sm_marker = 0,
                           !.panic = @ \/ x.cond_keep_flags > 0]
            b == IF x.pending = None THEN x ELSE Emit(a, [op |-> "unsat"])
<1>1. y = store_var(b, "SR") /\ "SR" \in PROMOTED_REGS
  BY DEF store_sr, PROMOTED_REGS
<1>2. Keeps(x, a) /\ a.pending = None /\ a.pending_sm_marker = 0
  <2>1. a.panic = FALSE
    <3>1. x.panic = FALSE /\ ~(x.cond_keep_flags > 0)
      BY DEF Core, Quiet
    <3>. DEFINE q == (x.panic \/ x.cond_keep_flags > 0)
    <3>2. q = FALSE
      BY <3>1
    <3>3. a = [x EXCEPT !.pending = None, !.pending_sm_marker = 0, !.panic = q]
      OBVIOUS
    <3>. HIDE DEF q, a
    <3>4. a.panic = q
      BY <3>3 DEF Core, Fields, Quiet
    <3>. QED BY <3>2, <3>4
  <2>2. /\ DOMAIN a = Fields /\ a.code = x.code /\ a.cur = x.cur /\ a.base = x.base
        /\ a.arms = x.arms /\ a.valid = x.valid /\ a.dirty = x.dirty /\ a.scopes = x.scopes
        /\ a.pending = None /\ a.pending_sm_marker = 0
        /\ a.slot = x.slot /\ a.cond_keep_flags = x.cond_keep_flags
        /\ a.cond_depth = x.cond_depth /\ a.open = x.open /\ a.prog = x.prog
    BY DEF Core, Fields, Quiet
  <2>. HIDE DEF a
  <2>3. Core(a)
    BY <2>1, <2>2 DEF Core, Quiet
  <2>. QED BY <2>2, <2>3 DEF Keeps, Frame, Place
<1>. HIDE DEF a
<1>3. Keeps(x, b) /\ b.pending = None /\ PendingOk(b)
  <2>1. CASE x.pending = None
    <3>1. b = x
      BY <2>1
    <3>. HIDE DEF b
    <3>. QED BY <2>1, <3>1 DEF Keeps, Quiet
  <2>2. CASE x.pending # None
    <3>1. b = Emit(a, [op |-> "unsat"])
      BY <2>2
    <3>. HIDE DEF b
    <3>2. Keeps(a, b) /\ Pend(b) = Pend(a)
      BY <1>2, <3>1, WriteSound DEF Keeps
    <3>3. Keeps(x, b)
      BY <1>2, <3>2, KeepsTransitive
    <3>4. b.pending = None /\ b.pending_sm_marker = 0
      BY <1>2, <3>2 DEF Pend
    <3>. QED BY <3>3, <3>4 DEF PendingOk
  <2>. QED BY <2>1, <2>2
<1>. HIDE DEF b
<1>4. Keeps(b, y) /\ Pend(y) = Pend(b)
  BY <1>1, <1>3, StoreVarSound DEF Keeps
<1>5. Keeps(x, y) /\ PendingOk(y)
  BY <1>3, <1>4, PendSame, KeepsTransitive
<1>. QED BY <1>3, <1>4, <1>5 DEF Quiet, Keeps, Frame, Pend

\* set_pending: the new computation owns the marker it reads.
LEMMA SetPendingSound ==
    ASSUME NEW x, Quiet(x), NEW k \in DOMAIN Parts, NEW t \in Nat \ {0},
           NEW y, y = set_pending(x, k, t)
    PROVE  Keeps(x, y) /\ Quiet(y)
<1>. DEFINE a == flush_eliding(x, rewrites_eunz(k))
            b == Emit(a, [op |-> "snap", t |-> t])
            c == IF consumes_sm_marker(k) THEN [b EXCEPT !.pending_sm_marker = t] ELSE a
<1>1. Keeps(x, a) /\ PendingOk(a) /\ a.pending = None /\ a.pending_sm_marker = 0
  <2>1. Keeps(x, a) /\ PendingOk(a) /\ a.pending = None
    BY FlushSound DEF Quiet
  <2>. HIDE DEF a
  <2>2. \A kk \in DOMAIN Parts, tt \in Nat : [kind |-> kk, t |-> tt] # None
    BY MarkerKinds DEF None
  <2>. QED BY <2>1, <2>2 DEF PendingOk
<1>2. y = [c EXCEPT !.pending = [kind |-> k, t |-> t]]
  BY DEF set_pending
<1>. HIDE DEF a
<1>3. Keeps(a, b) /\ Pend(b) = Pend(a)
  BY <1>1, WriteSound DEF Keeps
<1>. HIDE DEF b
<1>4. /\ Keeps(x, c)
      /\ c.pending_sm_marker = IF consumes_sm_marker(k) THEN t ELSE 0
  <2>1. CASE consumes_sm_marker(k)
    <3>1. c = [b EXCEPT !.pending_sm_marker = t]
      BY <2>1
    <3>. HIDE DEF c
    <3>2. /\ c = [b EXCEPT !.pending = c.pending, !.pending_sm_marker = c.pending_sm_marker]
          /\ c.pending_sm_marker = t
      BY <1>3, <3>1 DEF Keeps, Core, Fields
    <3>3. Keeps(b, c)
      BY <1>3, <3>2, PendingSet DEF Keeps
    <3>. QED BY <1>1, <1>3, <2>1, <3>2, <3>3, KeepsTransitive
  <2>2. CASE ~consumes_sm_marker(k)
    BY <1>1, <2>2
  <2>. QED BY <2>1, <2>2
<1>. HIDE DEF c
<1>5. /\ y = [c EXCEPT !.pending = y.pending, !.pending_sm_marker = y.pending_sm_marker]
      /\ y.pending = [kind |-> k, t |-> t]
      /\ y.pending_sm_marker = c.pending_sm_marker
  BY <1>2, <1>4 DEF Keeps, Core, Fields
<1>6. Keeps(c, y)
  BY <1>4, <1>5, PendingSet DEF Keeps
<1>7. PendingOk(y)
  BY <1>4, <1>5 DEF PendingOk
<1>8. Keeps(x, y)
  BY <1>4, <1>6, KeepsTransitive
<1>. QED BY <1>7, <1>8 DEF Quiet, Keeps, Frame

-------------------------------------------------------------------------------
(* Steps in place: the same block, scopes, arms and slot afterwards.       *)

\* A step of a quiet emitter that stays where it is.
Calm(x, y) == Quiet(y) /\ Frame(y) = Frame(x) /\ Place(y) = Place(x)

\* Calm steps compose.
LEMMA CalmTransitive ==
    ASSUME NEW x, NEW y, NEW z, Calm(x, y), Calm(y, z)
    PROVE  Calm(x, z)
BY DEF Calm

\* A step in place that leaves the pending computation alone is calm.
LEMMA KeptIsCalm ==
    ASSUME NEW x, NEW y, Quiet(x), Keeps(x, y), Pend(y) = Pend(x)
    PROVE  Calm(x, y)
BY PendSame DEF Quiet, Keeps, Calm, Frame

\* Writing into the current block is calm.
LEMMA CalmWrite ==
    ASSUME NEW x, Quiet(x), NEW o, NEW y, y = Emit(x, o) \/ y = End(x, o)
    PROVE  Calm(x, y) /\ Regs(y) = Regs(x) /\ Pend(y) = Pend(x)
<1>1. Keeps(x, y) /\ Regs(y) = Regs(x) /\ Pend(y) = Pend(x)
  BY WriteSound DEF Quiet, Keeps
<1>. QED BY <1>1, KeptIsCalm

\* Loading a register is calm.
LEMMA CalmLoad ==
    ASSUME NEW x, Quiet(x), NEW r \in PROMOTED_REGS, NEW y, y = load_var(x, r)
    PROVE  Calm(x, y) /\ Pend(y) = Pend(x)
<1>1. Keeps(x, y) /\ Pend(y) = Pend(x)
  BY LoadVarSound DEF Quiet, Keeps
<1>. QED BY <1>1, KeptIsCalm

\* Storing a register is calm.
LEMMA CalmStore ==
    ASSUME NEW x, Quiet(x), NEW r \in PROMOTED_REGS, NEW y, y = store_var(x, r)
    PROVE  Calm(x, y) /\ Pend(y) = Pend(x)
<1>1. Keeps(x, y) /\ Pend(y) = Pend(x)
  BY StoreVarSound DEF Quiet, Keeps
<1>. QED BY <1>1, KeptIsCalm

\* Applying a part of a flag computation is calm.
LEMMA CalmFlags ==
    ASSUME NEW x, Quiet(x), NEW part, NEW t, NEW mark, NEW y, y = Flags(x, part, t, mark)
    PROVE  Calm(x, y)
<1>1. Keeps(x, y) /\ Pend(y) = Pend(x)
  BY FlagsSound DEF Quiet
<1>. QED BY <1>1, KeptIsCalm

\* So is update_nz_now.
LEMMA CalmNz ==
    ASSUME NEW x, Quiet(x), NEW t, NEW y, y = update_nz_now(x, t) \/ y = emit_deferred_nz(x, t)
    PROVE  Calm(x, y) /\ Pend(y) = Pend(x)
<1>1. Keeps(x, y) /\ Pend(y) = Pend(x)
  BY NzNowSound DEF Quiet
<1>. QED BY <1>1, KeptIsCalm

\* So is a change of the counters that only steer later decisions.
LEMMA CalmBook ==
    ASSUME NEW x, Quiet(x), NEW y, NEW v,
           \/ y = [x EXCEPT !.eunz_current = v]
           \/ y = [x EXCEPT !.defer_hazard_sites = v]
           \/ y = [x EXCEPT !.pending_cycles = v]
    PROVE  Calm(x, y) /\ Regs(y) = Regs(x) /\ Pend(y) = Pend(x)
<1>1. Keeps(x, y) /\ Regs(y) = Regs(x) /\ Pend(y) = Pend(x)
  BY BookSound DEF Quiet, Keeps
<1>. QED BY <1>1, KeptIsCalm

\* So is a change of valid and dirty that keeps dirty within valid.
LEMMA CalmRegs ==
    ASSUME NEW x, Quiet(x), NEW y,
           y = [x EXCEPT !.valid = y.valid, !.dirty = y.dirty],
           y.valid \subseteq PROMOTED_REGS, y.dirty \subseteq y.valid
    PROVE  Calm(x, y) /\ Pend(y) = Pend(x)
<1>1. Keeps(x, y) /\ Pend(y) = Pend(x)
  BY RegsSound DEF Quiet, Keeps
<1>. QED BY <1>1, KeptIsCalm

\* So is a flush, after which nothing is pending.
LEMMA CalmFlush ==
    ASSUME NEW x, Quiet(x), NEW dead,
           NEW y, y = flush_eliding(x, dead) \/ y = flush_pending_flags(x)
    PROVE  Calm(x, y) /\ y.pending = None
<1>1. \E d : y = flush_eliding(x, d)
  BY DEF flush_pending_flags
<1>2. Keeps(x, y) /\ PendingOk(y) /\ y.pending = None
  BY <1>1, FlushSound DEF Quiet
<1>. QED BY <1>2 DEF Calm, Quiet, Keeps, Frame

\* The full flush.
LEMMA CalmFlushPending ==
    ASSUME NEW x, Quiet(x), NEW y, y = flush_pending_flags(x)
    PROVE  Calm(x, y) /\ y.pending = None
BY CalmFlush

\* A read of SR.
LEMMA CalmLoadSr ==
    ASSUME NEW x, Quiet(x), NEW tr, NEW y, y = load_sr(x, tr)
    PROVE  Calm(x, y) /\ y.pending = None
BY LoadSrSound DEF Calm, Keeps

\* A write of SR.
LEMMA CalmStoreSr ==
    ASSUME NEW x, Quiet(x), NEW y, y = store_sr(x)
    PROVE  Calm(x, y) /\ y.pending = None
BY StoreSrSound DEF Calm, Keeps

\* A new pending computation.
LEMMA CalmSetPending ==
    ASSUME NEW x, Quiet(x), NEW k \in DOMAIN Parts, NEW t \in Nat \ {0},
           NEW y, y = set_pending(x, k, t)
    PROVE  Calm(x, y)
BY SetPendingSound DEF Calm, Keeps

\* Storing registers to memory changes no bookkeeping.
LEMMA CalmStoreRegs ==
    ASSUME NEW x, Quiet(x), NEW regs, NEW y, y = Store(x, regs)
    PROVE  Calm(x, y) /\ Regs(y) = Regs(x) /\ Pend(y) = Pend(x)
<1>1. y = x \/ y = Emit(x, [op |-> "store", regs |-> regs])
  BY DEF Store
<1>2. CASE y = x
  BY <1>2 DEF Calm
<1>3. CASE y = Emit(x, [op |-> "store", regs |-> regs])
  BY <1>3, CalmWrite
<1>. QED BY <1>1, <1>2, <1>3

\* flush_reg.
LEMMA CalmFlushReg ==
    ASSUME NEW x, Quiet(x), NEW r, NEW y, y = flush_reg(x, r)
    PROVE  Calm(x, y) /\ Regs(y) = Regs(x) /\ Pend(y) = Pend(x)
BY CalmStoreRegs DEF flush_reg

\* flush_reg followed by clearing the dirty bit.
LEMMA CalmClean ==
    ASSUME NEW x, Quiet(x), NEW r, NEW y, y = [flush_reg(x, r) EXCEPT !.dirty = @ \ {r}]
    PROVE  Calm(x, y) /\ Pend(y) = Pend(x)
<1>. DEFINE a == flush_reg(x, r)
<1>1. Calm(x, a) /\ Regs(a) = Regs(x) /\ Pend(a) = Pend(x)
  BY CalmFlushReg
<1>2. y = [a EXCEPT !.dirty = @ \ {r}]
  OBVIOUS
<1>. HIDE DEF a
<1>3. /\ y = [a EXCEPT !.valid = y.valid, !.dirty = y.dirty]
      /\ y.valid = a.valid /\ y.dirty = a.dirty \ {r}
  BY <1>1, <1>2 DEF Calm, Quiet, Core, Fields
<1>4. y.valid \subseteq PROMOTED_REGS /\ y.dirty \subseteq y.valid /\ Quiet(a)
  BY <1>1, <1>3 DEF Calm, Quiet, Core
<1>5. Calm(a, y) /\ Pend(y) = Pend(a)
  BY <1>3, <1>4, CalmRegs, ZenonT(60)
<1>. QED BY <1>1, <1>5, CalmTransitive

\* flush_promoted leaves no variable newer than memory.
LEMMA CalmFlushPromoted ==
    ASSUME NEW x, Quiet(x), NEW y, y = flush_promoted(x)
    PROVE  Calm(x, y) /\ Pend(y) = Pend(x) /\ y.dirty = {} /\ y.valid = x.valid
<1>. DEFINE a == Store(x, x.dirty)
<1>1. Calm(x, a) /\ Regs(a) = Regs(x) /\ Pend(a) = Pend(x)
  BY CalmStoreRegs
<1>2. y = [a EXCEPT !.dirty = {}]
  BY DEF flush_promoted
<1>. HIDE DEF a
<1>3. /\ y = [a EXCEPT !.valid = y.valid, !.dirty = y.dirty]
      /\ y.valid = a.valid /\ y.dirty = {}
  BY <1>1, <1>2 DEF Calm, Quiet, Core, Fields
<1>4. y.valid \subseteq PROMOTED_REGS /\ y.dirty \subseteq y.valid /\ Quiet(a)
  BY <1>1, <1>3 DEF Calm, Quiet, Core
<1>5. Calm(a, y) /\ Pend(y) = Pend(a)
  BY <1>3, <1>4, CalmRegs
<1>. QED BY <1>1, <1>3, <1>5, CalmTransitive DEF Regs

\* flush_all_to_memory.
LEMMA CalmFlushAll ==
    ASSUME NEW x, Quiet(x), NEW y, y = flush_all_to_memory(x)
    PROVE  Calm(x, y) /\ Pend(y) = Pend(x)
<1>. DEFINE a == Store(x, x.dirty)
<1>1. Calm(x, a) /\ Pend(a) = Pend(x)
  BY CalmStoreRegs
<1>2. PICK v : y = [a EXCEPT !.defer_hazard_sites = v]
  BY DEF flush_all_to_memory
<1>. HIDE DEF a
<1>3. Calm(a, y) /\ Pend(y) = Pend(a)
  BY <1>1, <1>2, CalmBook DEF Calm
<1>. QED BY <1>1, <1>3, CalmTransitive

\* flush_pending_cycles.
LEMMA CalmCycles ==
    ASSUME NEW x, Quiet(x), NEW y, y = flush_pending_cycles(x)
    PROVE  Calm(x, y) /\ Pend(y) = Pend(x) /\ Regs(y) = Regs(x)
<1>. DEFINE a == Emit(x, [op |-> "cycles", n |-> x.pending_cycles])
<1>1. Calm(x, a) /\ Pend(a) = Pend(x) /\ Regs(a) = Regs(x)
  BY CalmWrite
<1>2. y = x \/ y = [a EXCEPT !.pending_cycles = 0]
  BY DEF flush_pending_cycles
<1>. HIDE DEF a
<1>3. CASE y = x
  BY <1>3 DEF Calm
<1>4. CASE y = [a EXCEPT !.pending_cycles = 0]
  <2>1. Calm(a, y) /\ Pend(y) = Pend(a) /\ Regs(y) = Regs(a)
    BY <1>1, <1>4, CalmBook DEF Calm
  <2>. QED BY <1>1, <2>1, CalmTransitive
<1>. QED BY <1>2, <1>3, <1>4

\* Counting cycles.
LEMMA CalmSetCycles ==
    ASSUME NEW x, Quiet(x), NEW n, NEW y, y = set_cycles(x, n)
    PROVE  Calm(x, y) /\ Pend(y) = Pend(x)
<1>1. PICK v : y = [x EXCEPT !.pending_cycles = v]
  BY DEF set_cycles
<1>. QED BY <1>1, CalmBook

\* refresh_promoted_reg.
LEMMA CalmRefresh ==
    ASSUME NEW x, Quiet(x), NEW r \in PROMOTED_REGS, NEW y, y = refresh_promoted_reg(x, r)
    PROVE  Calm(x, y) /\ Pend(y) = Pend(x)
<1>. DEFINE a == Emit(x, [op |-> "load", r |-> r])
<1>1. Calm(x, a) /\ Pend(a) = Pend(x)
  BY CalmWrite
<1>2. y = [a EXCEPT !.valid = @ \cup {r}, !.dirty = @ \ {r}]
  BY DEF refresh_promoted_reg
<1>. HIDE DEF a
<1>3. /\ y = [a EXCEPT !.valid = y.valid, !.dirty = y.dirty]
      /\ y.valid = a.valid \cup {r} /\ y.dirty = a.dirty \ {r}
  BY <1>1, <1>2 DEF Calm, Quiet, Core, Fields
<1>4. y.valid \subseteq PROMOTED_REGS /\ y.dirty \subseteq y.valid /\ Quiet(a)
  BY <1>1, <1>3 DEF Calm, Quiet, Core
<1>5. Calm(a, y) /\ Pend(y) = Pend(a)
  BY <1>3, <1>4, CalmRegs
<1>. QED BY <1>1, <1>5, CalmTransitive

\* invalidate_promoted.
LEMMA CalmInvalidate ==
    ASSUME NEW x, Quiet(x), NEW y, y = invalidate_promoted(x)
    PROVE  Calm(x, y) /\ Pend(y) = Pend(x)
<1>1. PICK f : /\ DOMAIN f = DOMAIN x.scopes /\ f = [i \in DOMAIN f |-> f[i]]
               /\ y = [x EXCEPT !.valid = {}, !.dirty = {}, !.scopes = f]
  <2>. DEFINE f == [i \in DOMAIN x.scopes |-> [x.scopes[i] EXCEPT !.entry = PROMOTED_REGS]]
  <2>1. DOMAIN f = DOMAIN x.scopes /\ f = [i \in DOMAIN f |-> f[i]]
    OBVIOUS
  <2>2. y = [x EXCEPT !.valid = {}, !.dirty = {}, !.scopes = f]
    BY DEF invalidate_promoted, Quiet, Core, Fields
  <2>. QED BY <2>1, <2>2
<1>2. IsSeq(f) /\ Len(f) = Len(x.scopes)
  <2>1. DOMAIN x.scopes = 1 .. Len(x.scopes) /\ Len(x.scopes) \in Nat
    BY DEF IsSeq, Quiet, Core
  <2>. DEFINE S == {f[i] : i \in DOMAIN f}
  <2>2. f \in [1 .. Len(x.scopes) -> S]
    BY <1>1, <2>1
  <2>. HIDE DEF S
  <2>3. f \in Seq(S) /\ Len(f) = Len(x.scopes)
    BY <2>1, <2>2
  <2>. QED BY <2>3 DEF IsSeq
<1>3. /\ DOMAIN y = Fields /\ y.code = x.code /\ y.cur = x.cur /\ y.base = x.base
      /\ y.arms = x.arms /\ y.valid = {} /\ y.dirty = {} /\ y.scopes = f
      /\ y.pending = x.pending /\ y.pending_sm_marker = x.pending_sm_marker
      /\ y.slot = x.slot /\ y.cond_keep_flags = x.cond_keep_flags
      /\ y.cond_depth = x.cond_depth /\ y.panic = x.panic /\ y.open = x.open
      /\ y.prog = x.prog
  BY <1>1 DEF Quiet, Core, Fields
<1>4. Core(y)
  BY <1>2, <1>3 DEF Core, Quiet
<1>5. Keeps(x, y) /\ Pend(y) = Pend(x)
  BY <1>2, <1>3, <1>4 DEF Frame, Place, Pend, Keeps
<1>. QED BY <1>5, KeptIsCalm

-------------------------------------------------------------------------------
(* Blocks.                                                                 *)

\* Continuing in another block.
LEMMA SwitchSound ==
    ASSUME NEW x, Core(x), NEW b \in 1 .. Len(x.code), NEW y, y = switch_to_block(x, b)
    PROVE  /\ Core(y) /\ Frame(y) = Frame(x) /\ Pend(y) = Pend(x) /\ Regs(y) = Regs(x)
           /\ y.base = x.base /\ Len(y.code) = Len(x.code) /\ y.cur = b
<1>1. /\ DOMAIN y = Fields /\ y.code = x.code /\ y.cur = b /\ y.base = x.base
      /\ y.arms = x.arms /\ y.valid = x.valid /\ y.dirty = x.dirty /\ y.scopes = x.scopes
      /\ y.pending = x.pending /\ y.pending_sm_marker = x.pending_sm_marker
      /\ y.slot = x.slot /\ y.cond_keep_flags = x.cond_keep_flags
      /\ y.cond_depth = x.cond_depth /\ y.panic = x.panic /\ y.open = x.open
      /\ y.prog = x.prog
  BY DEF switch_to_block, Core, Fields
<1>2. Core(y)
  BY <1>1 DEF Core
<1>. QED BY <1>1, <1>2 DEF Frame, Regs, Pend

\* New, empty blocks.
LEMMA CreateSound ==
    ASSUME NEW x, Core(x), NEW n \in Nat, NEW y, y = create_blocks(x, n)
    PROVE  /\ Core(y) /\ Frame(y) = Frame(x) /\ Pend(y) = Pend(x) /\ Regs(y) = Regs(x)
           /\ y.base = Len(x.code) /\ Len(y.code) = Len(x.code) + n /\ y.cur = x.cur
           /\ Len(x.code) \in Nat
<1>. DEFINE d == [i \in 1 .. n |-> [ops |-> <<>>, term |-> <<"none">>]]
            c == x.code \o d
<1>1. IsSeq(d) /\ Len(d) = n
  <2>1. d \in Seq({[ops |-> <<>>, term |-> <<"none">>]}) /\ Len(d) = n
    OBVIOUS
  <2>. QED BY <2>1 DEF IsSeq
<1>2. y = [x EXCEPT !.code = c, !.base = Len(x.code)]
  BY DEF create_blocks, Core, Fields
<1>. HIDE DEF d
<1>3. IsSeq(c) /\ Len(c) = Len(x.code) + n /\ Len(x.code) \in Nat
  BY <1>1, SeqConcat DEF Core
<1>. HIDE DEF c
<1>4. /\ DOMAIN y = Fields /\ y.code = c /\ y.cur = x.cur /\ y.base = Len(x.code)
      /\ y.arms = x.arms /\ y.valid = x.valid /\ y.dirty = x.dirty /\ y.scopes = x.scopes
      /\ y.pending = x.pending /\ y.pending_sm_marker = x.pending_sm_marker
      /\ y.slot = x.slot /\ y.cond_keep_flags = x.cond_keep_flags
      /\ y.cond_depth = x.cond_depth /\ y.panic = x.panic /\ y.open = x.open
      /\ y.prog = x.prog
  BY <1>2 DEF Core, Fields
<1>5. Core(y)
  <2>1. y.cur \in 1 .. Len(y.code)
    BY <1>3, <1>4 DEF Core
  <2>. QED BY <1>3, <1>4, <2>1 DEF Core
<1>. QED BY <1>3, <1>4, <1>5 DEF Frame, Regs, Pend

\* A branch to new blocks.
LEMMA ForkSound ==
    ASSUME NEW x, Core(x), NEW n \in Nat, NEW on, NEW i, NEW j, NEW y, y = Fork(x, n, on, i, j)
    PROVE  /\ Core(y) /\ Frame(y) = Frame(x) /\ Pend(y) = Pend(x) /\ Regs(y) = Regs(x)
           /\ y.base = Len(x.code) /\ Len(y.code) = Len(x.code) + n /\ Len(x.code) \in Nat
<1>. DEFINE a == create_blocks(x, n)
<1>1. /\ Core(a) /\ Frame(a) = Frame(x) /\ Pend(a) = Pend(x) /\ Regs(a) = Regs(x)
      /\ a.base = Len(x.code) /\ Len(a.code) = Len(x.code) + n /\ Len(x.code) \in Nat
  BY CreateSound
<1>2. \E term : y = End(a, term)
  BY DEF Fork
<1>. HIDE DEF a
<1>3. /\ Core(y) /\ Frame(y) = Frame(a) /\ Pend(y) = Pend(a) /\ Regs(y) = Regs(a)
      /\ Place(y) = Place(a)
  BY <1>1, <1>2, WriteSound
<1>. QED BY <1>1, <1>3 DEF Place

\* Fork and continue in the k-th of the new blocks.
LEMMA ForkBlockSound ==
    ASSUME NEW x, Core(x), NEW n \in Nat, NEW k \in 1 .. n, NEW on, NEW i, NEW j,
           NEW y, y = Block(Fork(x, n, on, i, j), k)
    PROVE  /\ Core(y) /\ Frame(y) = Frame(x) /\ Pend(y) = Pend(x) /\ Regs(y) = Regs(x)
           /\ y.base = Len(x.code) /\ Len(y.code) = Len(x.code) + n /\ Len(x.code) \in Nat
<1>. DEFINE a == Fork(x, n, on, i, j)
<1>1. /\ Core(a) /\ Frame(a) = Frame(x) /\ Pend(a) = Pend(x) /\ Regs(a) = Regs(x)
      /\ a.base = Len(x.code) /\ Len(a.code) = Len(x.code) + n /\ Len(x.code) \in Nat
  BY ForkSound
<1>2. y = switch_to_block(a, a.base + k)
  BY DEF Block
<1>. HIDE DEF a
<1>3. a.base + k \in 1 .. Len(a.code)
  BY <1>1
<1>. QED BY <1>1, <1>2, <1>3, SwitchSound

\* Jump to the k-th of the newest blocks, and continue in the m-th.
LEMMA JumpBlockSound ==
    ASSUME NEW x, Core(x), NEW k, NEW m \in Nat \ {0}, x.base + m <= Len(x.code),
           NEW y, y = Block(Jump(x, k), m)
    PROVE  /\ Core(y) /\ Frame(y) = Frame(x) /\ Pend(y) = Pend(x) /\ Regs(y) = Regs(x)
           /\ y.base = x.base /\ Len(y.code) = Len(x.code)
<1>. DEFINE a == Jump(x, k)
<1>1. Core(a) /\ Frame(a) = Frame(x) /\ Pend(a) = Pend(x) /\ Regs(a) = Regs(x)
      /\ Place(a) = Place(x)
  BY WriteSound DEF Jump
<1>2. y = switch_to_block(a, a.base + m)
  BY DEF Block
<1>. HIDE DEF a
<1>3. a.base = x.base /\ Len(a.code) = Len(x.code)
  BY <1>1 DEF Place
<1>4. a.base \in Nat /\ Len(a.code) \in Nat
  BY <1>1, SeqUpdate DEF Core
<1>5. a.base + m \in 1 .. Len(a.code)
  BY <1>3, <1>4
<1>. QED BY <1>1, <1>2, <1>3, <1>5, SwitchSound

-------------------------------------------------------------------------------
(* Conditional regions.                                                    *)

\* What a conditional region leaves alone.
Outer(x) == <<Len(x.scopes), x.open, x.prog, x.slot, x.cond_keep_flags>>

\* Opening a region: the state saved for its arms is itself sound, and a
\* region that records modifications starts with nothing dirty.
LEMMA EnterSound ==
    ASSUME NEW x, Core(x), NEW rec \in BOOLEAN, rec => x.dirty = {},
           NEW y, y = EnterArms(x, rec)
    PROVE  /\ Core(y) /\ Outer(y) = Outer(x) /\ Place(y) = Place(x) /\ Pend(y) = Pend(x)
           /\ Regs(y) = Regs(x) /\ Front(y.arms) = x.arms /\ Len(y.arms) > 0
<1>. DEFINE a == [record |-> rec, dirty |-> x.dirty, valid |-> x.valid, modified |-> {}]
            c == Append(x.arms, a)
<1>1. ArmOk(a)
  BY DEF ArmOk, Core
<1>2. y = [x EXCEPT !.cond_depth = @ + 1, !.arms = c]
  BY DEF EnterArms, Core, Fields
<1>. HIDE DEF a
<1>3. /\ IsSeq(c) /\ Len(c) = Len(x.arms) + 1 /\ Len(x.arms) \in Nat /\ Front(c) = x.arms
      /\ \A k \in 1 .. Len(x.arms) : c[k] = x.arms[k]
      /\ c[Len(x.arms) + 1] = a
  BY SeqAppend DEF Core
<1>. HIDE DEF c
<1>4. \A k \in 1 .. Len(c) : ArmOk(c[k])
  <2>. TAKE k \in 1 .. Len(c)
  <2>1. k = Len(x.arms) + 1 \/ k \in 1 .. Len(x.arms)
    BY <1>3
  <2>. QED BY <1>1, <1>3, <2>1 DEF Core
<1>5. /\ DOMAIN y = Fields /\ y.code = x.code /\ y.cur = x.cur /\ y.base = x.base
      /\ y.arms = c /\ y.valid = x.valid /\ y.dirty = x.dirty /\ y.scopes = x.scopes
      /\ y.pending = x.pending /\ y.pending_sm_marker = x.pending_sm_marker
      /\ y.slot = x.slot /\ y.cond_keep_flags = x.cond_keep_flags
      /\ y.cond_depth = x.cond_depth + 1 /\ y.panic = x.panic /\ y.open = x.open
      /\ y.prog = x.prog
  BY <1>2 DEF Core, Fields
<1>6. Core(y)
  BY <1>3, <1>4, <1>5 DEF Core
<1>. QED BY <1>3, <1>5, <1>6 DEF Outer, Place, Regs, Pend

\* The last arm's state is back in force.
Settled(x) == Len(x.arms) > 0 /\ x.dirty = Last(x.arms).dirty

\* Storing registers to memory keeps the emitter sound.
LEMMA CoreStore ==
    ASSUME NEW x, Core(x), NEW regs, NEW y, y = Store(x, regs)
    PROVE  Keeps(x, y) /\ Regs(y) = Regs(x) /\ Pend(y) = Pend(x)
<1>1. y = x \/ y = Emit(x, [op |-> "store", regs |-> regs])
  BY DEF Store
<1>2. CASE y = x
  BY <1>2 DEF Keeps
<1>3. CASE y = Emit(x, [op |-> "store", regs |-> regs])
  BY <1>3, WriteSound DEF Keeps
<1>. QED BY <1>1, <1>2, <1>3

\* RestoreArm: what an arm modified is disjoint from what was dirty before it.
LEMMA RestoreSound ==
    ASSUME NEW x, Core(x), Len(x.arms) > 0, NEW y, y = RestoreArm(x, Last(x.arms))
    PROVE  /\ Core(y) /\ Outer(y) = Outer(x) /\ Place(y) = Place(x) /\ Pend(y) = Pend(x)
           /\ Front(y.arms) = Front(x.arms) /\ Settled(y)
<1>. DEFINE n == Len(x.arms)
            cs == x.arms[n]
            s0 == Store(x, x.dirty \ cs.dirty)
            m == cs.modified \cup ArmModified(x, cs)
            a == [cs EXCEPT !.modified = m]
            c == [x.arms EXCEPT ![n] = a]
<1>1. n \in Nat /\ n \in 1 .. n /\ Last(x.arms) = cs /\ DOMAIN x.arms = 1 .. n
  <2>1. n \in Nat /\ DOMAIN x.arms = 1 .. n
    BY SeqUpdate DEF Core
  <2>2. Last(x.arms) = cs
    BY SeqFront DEF Core
  <2>. QED BY <2>1, <2>2
<1>2. ArmOk(cs)
  BY <1>1 DEF Core
<1>3. ArmOk(a)
  <2>1. m \cap cs.dirty = {}
    BY <1>2 DEF ArmModified, ArmOk
  <2>. HIDE DEF m, cs
  <2>2. a.dirty = cs.dirty /\ a.valid = cs.valid /\ a.record = cs.record /\ a.modified = m
        /\ DOMAIN a = DOMAIN cs
    BY <1>2 DEF ArmOk
  <2>. QED BY <1>2, <2>1, <2>2 DEF ArmOk
<1>4. Keeps(x, s0) /\ Regs(s0) = Regs(x) /\ Pend(s0) = Pend(x)
  BY CoreStore
<1>5. y = [s0 EXCEPT !.dirty = cs.dirty, !.valid = cs.valid, !.arms = c]
  <2>1. y = [s0 EXCEPT !.dirty = cs.dirty, !.valid = cs.valid,
                       !.arms[Len(x.arms)].modified = @ \cup ArmModified(x, cs)]
    BY <1>1 DEF RestoreArm
  <2>2. s0.arms = x.arms /\ DOMAIN s0 = Fields
    BY <1>4 DEF Keeps, Frame, Core
  <2>3. s0.arms[n] = cs
    BY <2>2
  <2>. HIDE DEF s0, cs
  <2>. QED BY <1>1, <2>1, <2>2, <2>3 DEF Fields
<1>. HIDE DEF a
<1>6. IsSeq(c) /\ Len(c) = n /\ c[n] = a /\ \A k \in 1 .. n : k # n => c[k] = x.arms[k]
  BY <1>1, SeqUpdate DEF Core
<1>. HIDE DEF c
<1>7. \A k \in 1 .. Len(c) : ArmOk(c[k])
  BY <1>1, <1>3, <1>6 DEF Core
<1>8. Front(c) = Front(x.arms) /\ Last(c) = a
  <2>1. IsSeq(Front(c)) /\ Len(Front(c)) = n - 1 /\ Last(c) = a
        /\ \A k \in 1 .. n - 1 : Front(c)[k] = c[k]
    BY <1>1, <1>6, SeqFront
  <2>2. IsSeq(Front(x.arms)) /\ Len(Front(x.arms)) = n - 1
        /\ \A k \in 1 .. n - 1 : Front(x.arms)[k] = x.arms[k]
    BY <1>1, SeqFront DEF Core
  <2>3. \A k \in 1 .. n - 1 : Front(c)[k] = Front(x.arms)[k]
    BY <1>1, <1>6, <2>1, <2>2
  <2>4. PICK S : Front(c) \in Seq(S)
    BY <2>1 DEF IsSeq
  <2>5. PICK T : Front(x.arms) \in Seq(T)
    BY <2>2 DEF IsSeq
  <2>. HIDE DEF n
  <2>6. Front(c) = Front(x.arms)
    BY <1>1, <2>1, <2>2, <2>3, <2>4, <2>5
  <2>. QED BY <2>1, <2>6
<1>9. /\ DOMAIN y = Fields /\ y.code = s0.code /\ y.cur = s0.cur /\ y.base = s0.base
      /\ y.arms = c /\ y.valid = cs.valid /\ y.dirty = cs.dirty /\ y.scopes = s0.scopes
      /\ y.pending = s0.pending /\ y.pending_sm_marker = s0.pending_sm_marker
      /\ y.slot = s0.slot /\ y.cond_keep_flags = s0.cond_keep_flags
      /\ y.cond_depth = s0.cond_depth /\ y.panic = s0.panic /\ y.open = s0.open
      /\ y.prog = s0.prog
  <2>. HIDE DEF s0, cs
  <2>. QED BY <1>4, <1>5 DEF Keeps, Core, Fields
<1>10. s0.cond_depth = n /\ Core(s0)
  <2>1. s0.cond_depth = x.cond_depth /\ Core(s0)
    BY <1>4 DEF Keeps, Frame
  <2>. QED BY <2>1 DEF Core
<1>11. a.dirty = cs.dirty
  BY <1>2 DEF a, ArmOk
<1>12. s0.slot = x.slot /\ s0.open = x.open /\ s0.prog = x.prog /\ Len(s0.scopes) = Len(x.scopes)
       /\ s0.cond_keep_flags = x.cond_keep_flags /\ s0.base = x.base /\ s0.cur = x.cur
       /\ Len(s0.code) = Len(x.code) /\ s0.pending = x.pending
       /\ s0.pending_sm_marker = x.pending_sm_marker
  <2>. HIDE DEF s0
  <2>. QED BY <1>4 DEF Keeps, Frame, Place, Pend
<1>. HIDE DEF s0, cs, n
<1>13. Core(y)
  BY <1>2, <1>6, <1>7, <1>9, <1>10 DEF Core, ArmOk
<1>14. Settled(y)
  BY <1>1, <1>6, <1>8, <1>9, <1>11 DEF Settled, n
<1>. QED BY <1>8, <1>9, <1>12, <1>13, <1>14 DEF Outer, Place, Pend

\* merge_conditional may drop what the arms modified from valid: none of it
\* is dirty.
LEMMA MergeSound ==
    ASSUME NEW x, Core(x), Settled(x), NEW y, y = merge_conditional(x)
    PROVE  /\ Core(y) /\ Outer(y) = Outer(x) /\ Place(y) = Place(x) /\ Pend(y) = Pend(x)
           /\ y.arms = Front(x.arms)
<1>. DEFINE n == Len(x.arms)
            last == Last(x.arms)
            f == Front(x.arms)
<1>1. /\ IsSeq(f) /\ Len(f) = n - 1 /\ n \in Nat /\ n > 0 /\ last = x.arms[n]
      /\ \A k \in 1 .. n - 1 : f[k] = x.arms[k]
  BY SeqFront DEF Core, Settled
<1>2. ArmOk(last) /\ \A k \in 1 .. n - 1 : ArmOk(f[k])
  BY <1>1 DEF Core
<1>3. PICK b : y = [x EXCEPT !.cond_depth = @ - 1, !.arms = f, !.valid = @ \ last.modified,
                             !.scopes = [x.scopes EXCEPT ![Len(x.scopes)] = b]]
  BY DEF merge_conditional, Core, Fields
<1>. DEFINE c == [x.scopes EXCEPT ![Len(x.scopes)] = b]
<1>4. IsSeq(c) /\ Len(c) = Len(x.scopes)
  BY SeqUpdate DEF Core
<1>. HIDE DEF c, f, last
<1>5. /\ DOMAIN y = Fields /\ y.code = x.code /\ y.cur = x.cur /\ y.base = x.base
      /\ y.arms = f /\ y.valid = x.valid \ last.modified /\ y.dirty = x.dirty /\ y.scopes = c
      /\ y.pending = x.pending /\ y.pending_sm_marker = x.pending_sm_marker
      /\ y.slot = x.slot /\ y.cond_keep_flags = x.cond_keep_flags
      /\ y.cond_depth = x.cond_depth - 1 /\ y.panic = x.panic /\ y.open = x.open
      /\ y.prog = x.prog
  BY <1>3 DEF c, Core, Fields
<1>6. x.dirty \cap last.modified = {}
  BY <1>2 DEF Settled, ArmOk, last
<1>. HIDE DEF n
<1>7. Core(y)
  BY <1>1, <1>2, <1>4, <1>5, <1>6 DEF Core, n
<1>. QED BY <1>4, <1>5, <1>7 DEF Outer, Place, Pend, f

-------------------------------------------------------------------------------
(* Instructions.  A straight-line one stays in its block; an arm leaves it. *)

\* A guest read of a register.
LEMMA CalmSee ==
    ASSUME NEW x, Quiet(x), NEW r \in PROMOTED_REGS, NEW y, y = See(x, r)
    PROVE  Calm(x, y) /\ Pend(y) = Pend(x)
<1>. DEFINE a == load_var(x, r)
<1>1. Calm(x, a) /\ Pend(a) = Pend(x)
  BY CalmLoad
<1>2. y = Emit(a, [op |-> "see", r |-> r])
  BY DEF See
<1>. HIDE DEF a
<1>3. Calm(a, y) /\ Pend(y) = Pend(a)
  BY <1>1, <1>2, CalmWrite DEF Calm
<1>. QED BY <1>1, <1>3, CalmTransitive

\* A condition test.
LEMMA CalmTest ==
    ASSUME NEW x, Quiet(x), NEW cc, NEW y, y = Test(x, cc)
    PROVE  Calm(x, y) /\ y.pending = None
<1>. DEFINE a == load_sr(x, cc = "cs")
<1>1. Calm(x, a) /\ a.pending = None
  BY CalmLoadSr
<1>2. y = Emit(a, [op |-> "test", cc |-> cc])
  BY DEF Test
<1>. HIDE DEF a
<1>3. Calm(a, y) /\ Pend(y) = Pend(a)
  BY <1>1, <1>2, CalmWrite DEF Calm
<1>. QED BY <1>1, <1>3, CalmTransitive DEF Pend

\* emit_saturate_sm.
LEMMA CalmSaturate ==
    ASSUME NEW x, Quiet(x), NEW t, NEW y, y = emit_saturate_sm(x, t)
    PROVE  Calm(x, y)
<1>. DEFINE a == [flush_reg(x, "SR") EXCEPT !.dirty = @ \ {"SR"}]
<1>1. Calm(x, a)
  BY CalmClean
<1>2. y = Emit(a, [op |-> "sat", t |-> t])
  BY DEF emit_saturate_sm
<1>. HIDE DEF a
<1>3. Calm(a, y)
  BY <1>1, <1>2, CalmWrite DEF Calm
<1>. QED BY <1>1, <1>3, CalmTransitive

\* An emission followed by the store of the register it computes.
LEMMA CalmPut ==
    ASSUME NEW x, Quiet(x), NEW o, NEW r \in PROMOTED_REGS,
           NEW y, y = store_var(Emit(x, o), r)
    PROVE  Calm(x, y) /\ Pend(y) = Pend(x)
<1>. DEFINE a == Emit(x, o)
<1>1. Calm(x, a) /\ Pend(a) = Pend(x)
  BY CalmWrite
<1>2. y = store_var(a, r)
  OBVIOUS
<1>. HIDE DEF a
<1>3. Calm(a, y) /\ Pend(y) = Pend(a)
  BY <1>1, <1>2, CalmStore DEF Calm
<1>. QED BY <1>1, <1>3, CalmTransitive

\* What an instruction may do: the block may change and a slot be taken, the
\* nesting stays.
Nest(x) == <<Len(x.scopes), x.arms, x.open, x.prog, x.cond_depth>>
Goes(x, y) == /\ Quiet(y) /\ Nest(y) = Nest(x) /\ Len(y.code) >= Len(x.code)
              /\ y.slot = x.slot

\* A calm step is one an instruction may take.
LEMMA CalmGoes ==
    ASSUME NEW x, NEW y, Calm(x, y)
    PROVE  Goes(x, y)
<1>1. Len(y.code) \in Nat
  BY SeqUpdate DEF Calm, Quiet, Core
<1>. QED BY <1>1 DEF Calm, Goes, Frame, Place, Nest

\* Such steps compose.
LEMMA GoesTransitive ==
    ASSUME NEW x, NEW y, NEW z, Quiet(x), Goes(x, y), Goes(y, z)
    PROVE  Goes(x, z)
<1>1. Len(x.code) \in Nat /\ Len(y.code) \in Nat /\ Len(z.code) \in Nat
  BY SeqUpdate DEF Goes, Quiet, Core
<1>. QED BY <1>1 DEF Goes

AluKindsOk == \A i \in DOMAIN AluOps : AluOps[i].kind \in DOMAIN Parts
\* Every data operation defers a kind that a flush knows.
LEMMA AluKinds == AluKindsOk
<1>. SUFFICES ASSUME NEW i \in DOMAIN AluOps PROVE AluOps[i].kind \in DOMAIN Parts
  BY DEF AluKindsOk
<1>1. i \in {"add", "cmp", "asl", "tst", "ext", "or"}
  BY DEF AluOps
<1>2. AluOps[i].kind \in {"AluAddSub", "NzSm", "NzClearV", "NzOnly", "Logical"}
  BY <1>1 DEF AluOps
<1>. QED BY <1>2 DEF Parts

\* The data operations take one slot.
LEMMA AluSound ==
    ASSUME NEW x, Quiet(x), NEW i \in DOMAIN AluOps, NEW y, y = EmitAlu(x, i)
    PROVE  Quiet(y) /\ Nest(y) = Nest(x) /\ Place(y) = Place(x) /\ y.slot = x.slot + 1
<1>. DEFINE op == AluOps[i]
            t == x.slot + 1
            x0 == [x EXCEPT !.slot = t]
            x1 == load_var(x0, "A")
            x2 == Emit(x1, [op |-> "alu", i |-> i, t |-> t])
            x3a == load_sr(x2, TRUE)
            x3 == IF op.early THEN Flags(x3a, "vcl", t, 0) ELSE x2
            x4 == IF op.sat THEN emit_saturate_sm(x3, t) ELSE x3
            x5 == IF op.put THEN store_var(Emit(x4, [op |-> "put", t |-> t]), "A") ELSE x4
<1>0. "A" \in PROMOTED_REGS /\ t \in Nat \ {0} /\ op.kind \in DOMAIN Parts
  BY AluKinds DEF PROMOTED_REGS, Quiet, Core, AluKindsOk
<1>1. y = set_pending(x5, op.kind, t)
  BY DEF EmitAlu
<1>2. Quiet(x0) /\ Nest(x0) = Nest(x) /\ Place(x0) = Place(x) /\ x0.slot = t
  <2>1. /\ DOMAIN x0 = Fields /\ x0.code = x.code /\ x0.cur = x.cur /\ x0.base = x.base
        /\ x0.arms = x.arms /\ x0.valid = x.valid /\ x0.dirty = x.dirty
        /\ x0.scopes = x.scopes
        /\ x0.pending = x.pending /\ x0.pending_sm_marker = x.pending_sm_marker
        /\ x0.slot = t /\ x0.cond_keep_flags = x.cond_keep_flags
        /\ x0.cond_depth = x.cond_depth /\ x0.panic = x.panic /\ x0.open = x.open
        /\ x0.prog = x.prog
    BY DEF Quiet, Core, Fields
  <2>. HIDE DEF x0, t
  <2>2. Core(x0)
    BY <1>0, <2>1 DEF Core, Quiet
  <2>3. PendingOk(x0)
    BY <2>1, PendSame DEF Quiet, Pend
  <2>. QED BY <2>1, <2>2, <2>3 DEF Quiet, Nest, Place
<1>. HIDE DEF x0, t, op
<1>3. Calm(x0, x1)
  BY <1>0, <1>2, CalmLoad
<1>. HIDE DEF x1
<1>4. Calm(x1, x2)
  BY <1>3, CalmWrite DEF Calm
<1>. HIDE DEF x2
<1>5. Calm(x2, x3)
  <2>1. Calm(x2, x3a)
    BY <1>4, CalmLoadSr DEF Calm
  <2>. HIDE DEF x3a
  <2>2. x3 = x2 \/ x3 = Flags(x3a, "vcl", t, 0)
    OBVIOUS
  <2>. HIDE DEF x3
  <2>3. CASE x3 = x2
    BY <1>4, <2>3 DEF Calm
  <2>4. CASE x3 = Flags(x3a, "vcl", t, 0)
    <3>1. Calm(x3a, x3)
      BY <2>1, <2>4, CalmFlags DEF Calm
    <3>. QED BY <2>1, <3>1, CalmTransitive
  <2>. QED BY <2>2, <2>3, <2>4
<1>. HIDE DEF x3
<1>6. Calm(x3, x4)
  <2>1. x4 = x3 \/ x4 = emit_saturate_sm(x3, t)
    OBVIOUS
  <2>. HIDE DEF x4
  <2>. QED BY <1>5, <2>1, CalmSaturate DEF Calm
<1>. HIDE DEF x4
<1>7. Calm(x4, x5)
  <2>1. x5 = x4 \/ x5 = store_var(Emit(x4, [op |-> "put", t |-> t]), "A")
    OBVIOUS
  <2>. HIDE DEF x5
  <2>. QED BY <1>0, <1>6, <2>1, CalmPut DEF Calm
<1>. HIDE DEF x5
<1>8. Calm(x5, y)
  BY <1>0, <1>1, <1>7, CalmSetPending DEF Calm
<1>9. Quiet(y) /\ Frame(y) = Frame(x0) /\ Place(y) = Place(x0)
  BY <1>3, <1>4, <1>5, <1>6, <1>7, <1>8 DEF Calm
<1>. QED BY <1>2, <1>9 DEF Frame, Nest, t

\* end_conditional_arm.
LEMMA EndArmSound ==
    ASSUME NEW x, Ok(x), Len(x.arms) > 0, NEW y, y = end_conditional_arm(x)
    PROVE  /\ Ok(y) /\ Outer(y) = Outer(x) /\ Place(y) = Place(x)
           /\ Front(y.arms) = Front(x.arms) /\ Settled(y)
<1>. DEFINE a == ArmFlushed(x)
<1>1. Keeps(x, a) /\ Ok(a)
  <2>1. CASE x.cond_keep_flags = 0
    BY <2>1, FlushFlagsSound DEF ArmFlushed
  <2>2. CASE x.cond_keep_flags # 0
    BY <2>2 DEF ArmFlushed, Keeps, Ok
  <2>. QED BY <2>1, <2>2
<1>2. a.arms = x.arms /\ Outer(a) = Outer(x) /\ Place(a) = Place(x)
  <2>. HIDE DEF a
  <2>. QED BY <1>1 DEF Keeps, Frame, Outer
<1>3. y = RestoreArm(a, Last(x.arms))
  BY DEF end_conditional_arm
<1>. HIDE DEF a
<1>4. y = RestoreArm(a, Last(a.arms)) /\ Len(a.arms) > 0 /\ Core(a)
  BY <1>1, <1>2, <1>3 DEF Ok
<1>5. /\ Core(y) /\ Outer(y) = Outer(a) /\ Place(y) = Place(a) /\ Pend(y) = Pend(a)
      /\ Front(y.arms) = Front(a.arms) /\ Settled(y)
  BY <1>4, RestoreSound
<1>6. Ok(y)
  BY <1>1, <1>5, PendSame DEF Ok
<1>. QED BY <1>2, <1>5, <1>6

\* The end of the last arm: jump to the merge block, and merge.
LEMMA ClosedArmSound ==
    ASSUME NEW x, Ok(x), Settled(x), NEW k, NEW m \in Nat \ {0}, x.base + m <= Len(x.code),
           NEW y, y = merge_conditional(Block(Jump(x, k), m))
    PROVE  /\ Ok(y) /\ Outer(y) = Outer(x) /\ y.arms = Front(x.arms)
           /\ Len(y.code) = Len(x.code) /\ y.base = x.base
<1>. DEFINE a == Block(Jump(x, k), m)
<1>1. /\ Core(a) /\ Frame(a) = Frame(x) /\ Pend(a) = Pend(x) /\ Regs(a) = Regs(x)
      /\ a.base = x.base /\ Len(a.code) = Len(x.code)
  BY JumpBlockSound DEF Ok
<1>. HIDE DEF a
<1>2. a.arms = x.arms /\ Outer(a) = Outer(x) /\ a.dirty = x.dirty
  BY <1>1 DEF Frame, Outer, Regs
<1>3. Settled(a)
  BY <1>2 DEF Settled
<1>4. y = merge_conditional(a)
  BY DEF a
<1>5. /\ Core(y) /\ Outer(y) = Outer(a) /\ Place(y) = Place(a) /\ Pend(y) = Pend(a)
      /\ y.arms = Front(a.arms)
  BY <1>1, <1>3, <1>4, MergeSound
<1>6. Ok(y)
  BY <1>1, <1>5, PendSame DEF Ok
<1>. QED BY <1>1, <1>2, <1>5, <1>6 DEF Place

\* Tcc.
LEMMA TccSound ==
    ASSUME NEW x, Quiet(x), NEW y, y = emit_tcc(x)
    PROVE  Goes(x, y)
<1>. DEFINE a1 == Test(x, "eq")
            a2 == flush_pending_flags(a1)
            a3 == EnterArms(a2, FALSE)
            a4 == Block(Fork(a3, 2, "cond", 1, 2), 1)
            a5 == load_var(a4, "R")
            a6 == store_var(Emit(a5, [op |-> "atoa"]), "A")
            a7 == end_conditional_arm(a6)
<1>0. "R" \in PROMOTED_REGS /\ "A" \in PROMOTED_REGS
  BY DEF PROMOTED_REGS
<1>1. y = merge_conditional(Block(Jump(a7, 2), 2))
  BY DEF emit_tcc, begin_conditional
<1>2. Calm(x, a1)
  BY CalmTest
<1>. HIDE DEF a1
<1>3. Calm(a1, a2)
  BY <1>2, CalmFlushPending DEF Calm
<1>. HIDE DEF a2
<1>4. Calm(x, a2)
  BY <1>2, <1>3, CalmTransitive
<1>5. Len(x.code) \in Nat
  BY SeqUpdate DEF Quiet, Core
<1>6. /\ Quiet(a3) /\ Outer(a3) = Outer(x) /\ Place(a3) = Place(x)
      /\ Front(a3.arms) = x.arms /\ Len(a3.arms) > 0
  <2>1. /\ Core(a3) /\ Outer(a3) = Outer(a2) /\ Place(a3) = Place(a2) /\ Pend(a3) = Pend(a2)
        /\ Front(a3.arms) = a2.arms /\ Len(a3.arms) > 0
    BY <1>4, EnterSound DEF Calm, Quiet
  <2>. HIDE DEF a3
  <2>2. PendingOk(a3) /\ a3.cond_keep_flags = 0
    BY <1>4, <2>1, PendSame DEF Calm, Quiet, Outer
  <2>3. Outer(a2) = Outer(x) /\ a2.arms = x.arms /\ Place(a2) = Place(x)
    BY <1>4 DEF Calm, Frame, Outer
  <2>. QED BY <2>1, <2>2, <2>3 DEF Quiet
<1>. HIDE DEF a3
<1>7. /\ Quiet(a4) /\ Frame(a4) = Frame(a3) /\ a4.base = Len(x.code)
      /\ Len(a4.code) = Len(x.code) + 2
  <2>1. /\ Core(a4) /\ Frame(a4) = Frame(a3) /\ Pend(a4) = Pend(a3)
        /\ a4.base = Len(a3.code) /\ Len(a4.code) = Len(a3.code) + 2
    BY <1>6, ForkBlockSound DEF Quiet
  <2>. HIDE DEF a4
  <2>2. Len(a3.code) = Len(x.code)
    BY <1>6 DEF Place
  <2>3. PendingOk(a4) /\ a4.cond_keep_flags = 0
    BY <1>6, <2>1, PendSame DEF Quiet, Frame
  <2>. QED BY <2>1, <2>2, <2>3 DEF Quiet
<1>. HIDE DEF a4
<1>8. Calm(a4, a5)
  BY <1>0, <1>7, CalmLoad
<1>. HIDE DEF a5
<1>9. Calm(a5, a6)
  BY <1>0, <1>8, CalmPut DEF Calm
<1>. HIDE DEF a6
<1>10. Quiet(a6) /\ Frame(a6) = Frame(a3) /\ Place(a6) = Place(a4)
  BY <1>7, <1>8, <1>9 DEF Calm
<1>11. /\ Ok(a6) /\ a6.arms = a3.arms /\ Outer(a6) = Outer(x)
       /\ a6.base = Len(x.code) /\ Len(a6.code) = Len(x.code) + 2
  BY <1>6, <1>7, <1>10 DEF Ok, Quiet, Frame, Outer, Place
<1>12. /\ Ok(a7) /\ Outer(a7) = Outer(a6) /\ Place(a7) = Place(a6)
       /\ Front(a7.arms) = Front(a6.arms) /\ Settled(a7)
  BY <1>6, <1>11, EndArmSound
<1>. HIDE DEF a7
<1>13. /\ a7.base = Len(x.code) /\ Len(a7.code) = Len(x.code) + 2
       /\ Outer(a7) = Outer(x) /\ Front(a7.arms) = x.arms
  BY <1>6, <1>11, <1>12 DEF Place
<1>14. a7.base + 2 <= Len(a7.code)
  BY <1>5, <1>13
<1>15. Ok(y) /\ Outer(y) = Outer(a7) /\ y.arms = Front(a7.arms) /\ Len(y.code) = Len(a7.code)
  BY <1>1, <1>12, <1>14, ClosedArmSound
<1>16. Ok(y) /\ Outer(y) = Outer(x) /\ y.arms = x.arms /\ Len(y.code) >= Len(x.code)
  BY <1>5, <1>13, <1>15
<1>. QED BY <1>16 DEF Goes, Quiet, Ok, Outer, Nest, Core

\* Entering and leaving a keep-flags region.
LEMMA KeepSet ==
    ASSUME NEW x, Core(x), NEW y, y = [x EXCEPT !.cond_keep_flags = y.cond_keep_flags],
           y.cond_keep_flags \in Nat
    PROVE  /\ Core(y) /\ Nest(y) = Nest(x) /\ Place(y) = Place(x) /\ Pend(y) = Pend(x)
           /\ Regs(y) = Regs(x) /\ y.slot = x.slot
<1>1. /\ DOMAIN y = Fields /\ y.code = x.code /\ y.cur = x.cur /\ y.base = x.base
      /\ y.arms = x.arms /\ y.valid = x.valid /\ y.dirty = x.dirty /\ y.scopes = x.scopes
      /\ y.pending = x.pending /\ y.pending_sm_marker = x.pending_sm_marker
      /\ y.slot = x.slot /\ y.cond_depth = x.cond_depth /\ y.panic = x.panic
      /\ y.open = x.open /\ y.prog = x.prog
  BY DEF Core, Fields
<1>2. Core(y)
  BY <1>1 DEF Core
<1>. QED BY <1>1, <1>2 DEF Nest, Place, Pend, Regs

\* refresh_promoted_reg inside a region.
LEMMA CoreRefresh ==
    ASSUME NEW x, Core(x), NEW r \in PROMOTED_REGS, NEW y, y = refresh_promoted_reg(x, r)
    PROVE  Keeps(x, y) /\ Pend(y) = Pend(x)
<1>. DEFINE a == Emit(x, [op |-> "load", r |-> r])
<1>1. Keeps(x, a) /\ Pend(a) = Pend(x)
  BY WriteSound DEF Keeps
<1>2. y = [a EXCEPT !.valid = @ \cup {r}, !.dirty = @ \ {r}]
  BY DEF refresh_promoted_reg
<1>. HIDE DEF a
<1>3. /\ y = [a EXCEPT !.valid = y.valid, !.dirty = y.dirty]
      /\ y.valid = a.valid \cup {r} /\ y.dirty = a.dirty \ {r}
  BY <1>1, <1>2 DEF Keeps, Core, Fields
<1>4. y.valid \subseteq PROMOTED_REGS /\ y.dirty \subseteq y.valid /\ Core(a)
  BY <1>1, <1>3 DEF Keeps, Core
<1>5. Keeps(a, y) /\ Pend(y) = Pend(a)
  BY <1>3, <1>4, RegsSound DEF Keeps
<1>. QED BY <1>1, <1>5, KeepsTransitive

\* In an arm that carries a pending computation: still sound, opened on top of
\* the arms of x, with the three blocks of the address update behind base.
Carrying(x, y) ==
    /\ Ok(y) /\ Len(y.arms) > 0 /\ Front(y.arms) = x.arms
    /\ Len(y.scopes) = Len(x.scopes) /\ y.open = x.open /\ y.prog = x.prog
    /\ y.slot = x.slot /\ y.cond_keep_flags = 1
    /\ y.base = Len(x.code) /\ Len(y.code) = Len(x.code) + 3

\* A step of an arm that carries the pending computation.
LEMMA CarryingKept ==
    ASSUME NEW x, NEW y, NEW z, Carrying(x, y), Keeps(y, z), Pend(z) = Pend(y)
    PROVE  Carrying(x, z)
<1>1. Ok(z)
  BY OkKept DEF Carrying
<1>. QED BY <1>1 DEF Carrying, Keeps, Frame, Place

\* The linear arm of a pointer update, up to the start of the other arm.
LEMMA RnLinearSound ==
    ASSUME NEW x, Quiet(x), NEW y, y = RnLinear(x)
    PROVE  Carrying(x, y)
<1>. DEFINE a1 == [flush_reg(x, "R") EXCEPT !.dirty = @ \ {"R"}]
            a2 == Emit(a1, [op |-> "linear"])
            a3 == [a2 EXCEPT !.cond_keep_flags = @ + 1]
            a4 == EnterArms(a3, FALSE)
            a5 == Block(Fork(a4, 3, "cond", 1, 2), 1)
            a6 == load_var(a5, "R")
            a7 == Emit(a6, [op |-> "next"])
            a8 == store_var(a7, "R")
            a9 == end_conditional_arm(a8)
<1>0. "R" \in PROMOTED_REGS /\ Len(x.code) \in Nat
  BY SeqUpdate DEF PROMOTED_REGS, Quiet, Core
<1>1. y = Block(Jump(a9, 3), 2)
  BY DEF RnLinear, begin_conditional_keep_flags
<1>2. Calm(x, a1)
  BY CalmClean
<1>. HIDE DEF a1
<1>3. Calm(x, a2)
  BY <1>2, CalmWrite, CalmTransitive DEF Calm
<1>. HIDE DEF a2
<1>4. /\ Core(a3) /\ Nest(a3) = Nest(a2) /\ Place(a3) = Place(a2) /\ Pend(a3) = Pend(a2)
      /\ a3.slot = a2.slot /\ a3.cond_keep_flags = 1
  <2>1. a3.cond_keep_flags = 1 /\ a3 = [a2 EXCEPT !.cond_keep_flags = a3.cond_keep_flags]
    BY <1>3 DEF Calm, Quiet, Core, Fields
  <2>. HIDE DEF a3
  <2>. QED BY <1>3, <2>1, KeepSet DEF Calm, Quiet
<1>. HIDE DEF a3
<1>5. /\ Core(a4) /\ Outer(a4) = Outer(a3) /\ Place(a4) = Place(a3) /\ Pend(a4) = Pend(a3)
      /\ Front(a4.arms) = a3.arms /\ Len(a4.arms) > 0
  BY <1>4, EnterSound
<1>. HIDE DEF a4
<1>6. /\ Core(a5) /\ Frame(a5) = Frame(a4) /\ Pend(a5) = Pend(a4)
      /\ a5.base = Len(a4.code) /\ Len(a5.code) = Len(a4.code) + 3
  BY <1>5, ForkBlockSound
<1>. HIDE DEF a5
<1>7. Carrying(x, a5)
  <2>1. Pend(a5) = Pend(a2) /\ PendingOk(a2)
    BY <1>3, <1>4, <1>5, <1>6 DEF Calm, Quiet
  <2>2. Ok(a5)
    BY <1>6, <2>1, PendSame DEF Ok
  <2>3. /\ a2.arms = x.arms /\ Len(a2.scopes) = Len(x.scopes) /\ a2.open = x.open
        /\ a2.prog = x.prog /\ a2.slot = x.slot /\ Len(a2.code) = Len(x.code)
    BY <1>3 DEF Calm, Frame, Place
  <2>4. /\ a3.arms = x.arms /\ Len(a3.scopes) = Len(x.scopes) /\ a3.open = x.open
        /\ a3.prog = x.prog /\ a3.slot = x.slot /\ Len(a3.code) = Len(x.code)
    BY <1>4, <2>3 DEF Nest, Place
  <2>5. /\ Front(a4.arms) = x.arms /\ Len(a4.scopes) = Len(x.scopes) /\ a4.open = x.open
        /\ a4.prog = x.prog /\ a4.slot = x.slot /\ Len(a4.code) = Len(x.code)
        /\ a4.cond_keep_flags = 1
    BY <1>4, <1>5, <2>4 DEF Outer, Place
  <2>6. a5.arms = a4.arms /\ Len(a5.scopes) = Len(a4.scopes) /\ a5.open = a4.open
        /\ a5.prog = a4.prog /\ a5.slot = a4.slot /\ a5.cond_keep_flags = a4.cond_keep_flags
    BY <1>6 DEF Frame
  <2>. QED BY <1>5, <1>6, <2>2, <2>5, <2>6 DEF Carrying
<1>8. Carrying(x, a6)
  <2>1. Keeps(a5, a6) /\ Pend(a6) = Pend(a5)
    BY <1>0, <1>6, LoadVarSound DEF Keeps
  <2>. HIDE DEF a6
  <2>. QED BY <1>7, <2>1, CarryingKept
<1>. HIDE DEF a6
<1>9. Carrying(x, a7)
  <2>1. Keeps(a6, a7) /\ Pend(a7) = Pend(a6)
    BY <1>8, WriteSound DEF Keeps, Carrying, Ok
  <2>. HIDE DEF a7
  <2>. QED BY <1>8, <2>1, CarryingKept
<1>. HIDE DEF a7
<1>10. Carrying(x, a8)
  <2>1. Keeps(a7, a8) /\ Pend(a8) = Pend(a7)
    BY <1>0, <1>9, StoreVarSound DEF Keeps, Carrying, Ok
  <2>. HIDE DEF a8
  <2>. QED BY <1>9, <2>1, CarryingKept
<1>. HIDE DEF a8
<1>11. Carrying(x, a9) /\ Settled(a9)
  <2>1. /\ Ok(a9) /\ Outer(a9) = Outer(a8) /\ Place(a9) = Place(a8)
        /\ Front(a9.arms) = Front(a8.arms) /\ Settled(a9)
    BY <1>10, EndArmSound DEF Carrying
  <2>. HIDE DEF a9
  <2>. QED BY <1>10, <2>1 DEF Carrying, Settled, Outer, Place
<1>. HIDE DEF a9
<1>12. a9.base + 2 <= Len(a9.code) /\ Core(a9)
  BY <1>0, <1>11 DEF Carrying, Ok
<1>13. /\ Core(y) /\ Frame(y) = Frame(a9) /\ Pend(y) = Pend(a9) /\ Regs(y) = Regs(a9)
       /\ y.base = a9.base /\ Len(y.code) = Len(a9.code)
  BY <1>1, <1>12, JumpBlockSound
<1>14. Ok(y)
  BY <1>11, <1>13, PendSame DEF Ok, Carrying
<1>. QED BY <1>11, <1>13, <1>14 DEF Carrying, Frame

\* A pointer update: the computation pending before it is pending after it,
\* and was not flushed in either arm.
LEMMA RnSound ==
    ASSUME NEW x, Quiet(x), NEW y, y = emit_update_rn(x)
    PROVE  Goes(x, y)
<1>. DEFINE a1 == RnLinear(x)
            a2 == Emit(a1, [op |-> "jit_update_rn"])
            a3 == refresh_promoted_reg(a2, "R")
            a4 == end_conditional_arm(a3)
            a5 == merge_conditional(Block(Jump(a4, 3), 3))
<1>0. "R" \in PROMOTED_REGS /\ Len(x.code) \in Nat
  BY SeqUpdate DEF PROMOTED_REGS, Quiet, Core
<1>1. y = [a5 EXCEPT !.cond_keep_flags = @ - 1]
  BY DEF emit_update_rn, RnMerged
<1>2. Carrying(x, a1)
  BY RnLinearSound
<1>. HIDE DEF a1
<1>3. Carrying(x, a2)
  <2>1. Keeps(a1, a2) /\ Pend(a2) = Pend(a1)
    BY <1>2, WriteSound DEF Keeps, Carrying, Ok
  <2>. HIDE DEF a2
  <2>. QED BY <1>2, <2>1, CarryingKept
<1>. HIDE DEF a2
<1>4. Carrying(x, a3)
  <2>1. Keeps(a2, a3) /\ Pend(a3) = Pend(a2)
    BY <1>0, <1>3, CoreRefresh DEF Carrying, Ok
  <2>. HIDE DEF a3
  <2>. QED BY <1>3, <2>1, CarryingKept
<1>. HIDE DEF a3
<1>5. Carrying(x, a4) /\ Settled(a4)
  <2>1. /\ Ok(a4) /\ Outer(a4) = Outer(a3) /\ Place(a4) = Place(a3)
        /\ Front(a4.arms) = Front(a3.arms) /\ Settled(a4)
    BY <1>4, EndArmSound DEF Carrying
  <2>. HIDE DEF a4
  <2>. QED BY <1>4, <2>1 DEF Carrying, Settled, Outer, Place
<1>. HIDE DEF a4
<1>6. a4.base + 3 <= Len(a4.code) /\ Ok(a4)
  BY <1>0, <1>5 DEF Carrying
<1>7. Ok(a5) /\ Outer(a5) = Outer(a4) /\ a5.arms = Front(a4.arms) /\ Len(a5.code) = Len(a4.code)
  BY <1>5, <1>6, ClosedArmSound
<1>. HIDE DEF a5
<1>8. /\ Ok(a5) /\ a5.arms = x.arms /\ Len(a5.scopes) = Len(x.scopes) /\ a5.open = x.open
      /\ a5.prog = x.prog /\ a5.slot = x.slot /\ a5.cond_keep_flags = 1
      /\ Len(a5.code) = Len(x.code) + 3
  BY <1>5, <1>7 DEF Carrying, Outer
<1>9. y.cond_keep_flags = 0 /\ y = [a5 EXCEPT !.cond_keep_flags = y.cond_keep_flags]
  BY <1>1, <1>8 DEF Ok, Core, Fields
<1>10. /\ Core(y) /\ Nest(y) = Nest(a5) /\ Place(y) = Place(a5) /\ Pend(y) = Pend(a5)
       /\ y.slot = a5.slot
  BY <1>8, <1>9, KeepSet DEF Ok
<1>11. Quiet(y)
  BY <1>8, <1>9, <1>10, PendSame DEF Ok, Quiet
<1>12. Len(y.code) = Len(a5.code) /\ y.arms = a5.arms /\ y.open = a5.open /\ y.prog = a5.prog
       /\ Len(y.scopes) = Len(a5.scopes)
  BY <1>10 DEF Place, Nest
<1>13. Nest(y) = Nest(x)
  <2>1. y.cond_depth = x.cond_depth
    BY <1>8, <1>11, <1>12 DEF Quiet, Core
  <2>. QED BY <1>8, <1>12, <2>1 DEF Nest
<1>. QED BY <1>0, <1>8, <1>10, <1>11, <1>12, <1>13 DEF Goes

\* The limiter call.
LEMMA LimiterSound ==
    ASSUME NEW x, Quiet(x), NEW y, y = emit_call_read_accu24(x)
    PROVE  Calm(x, y)
<1>. DEFINE a1 == load_var(x, "A")
            a2 == Store(a1, {"A"})
            a3 == [flush_reg(a2, "SR") EXCEPT !.dirty = @ \ {"SR"}]
            a4 == Emit(a3, [op |-> "jit_read_accu24"])
<1>0. "A" \in PROMOTED_REGS /\ "SR" \in PROMOTED_REGS
  BY DEF PROMOTED_REGS
<1>1. y = refresh_promoted_reg(a4, "SR")
  BY DEF emit_call_read_accu24
<1>2. Calm(x, a1)
  BY <1>0, CalmLoad
<1>. HIDE DEF a1
<1>3. Calm(a1, a2)
  BY <1>2, CalmStoreRegs DEF Calm
<1>. HIDE DEF a2
<1>4. Calm(a2, a3)
  BY <1>3, CalmClean DEF Calm
<1>. HIDE DEF a3
<1>5. Calm(a3, a4)
  BY <1>4, CalmWrite DEF Calm
<1>. HIDE DEF a4
<1>6. Calm(a4, y)
  BY <1>0, <1>1, <1>5, CalmRefresh DEF Calm
<1>. QED BY <1>2, <1>3, <1>4, <1>5, <1>6 DEF Calm

\* A helper that reads and writes state in memory.
LEMMA ExternSound ==
    ASSUME NEW x, Quiet(x), NEW y, y = emit_call_extern_ret(x)
    PROVE  Calm(x, y)
<1>. DEFINE a1 == flush_promoted(x)
            a2 == Emit(a1, [op |-> "jit_read_ssh"])
            a3 == invalidate_promoted(a2)
            a4 == refresh_promoted_reg(a3, "SR")
<1>0. "SP" \in PROMOTED_REGS /\ "SR" \in PROMOTED_REGS
  BY DEF PROMOTED_REGS
<1>1. y = refresh_promoted_reg(a4, "SP")
  BY DEF emit_call_extern_ret
<1>2. Calm(x, a1)
  BY CalmFlushPromoted
<1>. HIDE DEF a1
<1>3. Calm(a1, a2)
  BY <1>2, CalmWrite DEF Calm
<1>. HIDE DEF a2
<1>4. Calm(a2, a3)
  BY <1>3, CalmInvalidate DEF Calm
<1>. HIDE DEF a3
<1>5. Calm(a3, a4)
  BY <1>0, <1>4, CalmRefresh DEF Calm
<1>. HIDE DEF a4
<1>6. Calm(a4, y)
  BY <1>0, <1>1, <1>5, CalmRefresh DEF Calm
<1>. QED BY <1>2, <1>3, <1>4, <1>5, <1>6 DEF Calm

\* A write to P memory.
LEMMA WriteMemSound ==
    ASSUME NEW x, Quiet(x), NEW y, y = write_mem_dyn_p(x)
    PROVE  Calm(x, y)
<1>. DEFINE a1 == flush_promoted(x)
<1>1. Calm(x, a1)
  BY CalmFlushPromoted
<1>2. y = invalidate_promoted(a1)
  BY DEF write_mem_dyn_p
<1>. HIDE DEF a1
<1>3. Calm(a1, y)
  BY <1>1, <1>2, CalmInvalidate DEF Calm
<1>. QED BY <1>1, <1>3, CalmTransitive

\* IFcc drops the computation of the operation it may annul, with its marker.
LEMMA DropPending ==
    ASSUME NEW x, Quiet(x), NEW y, y = [x EXCEPT !.pending = None, !.pending_sm_marker = 0]
    PROVE  Calm(x, y)
<1>1. /\ y = [x EXCEPT !.pending = y.pending, !.pending_sm_marker = y.pending_sm_marker]
      /\ y.pending = None /\ y.pending_sm_marker = 0
  BY DEF Quiet, Core, Fields
<1>2. Keeps(x, y)
  BY <1>1, PendingSet DEF Quiet
<1>. QED BY <1>1, <1>2 DEF Calm, Quiet, Keeps, PendingOk, Frame

\* The end of IFcc, which drops or keeps the operation's flags.
LEMMA RestoredSound ==
    ASSUME NEW x, Quiet(x), NEW u \in BOOLEAN, NEW y, y = IfccRestored(x, u)
    PROVE  Calm(x, y)
<1>0. "SR" \in PROMOTED_REGS
  BY DEF PROMOTED_REGS
<1>1. CASE u
  <2>. DEFINE a == load_sr(x, TRUE)
  <2>1. Calm(x, a)
    BY CalmLoadSr
  <2>2. y = Select(a, "SR", FALSE)
    BY <1>1 DEF IfccRestored
  <2>. HIDE DEF a
  <2>3. PICK o : y = store_var(Emit(a, o), "SR")
    BY <2>2 DEF Select
  <2>4. Calm(a, y)
    BY <1>0, <2>1, <2>3, CalmPut DEF Calm
  <2>. QED BY <2>1, <2>4, CalmTransitive
<1>2. CASE ~u
  <2>. DEFINE a == [x EXCEPT !.pending = None, !.pending_sm_marker = 0]
              b == Emit(a, [op |-> "unsat"])
  <2>1. Calm(x, a)
    BY DropPending
  <2>2. y = Select(b, "SR", TRUE)
    BY <1>2 DEF IfccRestored
  <2>. HIDE DEF a
  <2>3. Calm(a, b)
    BY <2>1, CalmWrite DEF Calm
  <2>. HIDE DEF b
  <2>4. PICK o : y = store_var(Emit(b, o), "SR")
    BY <2>2 DEF Select
  <2>5. Calm(b, y)
    BY <1>0, <2>3, <2>4, CalmPut DEF Calm
  <2>. QED BY <2>1, <2>3, <2>5 DEF Calm
<1>. QED BY <1>1, <1>2

\* IFcc and IFcc.U.
LEMMA IfccSound ==
    ASSUME NEW x, Quiet(x), NEW u \in BOOLEAN, NEW y, y = emit_ifcc(x, u)
    PROVE  Quiet(y) /\ Nest(y) = Nest(x) /\ Place(y) = Place(x) /\ y.slot = x.slot + 1
<1>. DEFINE a0 == Test(x, "eq")
            a1 == load_var(a0, "A")
            a2 == load_sr(a1, TRUE)
            a3 == Emit(a2, [op |-> "save"])
            a4 == EmitAlu(a3, "add")
            a5 == IfccRestored(a4, u)
            a6 == load_var(a5, "A")
            a7 == [a6 EXCEPT !.eunz_current = a0.eunz_current]
<1>0. "A" \in PROMOTED_REGS /\ "add" \in DOMAIN AluOps
  BY DEF PROMOTED_REGS, AluOps
<1>1. y = Select(a7, "A", FALSE)
  BY DEF emit_ifcc, IfccTested
<1>2. Calm(x, a0)
  BY CalmTest
<1>. HIDE DEF a0
<1>3. Calm(a0, a1)
  BY <1>0, <1>2, CalmLoad DEF Calm
<1>. HIDE DEF a1
<1>4. Calm(a1, a2)
  BY <1>3, CalmLoadSr DEF Calm
<1>. HIDE DEF a2
<1>5. Calm(a2, a3)
  BY <1>4, CalmWrite DEF Calm
<1>. HIDE DEF a3
<1>6. Quiet(a4) /\ Nest(a4) = Nest(a3) /\ Place(a4) = Place(a3) /\ a4.slot = a3.slot + 1
  BY <1>0, <1>5, AluSound DEF Calm
<1>. HIDE DEF a4
<1>7. Calm(a4, a5)
  BY <1>6, RestoredSound
<1>. HIDE DEF a5
<1>8. Calm(a5, a6)
  BY <1>0, <1>7, CalmLoad DEF Calm
<1>. HIDE DEF a6
<1>9. Calm(a6, a7)
  BY <1>8, CalmBook DEF Calm
<1>. HIDE DEF a7
<1>10. Calm(a7, y)
  <2>1. PICK o : y = store_var(Emit(a7, o), "A")
    BY <1>1 DEF Select
  <2>. QED BY <1>0, <1>9, <2>1, CalmPut DEF Calm
<1>11. Frame(a3) = Frame(x) /\ Place(a3) = Place(x)
  BY <1>2, <1>3, <1>4, <1>5 DEF Calm
<1>12. Quiet(y) /\ Frame(y) = Frame(a4) /\ Place(y) = Place(a4)
  BY <1>7, <1>8, <1>9, <1>10 DEF Calm
<1>13. Nest(a3) = Nest(x) /\ a3.slot = x.slot
  BY <1>11 DEF Frame, Nest
<1>14. Nest(y) = Nest(a4) /\ y.slot = a4.slot
  BY <1>12 DEF Frame, Nest
<1>. QED BY <1>6, <1>11, <1>12, <1>13, <1>14

\* One instruction of a program.
Instr(x, y) == /\ Quiet(y) /\ Nest(y) = Nest(x) /\ Len(y.code) >= Len(x.code)
               /\ y.slot = x.slot \/ y.slot = x.slot + 1

InstNames == DOMAIN AluOps \cup {"rdsr", "wrsr", "rda", "rdlc", "peri", "tcc", "rn", "lim",
                                 "pop", "pmem", "ifcc", "ifccu"}

\* Every instruction.
LEMMA InstructionSound ==
    ASSUME NEW x, Quiet(x), NEW i \in InstNames, NEW y, y = emit_instruction(x, i)
    PROVE  Instr(x, y)
<1>. DEFINE z == CASE i \in DOMAIN AluOps -> EmitAlu(x, i)
                   [] i = "rdsr"  -> Emit(load_sr(x, FALSE), [op |-> "see", r |-> "SR"])
                   [] i = "wrsr"  -> store_sr(Emit(x, [op |-> "movesr"]))
                   [] i = "rda"   -> See(x, "A")
                   [] i = "rdlc"  -> See(x, "LC")
                   [] i = "peri"  -> See(x, "R")
                   [] i = "tcc"   -> emit_tcc(x)
                   [] i = "rn"    -> emit_update_rn(See(x, "R"))
                   [] i = "lim"   -> emit_call_read_accu24(x)
                   [] i = "pop"   -> emit_call_extern_ret(x)
                   [] i = "pmem"  -> write_mem_dyn_p(x)
                   [] i \in {"ifcc", "ifccu"} -> emit_ifcc(x, i = "ifccu")
            w == Emit(z, [op |-> "arch", i |-> i, cycles |-> 1])
<1>1. y = [w EXCEPT !.pending_cycles = @ + 1]
  BY DEF emit_instruction
<1>n. Len(x.code) \in Nat
  BY SeqUpdate DEF Quiet, Core
<1>r. "A" \in PROMOTED_REGS /\ "LC" \in PROMOTED_REGS /\ "R" \in PROMOTED_REGS
  BY DEF PROMOTED_REGS
<1>d. DOMAIN AluOps = {"add", "cmp", "asl", "tst", "ext", "or"}
  BY DEF AluOps
<1>c. ASSUME Goes(x, z) PROVE Instr(x, z)
  BY <1>c DEF Goes, Instr
<1>2. Instr(x, z)
  <2>1. CASE i \in DOMAIN AluOps
    <3>1. z = EmitAlu(x, i)
      BY <1>d, <2>1
    <3>. HIDE DEF z
    <3>2. Quiet(z) /\ Nest(z) = Nest(x) /\ Place(z) = Place(x) /\ z.slot = x.slot + 1
      BY <2>1, <3>1, AluSound
    <3>. QED BY <1>n, <3>2 DEF Instr, Place
  <2>2. CASE i = "rdsr"
    <3>1. z = Emit(load_sr(x, FALSE), [op |-> "see", r |-> "SR"])
      BY <1>d, <2>2
    <3>. HIDE DEF z
    <3>. DEFINE a == load_sr(x, FALSE)
    <3>2. Calm(x, a)
      BY CalmLoadSr
    <3>3. z = Emit(a, [op |-> "see", r |-> "SR"])
      BY <3>1
    <3>. HIDE DEF a
    <3>4. Calm(a, z)
      BY <3>2, <3>3, CalmWrite DEF Calm
    <3>. QED BY <1>c, <3>2, <3>4, CalmTransitive, CalmGoes
  <2>3. CASE i = "wrsr"
    <3>1. z = store_sr(Emit(x, [op |-> "movesr"]))
      BY <1>d, <2>3
    <3>. HIDE DEF z
    <3>. DEFINE a == Emit(x, [op |-> "movesr"])
    <3>2. Calm(x, a)
      BY CalmWrite
    <3>3. z = store_sr(a)
      BY <3>1
    <3>. HIDE DEF a
    <3>4. Calm(a, z)
      BY <3>2, <3>3, CalmStoreSr DEF Calm
    <3>. QED BY <1>c, <3>2, <3>4, CalmTransitive, CalmGoes
  <2>4. CASE i = "rda"
    <3>1. z = See(x, "A")
      BY <1>d, <2>4
    <3>. HIDE DEF z
    <3>. QED BY <1>c, <1>r, <3>1, CalmSee, CalmGoes
  <2>5. CASE i = "rdlc"
    <3>1. z = See(x, "LC")
      BY <1>d, <2>5
    <3>. HIDE DEF z
    <3>. QED BY <1>c, <1>r, <3>1, CalmSee, CalmGoes
  <2>6. CASE i = "peri"
    <3>1. z = See(x, "R")
      BY <1>d, <2>6
    <3>. HIDE DEF z
    <3>. QED BY <1>c, <1>r, <3>1, CalmSee, CalmGoes
  <2>7. CASE i = "tcc"
    <3>1. z = emit_tcc(x)
      BY <1>d, <2>7
    <3>. HIDE DEF z
    <3>. QED BY <1>c, <3>1, TccSound
  <2>8. CASE i = "rn"
    <3>1. z = emit_update_rn(See(x, "R"))
      BY <1>d, <2>8
    <3>. HIDE DEF z
    <3>. DEFINE a == See(x, "R")
    <3>2. Goes(x, a)
      BY <1>r, CalmSee, CalmGoes
    <3>3. z = emit_update_rn(a)
      BY <3>1
    <3>. HIDE DEF a
    <3>4. Goes(a, z)
      BY <3>2, <3>3, RnSound DEF Goes
    <3>. QED BY <1>c, <3>2, <3>4, GoesTransitive
  <2>9. CASE i = "lim"
    <3>1. z = emit_call_read_accu24(x)
      BY <1>d, <2>9
    <3>. HIDE DEF z
    <3>. QED BY <1>c, <3>1, LimiterSound, CalmGoes
  <2>10. CASE i = "pop"
    <3>1. z = emit_call_extern_ret(x)
      BY <1>d, <2>10
    <3>. HIDE DEF z
    <3>. QED BY <1>c, <3>1, ExternSound, CalmGoes
  <2>11. CASE i = "pmem"
    <3>1. z = write_mem_dyn_p(x)
      BY <1>d, <2>11
    <3>. HIDE DEF z
    <3>. QED BY <1>c, <3>1, WriteMemSound, CalmGoes
  <2>12. CASE i \in {"ifcc", "ifccu"}
    <3>1. z = emit_ifcc(x, i = "ifccu")
      BY <1>d, <2>12
    <3>. HIDE DEF z
    <3>2. PICK u \in BOOLEAN : z = emit_ifcc(x, u)
      BY <3>1
    <3>3. Quiet(z) /\ Nest(z) = Nest(x) /\ Place(z) = Place(x) /\ z.slot = x.slot + 1
      BY <3>2, IfccSound
    <3>. QED BY <1>n, <3>3 DEF Instr, Place
  <2>. QED BY <2>1, <2>2, <2>3, <2>4, <2>5, <2>6, <2>7, <2>8, <2>9, <2>10, <2>11, <2>12
       DEF InstNames
<1>. HIDE DEF z
<1>3. Calm(z, w)
  BY <1>2, CalmWrite DEF Instr
<1>. HIDE DEF w
<1>4. PICK v : y = [w EXCEPT !.pending_cycles = v]
  BY <1>1
<1>5. Calm(w, y)
  BY <1>3, <1>4, CalmBook DEF Calm
<1>6. Goes(z, y)
  BY <1>3, <1>5, CalmTransitive, CalmGoes
<1>7. Len(z.code) \in Nat /\ Len(y.code) \in Nat
  BY <1>2, <1>6, SeqUpdate DEF Instr, Goes, Quiet, Core
<1>. QED BY <1>n, <1>2, <1>6, <1>7 DEF Instr, Goes

-------------------------------------------------------------------------------
(* Exits, loops and skips.                                                 *)

\* A bail-out leaves the pending computation for the path that stays.
LEMMA BailSound ==
    ASSUME NEW x, Quiet(x), NEW t, NEW y, y = Bail(x, t)
    PROVE  Goes(x, y) /\ Pend(y) = Pend(x)
<1>. DEFINE a1 == Block(Fork(x, 2, "host", 1, 2), 1)
            a2 == emit_deferred_nz(a1, t)
            a3 == flush_all_to_memory(a2)
            a4 == End(a3, <<"ret">>)
            a5 == Block(a4, 2)
<1>n. Len(x.code) \in Nat
  BY SeqUpdate DEF Quiet, Core
<1>1. PICK v : y = [a5 EXCEPT !.eunz_current = v]
  BY DEF Bail
<1>2. /\ Quiet(a1) /\ Frame(a1) = Frame(x) /\ Pend(a1) = Pend(x)
      /\ a1.base = Len(x.code) /\ Len(a1.code) = Len(x.code) + 2
  <2>1. /\ Core(a1) /\ Frame(a1) = Frame(x) /\ Pend(a1) = Pend(x)
        /\ a1.base = Len(x.code) /\ Len(a1.code) = Len(x.code) + 2
    BY ForkBlockSound DEF Quiet
  <2>. HIDE DEF a1
  <2>. QED BY <2>1, PendSame DEF Quiet, Frame
<1>. HIDE DEF a1
<1>3. Calm(a1, a2) /\ Pend(a2) = Pend(a1)
  BY <1>2, CalmNz
<1>. HIDE DEF a2
<1>4. Calm(a2, a3) /\ Pend(a3) = Pend(a2)
  BY <1>3, CalmFlushAll DEF Calm
<1>. HIDE DEF a3
<1>5. Calm(a3, a4) /\ Pend(a4) = Pend(a3)
  BY <1>4, CalmWrite DEF Calm
<1>. HIDE DEF a4
<1>6. Quiet(a4) /\ Frame(a4) = Frame(x) /\ Place(a4) = Place(a1) /\ Pend(a4) = Pend(x)
  BY <1>2, <1>3, <1>4, <1>5 DEF Calm
<1>7. a4.base + 2 \in 1 .. Len(a4.code) /\ Len(a4.code) = Len(x.code) + 2
  BY <1>n, <1>2, <1>6 DEF Place
<1>8. /\ Core(a5) /\ Frame(a5) = Frame(a4) /\ Pend(a5) = Pend(a4)
      /\ Len(a5.code) = Len(a4.code)
  BY <1>6, <1>7, SwitchSound DEF Block, Quiet
<1>. HIDE DEF a5
<1>9. Quiet(a5) /\ Frame(a5) = Frame(x)
  BY <1>6, <1>8, PendSame DEF Quiet, Frame
<1>10. Calm(a5, y) /\ Pend(y) = Pend(a5)
  BY <1>1, <1>9, CalmBook
<1>11. Len(y.code) = Len(x.code) + 2 /\ Frame(y) = Frame(x) /\ Quiet(y)
  BY <1>7, <1>8, <1>9, <1>10 DEF Calm, Place
<1>. QED BY <1>n, <1>6, <1>8, <1>10, <1>11 DEF Goes, Frame, Nest

\* emit_enddo_cleanup.
LEMMA CleanupSound ==
    ASSUME NEW x, Quiet(x), NEW y, y = emit_enddo_cleanup(x)
    PROVE  Calm(x, y)
<1>. DEFINE a1 == load_var(x, "SP")
            a2 == store_var(Emit(a1, [op |-> "pull"]), "SP")
            a3 == load_sr(a2, FALSE)
            a4 == Emit(a3, [op |-> "getlf"])
            a5 == store_sr(a4)
            a6 == store_var(Emit(a5, [op |-> "getlc"]), "LC")
<1>0. "SP" \in PROMOTED_REGS /\ "LC" \in PROMOTED_REGS
  BY DEF PROMOTED_REGS
<1>1. \E o : y = Emit(a6, o)
  BY DEF emit_enddo_cleanup, Ghost
<1>2. Calm(x, a1)
  BY <1>0, CalmLoad
<1>. HIDE DEF a1
<1>3. Calm(a1, a2)
  BY <1>0, <1>2, CalmPut DEF Calm
<1>. HIDE DEF a2
<1>4. Calm(a2, a3)
  BY <1>3, CalmLoadSr DEF Calm
<1>. HIDE DEF a3
<1>5. Calm(a3, a4)
  BY <1>4, CalmWrite DEF Calm
<1>. HIDE DEF a4
<1>6. Calm(a4, a5)
  BY <1>5, CalmStoreSr DEF Calm
<1>. HIDE DEF a5
<1>7. Calm(a5, a6)
  BY <1>0, <1>6, CalmPut DEF Calm
<1>. HIDE DEF a6
<1>8. Calm(a6, y)
  BY <1>1, <1>7, CalmWrite DEF Calm
<1>. QED BY <1>2, <1>3, <1>4, <1>5, <1>6, <1>7, <1>8 DEF Calm

\* emit_do_setup.
LEMMA SetupSound ==
    ASSUME NEW x, Quiet(x), NEW y, y = emit_do_setup(x)
    PROVE  Calm(x, y)
<1>. DEFINE a1 == load_var(x, "LC")
            a2 == load_var(a1, "SP")
            a3 == load_sr(a2, FALSE)
            a4 == store_var(Emit(a3, [op |-> "push"]), "SP")
            a5 == Emit(a4, [op |-> "setlf"])
            a6 == store_sr(a5)
<1>0. "SP" \in PROMOTED_REGS /\ "LC" \in PROMOTED_REGS
  BY DEF PROMOTED_REGS
<1>1. y = store_var(Emit(a6, [op |-> "count"]), "LC")
  BY DEF emit_do_setup
<1>2. Calm(x, a1)
  BY <1>0, CalmLoad
<1>. HIDE DEF a1
<1>3. Calm(a1, a2)
  BY <1>0, <1>2, CalmLoad DEF Calm
<1>. HIDE DEF a2
<1>4. Calm(a2, a3)
  BY <1>3, CalmLoadSr DEF Calm
<1>. HIDE DEF a3
<1>5. Calm(a3, a4)
  BY <1>0, <1>4, CalmPut DEF Calm
<1>. HIDE DEF a4
<1>6. Calm(a4, a5)
  BY <1>5, CalmWrite DEF Calm
<1>. HIDE DEF a5
<1>7. Calm(a5, a6)
  BY <1>6, CalmStoreSr DEF Calm
<1>. HIDE DEF a6
<1>8. Calm(a6, y)
  BY <1>0, <1>1, <1>7, CalmPut DEF Calm
<1>. QED BY <1>2, <1>3, <1>4, <1>5, <1>6, <1>7, <1>8 DEF Calm

\* The bottom of a loop body: nothing is pending on the back edge.
LEMMA BottomSound ==
    ASSUME NEW x, Quiet(x), NEW t, NEW y, y = BodyBottom(x, t)
    PROVE  Calm(x, y) /\ y.pending = None
<1>. DEFINE a == flush_eliding(x, t # 0)
<1>1. Calm(x, a) /\ a.pending = None
  BY CalmFlush
<1>2. y = flush_promoted(a)
  BY DEF BodyBottom
<1>. HIDE DEF a
<1>3. Calm(a, y) /\ Pend(y) = Pend(a)
  BY <1>1, <1>2, CalmFlushPromoted DEF Calm
<1>. QED BY <1>1, <1>3, CalmTransitive DEF Pend

\* The loop counter.
LEMMA DecrementSound ==
    ASSUME NEW x, Quiet(x), NEW top, NEW y, y = DecrementLC(x, top)
    PROVE  Calm(x, y)
<1>. DEFINE a1 == Ghost(x, "again", 0)
            o == [op |-> "dec", top |-> top]
            a2 == store_var(Emit(a1, o), "LC")
<1>0. "LC" \in PROMOTED_REGS
  BY DEF PROMOTED_REGS
<1>1. y = flush_reg(a2, "LC")
  BY DEF DecrementLC
<1>2. Calm(x, a1)
  BY CalmWrite DEF Ghost
<1>. HIDE DEF a1, o
<1>3. Calm(a1, a2)
  BY <1>0, <1>2, CalmPut DEF Calm
<1>. HIDE DEF a2
<1>4. Calm(a2, y)
  BY <1>1, <1>3, CalmFlushReg DEF Calm
<1>. QED BY <1>2, <1>3, <1>4 DEF Calm

\* Behind a loop everything is reloaded.
LEMMA AfterLoopSound ==
    ASSUME NEW x, Quiet(x), NEW b \in 1 .. Len(x.code), NEW y, y = AfterLoop(x, b)
    PROVE  Goes(x, y)
<1>. DEFINE a1 == flush_promoted(x)
            a2 == End(a1, <<"jump", b>>)
            a3 == switch_to_block(a2, b)
            a4 == [a3 EXCEPT !.eunz_current = FALSE]
<1>n. Len(x.code) \in Nat
  BY SeqUpdate DEF Quiet, Core
<1>1. y = invalidate_promoted(a4)
  BY DEF AfterLoop
<1>2. Calm(x, a1)
  BY CalmFlushPromoted
<1>. HIDE DEF a1
<1>3. Calm(a1, a2)
  BY <1>2, CalmWrite DEF Calm
<1>. HIDE DEF a2
<1>4. Calm(x, a2) /\ b \in 1 .. Len(a2.code)
  BY <1>2, <1>3 DEF Calm, Place
<1>5. Quiet(a3) /\ Frame(a3) = Frame(x) /\ Len(a3.code) = Len(x.code)
  <2>1. /\ Core(a3) /\ Frame(a3) = Frame(a2) /\ Pend(a3) = Pend(a2)
        /\ Len(a3.code) = Len(a2.code)
    BY <1>4, SwitchSound DEF Calm, Quiet
  <2>. HIDE DEF a3
  <2>. QED BY <1>4, <2>1, PendSame DEF Calm, Quiet, Frame, Place
<1>. HIDE DEF a3
<1>6. Calm(a3, a4)
  <2>1. PICK v : a4 = [a3 EXCEPT !.eunz_current = v]
    OBVIOUS
  <2>. HIDE DEF a4
  <2>. QED BY <1>5, <2>1, CalmBook
<1>. HIDE DEF a4
<1>7. Calm(a4, y)
  BY <1>1, <1>6, CalmInvalidate DEF Calm
<1>8. Quiet(y) /\ Frame(y) = Frame(x) /\ Len(y.code) = Len(x.code)
  BY <1>5, <1>6, <1>7 DEF Calm, Place
<1>. QED BY <1>n, <1>8 DEF Goes, Frame, Nest

\* Recording what is open and what the program is.
LEMMA OpenSet ==
    ASSUME NEW x, Quiet(x), NEW y, y = [x EXCEPT !.open = y.open, !.prog = y.prog]
    PROVE  /\ Quiet(y) /\ Place(y) = Place(x) /\ y.arms = x.arms /\ y.slot = x.slot
           /\ Len(y.scopes) = Len(x.scopes)
<1>1. /\ DOMAIN y = Fields /\ y.code = x.code /\ y.cur = x.cur /\ y.base = x.base
      /\ y.arms = x.arms /\ y.valid = x.valid /\ y.dirty = x.dirty /\ y.scopes = x.scopes
      /\ y.pending = x.pending /\ y.pending_sm_marker = x.pending_sm_marker
      /\ y.slot = x.slot /\ y.cond_depth = x.cond_depth /\ y.panic = x.panic
      /\ y.cond_keep_flags = x.cond_keep_flags
  BY DEF Quiet, Core, Fields
<1>2. Core(y)
  BY <1>1 DEF Core, Quiet
<1>3. PendingOk(y)
  BY <1>1, PendSame DEF Quiet, Pend
<1>. QED BY <1>1, <1>2, <1>3 DEF Quiet, Place

\* Opening a loop scope.
LEMMA OpenLoopSound ==
    ASSUME NEW x, Quiet(x), NEW pre, NEW h \in 1 .. Len(x.code), NEW y, y = OpenLoop(x, pre, h)
    PROVE  /\ Quiet(y) /\ Len(y.scopes) = Len(x.scopes) + 1 /\ y.arms = x.arms
           /\ y.open = x.open /\ y.prog = x.prog /\ y.slot = x.slot
           /\ y.base = x.base /\ Len(y.code) = Len(x.code)
<1>. DEFINE a1 == switch_to_block(x, h)
            a2 == push_loop_scope(a1, pre)
<1>1. PICK v : y = [a2 EXCEPT !.eunz_current = v]
  BY DEF OpenLoop
<1>2. /\ Quiet(a1) /\ Frame(a1) = Frame(x) /\ a1.base = x.base /\ Len(a1.code) = Len(x.code)
  <2>1. /\ Core(a1) /\ Frame(a1) = Frame(x) /\ Pend(a1) = Pend(x) /\ a1.base = x.base
        /\ Len(a1.code) = Len(x.code)
    BY SwitchSound DEF Quiet
  <2>. HIDE DEF a1
  <2>. QED BY <2>1, PendSame DEF Quiet, Frame
<1>. HIDE DEF a1
<1>. DEFINE sc == [pre |-> pre, deferred |-> {}, entry |-> a1.valid]
            c == Append(a1.scopes, sc)
<1>3. IsSeq(c) /\ Len(c) = Len(a1.scopes) + 1 /\ Len(a1.scopes) \in Nat
  BY <1>2, SeqAppend DEF Quiet, Core
<1>4. a2 = [a1 EXCEPT !.scopes = c]
  BY <1>2 DEF push_loop_scope, Quiet, Core, Fields
<1>. HIDE DEF c, a2
<1>5. /\ DOMAIN a2 = Fields /\ a2.code = a1.code /\ a2.cur = a1.cur /\ a2.base = a1.base
      /\ a2.arms = a1.arms /\ a2.valid = a1.valid /\ a2.dirty = a1.dirty /\ a2.scopes = c
      /\ a2.pending = a1.pending /\ a2.pending_sm_marker = a1.pending_sm_marker
      /\ a2.slot = a1.slot /\ a2.cond_depth = a1.cond_depth /\ a2.panic = a1.panic
      /\ a2.cond_keep_flags = a1.cond_keep_flags /\ a2.open = a1.open /\ a2.prog = a1.prog
  BY <1>2, <1>4 DEF Quiet, Core, Fields
<1>6. Core(a2)
  BY <1>2, <1>3, <1>5 DEF Core, Quiet
<1>7. Quiet(a2)
  BY <1>2, <1>5, <1>6, PendSame DEF Quiet, Pend
<1>8. Calm(a2, y)
  BY <1>1, <1>7, CalmBook
<1>. QED BY <1>2, <1>3, <1>5, <1>8 DEF Calm, Frame, Place

\* Closing it.
LEMMA PopScopeSound ==
    ASSUME NEW x, Quiet(x), Len(x.scopes) > 1, NEW h, NEW y, y = pop_loop_scope(x, h)
    PROVE  /\ Quiet(y) /\ Len(y.scopes) = Len(x.scopes) - 1 /\ y.arms = x.arms
           /\ y.open = x.open /\ y.prog = x.prog /\ y.slot = x.slot
           /\ y.base = x.base /\ Len(y.code) = Len(x.code)
<1>. DEFINE n == Len(x.scopes)
<1>1. PICK S : x.scopes \in Seq(S)
  BY DEF Quiet, Core, IsSeq
<1>2. PICK k \in Nat : n = k + 2
  <2>1. n \in Nat /\ n > 1
    BY <1>1
  <2>. HIDE DEF n
  <2>2. n - 2 \in Nat /\ n = (n - 2) + 2
    BY <2>1
  <2>. QED BY <2>2
<1>. DEFINE front == SubSeq(x.scopes, 1, k)
<1>3. front \in Seq(S) /\ Len(front) = k
  BY <1>1, <1>2
<1>. DEFINE outer == x.scopes[n - 1]
            inner == x.scopes[n]
            new == [outer EXCEPT !.deferred = @ \cup (inner.deferred \ outer.entry)]
            c == Append(front, new)
            b == [ops |-> Loads(inner.deferred \cap outer.entry), term |-> <<"jump", h>>]
            d == [x.code EXCEPT ![inner.pre] = b]
<1>4. y = [x EXCEPT !.scopes = c, !.code = d]
  <2>1. SubSeq(x.scopes, 1, Len(x.scopes) - 2) = front
    BY <1>2
  <2>. QED BY <2>1 DEF pop_loop_scope, Scope, Quiet, Core, Fields
<1>. HIDE DEF front, outer, inner, new, b
<1>5. IsSeq(c) /\ Len(c) = k + 1
  <2>1. IsSeq(front)
    BY <1>3 DEF IsSeq
  <2>. QED BY <1>3, <2>1, SeqAppend
<1>6. IsSeq(d) /\ Len(d) = Len(x.code)
  BY SeqUpdate DEF Quiet, Core
<1>. HIDE DEF c, d
<1>7. /\ DOMAIN y = Fields /\ y.code = d /\ y.cur = x.cur /\ y.base = x.base
      /\ y.arms = x.arms /\ y.valid = x.valid /\ y.dirty = x.dirty /\ y.scopes = c
      /\ y.pending = x.pending /\ y.pending_sm_marker = x.pending_sm_marker
      /\ y.slot = x.slot /\ y.cond_depth = x.cond_depth /\ y.panic = x.panic
      /\ y.cond_keep_flags = x.cond_keep_flags /\ y.open = x.open /\ y.prog = x.prog
  BY <1>4 DEF Quiet, Core, Fields
<1>8. Core(y)
  BY <1>5, <1>6, <1>7 DEF Core, Quiet
<1>9. Quiet(y)
  BY <1>7, <1>8, PendSame DEF Quiet, Pend
<1>. QED BY <1>2, <1>5, <1>6, <1>7, <1>9

\* The head of an inlined DO opens a scope and records blocks that exist.
DoEntry(x, y, loop) ==
    /\ Quiet(y) /\ Len(y.scopes) = Len(x.scopes) + 1 /\ y.arms = x.arms
    /\ y.prog = x.prog /\ y.slot = x.slot /\ Len(y.code) >= Len(x.code)
    /\ y.open = Append(x.open, loop) /\ loop.kind = "do"
    /\ loop.header \in 1 .. Len(y.code) /\ loop.exit \in 1 .. Len(y.code)
    /\ loop.after \in 1 .. Len(y.code)

\* emit_do_head.
LEMMA DoHeadSound ==
    ASSUME NEW x, Quiet(x), NEW y, y = emit_do_head(x)
    PROVE  \E loop : DoEntry(x, y, loop)
<1>. DEFINE a1 == set_cycles(x, LoopCycles)
            a2 == emit_do_setup(a1)
            a3 == Ghost(a2, "do", LoopCycles)
            a4 == flush_pending_cycles(a3)
            a5 == Bail(a4, 0)
            a6 == flush_pending_flags(a5)
            b == flush_promoted(a6)
            c1 == Block(Fork(b, 5, "cond", 1, 2), 1)
            c2 == emit_enddo_cleanup(c1)
            c3 == flush_promoted(c2)
            c4 == Jump(c3, 5)
            n == c4.base
            c5 == OpenLoop(c4, n + 2, n + 3)
            loop == [kind |-> "do", header |-> n + 3, exit |-> n + 4, after |-> n + 5,
                     mark |-> c4.defer_hazard_sites]
<1>1. y = [c5 EXCEPT !.open = Append(@, loop)]
  BY DEF emit_do_head
<1>2. Goes(x, b)
  <2>1. Calm(x, a1)
    BY CalmSetCycles
  <2>. HIDE DEF a1
  <2>2. Calm(a1, a2)
    BY <2>1, SetupSound DEF Calm
  <2>. HIDE DEF a2
  <2>3. Calm(a2, a3)
    BY <2>2, CalmWrite DEF Calm, Ghost
  <2>. HIDE DEF a3
  <2>4. Calm(a3, a4)
    BY <2>3, CalmCycles DEF Calm
  <2>. HIDE DEF a4
  <2>5. Calm(x, a4)
    BY <2>1, <2>2, <2>3, <2>4 DEF Calm
  <2>6. Goes(x, a4) /\ Goes(a4, a5)
    BY <2>5, CalmGoes, BailSound DEF Calm
  <2>. HIDE DEF a5
  <2>7. Goes(x, a5)
    BY <2>6, GoesTransitive
  <2>8. Calm(a5, a6)
    BY <2>7, CalmFlushPending DEF Goes
  <2>. HIDE DEF a6
  <2>9. Calm(a6, b)
    BY <2>8, CalmFlushPromoted DEF Calm
  <2>. HIDE DEF b
  <2>10. Goes(a5, b)
    BY <2>8, <2>9, CalmTransitive, CalmGoes
  <2>. QED BY <2>7, <2>10, GoesTransitive
<1>. HIDE DEF b
<1>n. Len(x.code) \in Nat /\ Len(b.code) \in Nat
  BY <1>2, SeqUpdate DEF Goes, Quiet, Core
<1>3. Quiet(c1) /\ Frame(c1) = Frame(b) /\ c1.base = Len(b.code) /\ Len(c1.code) = Len(b.code) + 5
  <2>1. /\ Core(c1) /\ Frame(c1) = Frame(b) /\ Pend(c1) = Pend(b)
        /\ c1.base = Len(b.code) /\ Len(c1.code) = Len(b.code) + 5
    BY <1>2, ForkBlockSound DEF Goes, Quiet
  <2>. HIDE DEF c1
  <2>. QED BY <1>2, <2>1, PendSame DEF Goes, Quiet, Frame
<1>. HIDE DEF c1
<1>4. Calm(c1, c2)
  BY <1>3, CleanupSound
<1>. HIDE DEF c2
<1>5. Calm(c2, c3)
  BY <1>4, CalmFlushPromoted DEF Calm
<1>. HIDE DEF c3
<1>6. Calm(c3, c4)
  BY <1>5, CalmWrite DEF Calm, Jump
<1>. HIDE DEF c4
<1>7. Quiet(c4) /\ Frame(c4) = Frame(b) /\ n = Len(b.code) /\ Len(c4.code) = Len(b.code) + 5
  BY <1>3, <1>4, <1>5, <1>6 DEF Calm, Place
<1>8. n + 3 \in 1 .. Len(c4.code)
  BY <1>n, <1>7
<1>9. /\ Quiet(c5) /\ Len(c5.scopes) = Len(c4.scopes) + 1 /\ c5.arms = c4.arms
      /\ c5.open = c4.open /\ c5.prog = c4.prog /\ c5.slot = c4.slot
      /\ Len(c5.code) = Len(c4.code)
  BY <1>7, <1>8, OpenLoopSound
<1>. HIDE DEF c5
<1>10. /\ Len(c4.scopes) = Len(x.scopes) /\ c4.arms = x.arms /\ c4.open = x.open
       /\ c4.prog = x.prog /\ c4.slot = x.slot /\ Len(b.code) >= Len(x.code)
  BY <1>2, <1>7 DEF Goes, Nest, Frame
<1>11. loop.kind = "do" /\ loop.header = n + 3 /\ loop.exit = n + 4 /\ loop.after = n + 5
  OBVIOUS
<1>. HIDE DEF loop, n
<1>12. /\ y = [c5 EXCEPT !.open = y.open, !.prog = y.prog] /\ y.open = Append(c5.open, loop)
       /\ y.prog = c5.prog
  BY <1>1, <1>9 DEF Quiet, Core, Fields
<1>13. /\ Quiet(y) /\ Place(y) = Place(c5) /\ y.arms = c5.arms /\ y.slot = c5.slot
       /\ Len(y.scopes) = Len(c5.scopes)
  BY <1>9, <1>12, OpenSet
<1>14. Len(y.code) = Len(b.code) + 5
  BY <1>7, <1>9, <1>13 DEF Place
<1>15. /\ Len(y.code) >= Len(x.code) /\ loop.header \in 1 .. Len(y.code)
       /\ loop.exit \in 1 .. Len(y.code) /\ loop.after \in 1 .. Len(y.code)
  BY <1>n, <1>7, <1>10, <1>11, <1>14
<1>16. DoEntry(x, y, loop)
  BY <1>9, <1>10, <1>11, <1>12, <1>13, <1>15 DEF DoEntry
<1>. QED BY <1>16

\* The way out of a loop whose scope is open: bottom of the body, pop.
LEMMA DoTailSound ==
    ASSUME NEW x, Quiet(x), Len(x.scopes) > 1,
           Last(x.open).exit \in 1 .. Len(x.code), Last(x.open).after \in 1 .. Len(x.code),
           NEW y, y = emit_do_tail(x)
    PROVE  /\ Quiet(y) /\ Len(y.scopes) = Len(x.scopes) - 1 /\ y.arms = x.arms
           /\ y.open = Front(x.open) /\ y.prog = x.prog /\ y.slot = x.slot
           /\ Len(y.code) >= Len(x.code)
<1>. DEFINE loop == Last(x.open)
            a1 == flush_pending_cycles(x)
            t == Deferred(a1, loop.mark)
            a2 == BodyBottom(a1, t)
            a3 == load_var(a2, "LC")
            a4 == DecrementLC(a3, FALSE)
            a5 == create_blocks(a4, 1)
            a6 == End(a5, <<"branch", "cond", loop.exit, Len(a4.code) + 1>>)
            a7 == Block(a6, 1)
            a8 == Bail(a7, t)
            a9 == End(a8, <<"jump", loop.header>>)
            b1 == pop_loop_scope(a9, loop.header)
            b2 == switch_to_block(b1, loop.exit)
            b3 == emit_deferred_nz(b2, t)
            b4 == emit_enddo_cleanup(b3)
            b5 == AfterLoop(b4, loop.after)
<1>0. "LC" \in PROMOTED_REGS
  BY DEF PROMOTED_REGS
<1>n. Len(x.code) \in Nat /\ Len(x.scopes) \in Nat
  BY SeqUpdate DEF Quiet, Core
<1>1. y = [b5 EXCEPT !.open = Front(@)]
  BY DEF emit_do_tail
<1>2. Calm(x, a1)
  BY CalmCycles
<1>. HIDE DEF a1, t, loop
<1>3. Calm(a1, a2)
  BY <1>2, BottomSound DEF Calm
<1>. HIDE DEF a2
<1>4. Calm(a2, a3)
  BY <1>0, <1>3, CalmLoad DEF Calm
<1>. HIDE DEF a3
<1>5. Calm(a3, a4)
  <2>1. \E top : a4 = DecrementLC(a3, top)
    OBVIOUS
  <2>. HIDE DEF a4
  <2>. QED BY <1>4, <2>1, DecrementSound DEF Calm
<1>. HIDE DEF a4
<1>6. Quiet(a4) /\ Frame(a4) = Frame(x) /\ Len(a4.code) = Len(x.code)
  BY <1>2, <1>3, <1>4, <1>5 DEF Calm, Place
<1>7. /\ Core(a5) /\ Frame(a5) = Frame(a4) /\ Pend(a5) = Pend(a4)
      /\ a5.base = Len(a4.code) /\ Len(a5.code) = Len(a4.code) + 1
  BY <1>6, CreateSound DEF Quiet
<1>. HIDE DEF a5
<1>8. /\ Core(a6) /\ Frame(a6) = Frame(a5) /\ Pend(a6) = Pend(a5) /\ Place(a6) = Place(a5)
  BY <1>7, WriteSound
<1>. HIDE DEF a6
<1>9. /\ Frame(a6) = Frame(x) /\ Pend(a6) = Pend(a4) /\ a6.base = Len(x.code)
      /\ Len(a6.code) = Len(x.code) + 1 /\ a6.base + 1 \in 1 .. Len(a6.code)
  BY <1>n, <1>6, <1>7, <1>8 DEF Place
<1>10. Quiet(a7) /\ Frame(a7) = Frame(x) /\ Len(a7.code) = Len(x.code) + 1
  <2>1. /\ Core(a7) /\ Frame(a7) = Frame(a6) /\ Pend(a7) = Pend(a6)
        /\ Len(a7.code) = Len(a6.code)
    BY <1>8, <1>9, SwitchSound DEF Block
  <2>. HIDE DEF a7
  <2>. QED BY <1>6, <1>9, <2>1, PendSame DEF Quiet, Frame
<1>. HIDE DEF a7
<1>11. Goes(a7, a8)
  BY <1>10, BailSound
<1>. HIDE DEF a8
<1>12. Calm(a8, a9)
  BY <1>11, CalmWrite DEF Goes
<1>. HIDE DEF a9
<1>13. Goes(a7, a9)
  BY <1>10, <1>11, <1>12, CalmGoes, GoesTransitive
<1>14. /\ Quiet(a9) /\ Len(a9.scopes) = Len(x.scopes) /\ a9.arms = x.arms /\ a9.open = x.open
       /\ a9.prog = x.prog /\ a9.slot = x.slot /\ Len(a9.code) >= Len(x.code) + 1
  BY <1>10, <1>13 DEF Goes, Nest, Frame
<1>15. /\ Quiet(b1) /\ Len(b1.scopes) = Len(a9.scopes) - 1 /\ b1.arms = a9.arms
       /\ b1.open = a9.open /\ b1.prog = a9.prog /\ b1.slot = a9.slot
       /\ Len(b1.code) = Len(a9.code)
  BY <1>14, PopScopeSound
<1>. HIDE DEF b1
<1>16. Len(b1.code) \in Nat /\ Len(b1.code) >= Len(x.code) + 1
       /\ loop.exit \in 1 .. Len(b1.code)
  <2>1. Len(b1.code) \in Nat
    BY <1>15, SeqUpdate DEF Quiet, Core
  <2>. QED BY <1>n, <1>14, <1>15, <2>1 DEF loop
<1>17. Quiet(b2) /\ Frame(b2) = Frame(b1) /\ Len(b2.code) = Len(b1.code)
  <2>1. /\ Core(b2) /\ Frame(b2) = Frame(b1) /\ Pend(b2) = Pend(b1)
        /\ Len(b2.code) = Len(b1.code)
    BY <1>15, <1>16, SwitchSound DEF Quiet
  <2>. HIDE DEF b2
  <2>. QED BY <1>15, <2>1, PendSame DEF Quiet, Frame
<1>. HIDE DEF b2
<1>18. Calm(b2, b3)
  BY <1>17, CalmNz
<1>. HIDE DEF b3
<1>19. Calm(b3, b4)
  BY <1>18, CleanupSound DEF Calm
<1>. HIDE DEF b4
<1>20. Quiet(b4) /\ Frame(b4) = Frame(b1) /\ Len(b4.code) = Len(b1.code)
       /\ loop.after \in 1 .. Len(b4.code)
  <2>1. Quiet(b4) /\ Frame(b4) = Frame(b1) /\ Len(b4.code) = Len(b1.code)
    BY <1>17, <1>18, <1>19 DEF Calm, Place
  <2>. QED BY <1>n, <1>16, <2>1 DEF loop
<1>21. Goes(b4, b5)
  BY <1>20, AfterLoopSound
<1>. HIDE DEF b5
<1>22. /\ Quiet(b5) /\ Len(b5.scopes) = Len(x.scopes) - 1 /\ b5.arms = x.arms
       /\ b5.open = x.open /\ b5.prog = x.prog /\ b5.slot = x.slot
       /\ Len(b5.code) >= Len(b1.code)
  BY <1>14, <1>15, <1>20, <1>21 DEF Goes, Nest, Frame
<1>23. /\ y = [b5 EXCEPT !.open = y.open, !.prog = y.prog] /\ y.open = Front(b5.open)
       /\ y.prog = b5.prog
  BY <1>1, <1>22 DEF Quiet, Core, Fields
<1>24. /\ Quiet(y) /\ Place(y) = Place(b5) /\ y.arms = b5.arms /\ y.slot = b5.slot
       /\ Len(y.scopes) = Len(b5.scopes)
  BY <1>22, <1>23, OpenSet
<1>25. Len(y.code) >= Len(x.code)
  <2>1. Len(y.code) = Len(b5.code) /\ Len(b5.code) \in Nat
    BY <1>22, <1>24, SeqUpdate DEF Place, Quiet, Core
  <2>. QED BY <1>n, <1>16, <1>22, <2>1
<1>. QED BY <1>22, <1>23, <1>24, <1>25

\* The head of REP opens a scope and creates the four blocks its tail names.
LEMMA RepHeadSound ==
    ASSUME NEW x, Quiet(x), NEW y, y = emit_rep_head(x)
    PROVE  /\ Quiet(y) /\ Len(y.scopes) = Len(x.scopes) + 1 /\ y.arms = x.arms
           /\ y.open = x.open /\ y.prog = x.prog /\ y.slot = x.slot
           /\ y.base = Len(x.code) /\ Len(y.code) = Len(x.code) + 4
<1>. DEFINE a1 == load_var(x, "LC")
            a2 == store_var(Emit(a1, [op |-> "copy", from |-> "LC", to |-> "TEMP"]), "TEMP")
            a3 == set_cycles(a2, LoopCycles)
            a4 == store_var(Emit(a3, [op |-> "count"]), "LC")
            a5 == Ghost(a4, "rep", LoopCycles)
            a6 == flush_pending_cycles(a5)
            a7 == flush_pending_flags(a6)
            c == flush_promoted(a7)
            d == Fork(c, 4, "cond", 4, 1)
            d1 == OpenLoop(d, d.base + 1, d.base + 2)
            d2 == load_var(d1, "LC")
<1>0. "LC" \in PROMOTED_REGS /\ "TEMP" \in PROMOTED_REGS
  BY DEF PROMOTED_REGS
<1>n. Len(x.code) \in Nat
  BY SeqUpdate DEF Quiet, Core
<1>1. y = Emit(d2, [op |-> "latch"])
  BY DEF emit_rep_head
<1>2. Calm(x, c)
  <2>1. Calm(x, a1)
    BY <1>0, CalmLoad
  <2>. HIDE DEF a1
  <2>2. Calm(a1, a2)
    BY <1>0, <2>1, CalmPut DEF Calm
  <2>. HIDE DEF a2
  <2>3. Calm(a2, a3)
    BY <2>2, CalmSetCycles DEF Calm
  <2>. HIDE DEF a3
  <2>4. Calm(a3, a4)
    BY <1>0, <2>3, CalmPut DEF Calm
  <2>. HIDE DEF a4
  <2>5. Calm(a4, a5)
    BY <2>4, CalmWrite DEF Calm, Ghost
  <2>. HIDE DEF a5
  <2>6. Calm(a5, a6)
    BY <2>5, CalmCycles DEF Calm
  <2>. HIDE DEF a6
  <2>7. Calm(a6, a7)
    BY <2>6, CalmFlushPending DEF Calm
  <2>. HIDE DEF a7
  <2>8. Calm(a7, c)
    BY <2>7, CalmFlushPromoted DEF Calm
  <2>. HIDE DEF c
  <2>. QED BY <2>1, <2>2, <2>3, <2>4, <2>5, <2>6, <2>7, <2>8 DEF Calm
<1>. HIDE DEF c
<1>3. Quiet(d) /\ Frame(d) = Frame(x) /\ d.base = Len(x.code) /\ Len(d.code) = Len(x.code) + 4
  <2>1. /\ Core(d) /\ Frame(d) = Frame(c) /\ Pend(d) = Pend(c)
        /\ d.base = Len(c.code) /\ Len(d.code) = Len(c.code) + 4
    BY <1>2, ForkSound DEF Calm, Quiet
  <2>. HIDE DEF d
  <2>. QED BY <1>2, <2>1, PendSame DEF Calm, Quiet, Frame, Place
<1>. HIDE DEF d
<1>4. d.base + 2 \in 1 .. Len(d.code)
  BY <1>n, <1>3
<1>5. /\ Quiet(d1) /\ Len(d1.scopes) = Len(d.scopes) + 1 /\ d1.arms = d.arms
      /\ d1.open = d.open /\ d1.prog = d.prog /\ d1.slot = d.slot
      /\ d1.base = d.base /\ Len(d1.code) = Len(d.code)
  BY <1>3, <1>4, OpenLoopSound
<1>. HIDE DEF d1
<1>6. Calm(d1, d2)
  BY <1>0, <1>5, CalmLoad
<1>. HIDE DEF d2
<1>7. Calm(d2, y)
  BY <1>1, <1>6, CalmWrite DEF Calm
<1>. QED BY <1>3, <1>5, <1>6, <1>7 DEF Calm, Frame, Place

\* The tail of REP closes that scope and leaves through the last of them.
LEMMA RepTailSound ==
    ASSUME NEW x, Quiet(x), Len(x.scopes) > 1, NEW n \in Nat, n + 4 <= Len(x.code),
           NEW mark, NEW y, y = emit_rep_tail(x, n, mark)
    PROVE  /\ Quiet(y) /\ Len(y.scopes) = Len(x.scopes) - 1 /\ y.arms = x.arms
           /\ y.open = x.open /\ y.prog = x.prog /\ y.slot = x.slot
           /\ Len(y.code) >= Len(x.code)
<1>. DEFINE a1 == flush_pending_cycles(x)
            t == Deferred(a1, mark)
            a2 == BodyBottom(a1, t)
            a3 == DecrementLC(a2, TRUE)
            a4 == End(a3, <<"branch", "cond", n + 3, n + 2>>)
            b1 == pop_loop_scope(a4, n + 2)
            b2 == switch_to_block(b1, n + 3)
            b3 == emit_deferred_nz(b2, t)
            b4 == AfterLoop(b3, n + 4)
            c1 == load_var(b4, "TEMP")
            c2 == store_var(Emit(c1, [op |-> "copy", from |-> "TEMP", to |-> "LC"]), "LC")
            c3 == flush_reg(c2, "LC")
<1>0. "LC" \in PROMOTED_REGS /\ "TEMP" \in PROMOTED_REGS
  BY DEF PROMOTED_REGS
<1>n. Len(x.code) \in Nat /\ Len(x.scopes) \in Nat
  BY SeqUpdate DEF Quiet, Core
<1>1. \E o : y = Emit(c3, o)
  BY DEF emit_rep_tail, Ghost
<1>2. Calm(x, a1)
  BY CalmCycles
<1>. HIDE DEF a1, t
<1>3. Calm(a1, a2)
  BY <1>2, BottomSound DEF Calm
<1>. HIDE DEF a2
<1>4. Calm(a2, a3)
  <2>1. \E top : a3 = DecrementLC(a2, top)
    OBVIOUS
  <2>. HIDE DEF a3
  <2>. QED BY <1>3, <2>1, DecrementSound DEF Calm
<1>. HIDE DEF a3
<1>5. Calm(a3, a4)
  BY <1>4, CalmWrite DEF Calm
<1>. HIDE DEF a4
<1>6. Quiet(a4) /\ Frame(a4) = Frame(x) /\ Len(a4.code) = Len(x.code)
  BY <1>2, <1>3, <1>4, <1>5 DEF Calm, Place
<1>7. Len(a4.scopes) = Len(x.scopes) /\ Len(a4.scopes) > 1
  BY <1>6 DEF Frame
<1>8. /\ Quiet(b1) /\ Len(b1.scopes) = Len(a4.scopes) - 1 /\ b1.arms = a4.arms
      /\ b1.open = a4.open /\ b1.prog = a4.prog /\ b1.slot = a4.slot
      /\ Len(b1.code) = Len(a4.code)
  BY <1>6, <1>7, PopScopeSound
<1>. HIDE DEF b1
<1>9. n + 3 \in 1 .. Len(b1.code) /\ n + 4 \in 1 .. Len(b1.code)
  BY <1>n, <1>6, <1>8
<1>10. Quiet(b2) /\ Frame(b2) = Frame(b1) /\ Len(b2.code) = Len(b1.code)
  <2>1. /\ Core(b2) /\ Frame(b2) = Frame(b1) /\ Pend(b2) = Pend(b1)
        /\ Len(b2.code) = Len(b1.code)
    BY <1>8, <1>9, SwitchSound DEF Quiet
  <2>. HIDE DEF b2
  <2>. QED BY <1>8, <2>1, PendSame DEF Quiet, Frame
<1>. HIDE DEF b2
<1>11. Calm(b2, b3)
  BY <1>10, CalmNz
<1>. HIDE DEF b3
<1>12. Quiet(b3) /\ Frame(b3) = Frame(b1) /\ Len(b3.code) = Len(b1.code)
  BY <1>10, <1>11 DEF Calm, Place
<1>13. Goes(b3, b4)
  BY <1>9, <1>12, AfterLoopSound
<1>. HIDE DEF b4
<1>14. Calm(b4, c1)
  BY <1>0, <1>13, CalmLoad DEF Goes
<1>. HIDE DEF c1
<1>15. Calm(c1, c2)
  BY <1>0, <1>14, CalmPut DEF Calm
<1>. HIDE DEF c2
<1>16. Calm(c2, c3)
  BY <1>15, CalmFlushReg DEF Calm
<1>. HIDE DEF c3
<1>17. Calm(c3, y)
  BY <1>1, <1>16, CalmWrite DEF Calm
<1>18. Calm(b4, y)
  BY <1>14, <1>15, <1>16, <1>17 DEF Calm
<1>19. Goes(b3, y)
  BY <1>12, <1>13, <1>18, CalmGoes, GoesTransitive
<1>. QED BY <1>6, <1>7, <1>8, <1>12, <1>19 DEF Goes, Nest, Frame

\* REP around one instruction.
LEMMA RepSound ==
    ASSUME NEW x, Quiet(x), NEW i \in InstNames, NEW y, y = emit_rep_inline(x, i)
    PROVE  Instr(x, y)
<1>. DEFINE a == emit_rep_head(x)
            b == emit_instruction(a, i)
            n == a.base
            mark == a.defer_hazard_sites
<1>n. Len(x.code) \in Nat /\ Len(x.scopes) \in Nat /\ Len(x.scopes) > 0 /\ x.slot \in Nat
  BY SeqUpdate DEF Quiet, Core
<1>1. y = emit_rep_tail(b, n, mark)
  BY DEF emit_rep_inline
<1>2. /\ Quiet(a) /\ Len(a.scopes) = Len(x.scopes) + 1 /\ a.arms = x.arms
      /\ a.open = x.open /\ a.prog = x.prog /\ a.slot = x.slot
      /\ n = Len(x.code) /\ Len(a.code) = Len(x.code) + 4
  BY RepHeadSound
<1>. HIDE DEF a, mark
<1>3. Instr(a, b)
  BY <1>2, InstructionSound
<1>. HIDE DEF b
<1>4. /\ Quiet(b) /\ Len(b.scopes) = Len(x.scopes) + 1 /\ b.arms = x.arms
      /\ b.open = x.open /\ b.prog = x.prog
      /\ b.slot = x.slot \/ b.slot = x.slot + 1
      /\ Len(b.code) >= Len(x.code) + 4
  BY <1>2, <1>3 DEF Instr, Nest
<1>5. n \in Nat /\ n + 4 <= Len(b.code) /\ Len(b.scopes) > 1 /\ Len(b.code) \in Nat
  <2>1. Len(b.code) \in Nat
    BY <1>4, SeqUpdate DEF Quiet, Core
  <2>. QED BY <1>n, <1>2, <1>4, <2>1
<1>. HIDE DEF n
<1>6. /\ Quiet(y) /\ Len(y.scopes) = Len(b.scopes) - 1 /\ y.arms = b.arms
      /\ y.open = b.open /\ y.prog = b.prog /\ y.slot = b.slot
      /\ Len(y.code) >= Len(b.code)
  BY <1>1, <1>4, <1>5, RepTailSound
<1>7. Len(y.scopes) = Len(x.scopes) /\ Len(y.code) >= Len(x.code)
  <2>1. Len(y.code) \in Nat
    BY <1>6, SeqUpdate DEF Quiet, Core
  <2>. QED BY <1>n, <1>4, <1>5, <1>6, <2>1
<1>8. y.cond_depth = x.cond_depth
  BY <1>4, <1>6 DEF Quiet, Core
<1>. QED BY <1>4, <1>6, <1>7, <1>8 DEF Instr, Nest

\* The head of a forward skip: one more conditional region, settled.
SkipEntry(x, y, skip) ==
    /\ Quiet(y) /\ Len(y.scopes) = Len(x.scopes) /\ Front(y.arms) = x.arms
    /\ Len(y.arms) = Len(x.arms) + 1
    /\ y.prog = x.prog /\ y.slot = x.slot /\ Len(y.code) >= Len(x.code)
    /\ y.open = Append(x.open, skip) /\ skip.kind = "skip" /\ skip.after \in 1 .. Len(y.code)

\* open_skip.
LEMMA SkipOpenSound ==
    ASSUME NEW x, Quiet(x), NEW y, y = open_skip(x)
    PROVE  \E skip : SkipEntry(x, y, skip)
<1>. DEFINE a1 == set_cycles(x, SkipCycles)
            a2 == Test(a1, "cs")
            a3 == Ghost(a2, "skip", SkipCycles)
            a4 == flush_pending_flags(a3)
            a5 == flush_pending_cycles(a4)
            a6 == flush_promoted(a5)
            b == EnterArms(a6, TRUE)
            c == Fork(b, 2, "cond", 1, 2)
            d == switch_to_block(c, c.base + 2)
            skip == [kind |-> "skip", after |-> c.base + 1]
<1>n. Len(x.code) \in Nat /\ Len(x.arms) \in Nat
  BY SeqUpdate DEF Quiet, Core
<1>1. y = [d EXCEPT !.open = Append(@, skip)]
  BY DEF open_skip, begin_conditional_skip, Block
<1>2. Calm(x, a6) /\ a6.dirty = {}
  <2>1. Calm(x, a1)
    BY CalmSetCycles
  <2>. HIDE DEF a1
  <2>2. Calm(a1, a2)
    BY <2>1, CalmTest DEF Calm
  <2>. HIDE DEF a2
  <2>3. Calm(a2, a3)
    BY <2>2, CalmWrite DEF Calm, Ghost
  <2>. HIDE DEF a3
  <2>4. Calm(a3, a4)
    BY <2>3, CalmFlushPending DEF Calm
  <2>. HIDE DEF a4
  <2>5. Calm(a4, a5)
    BY <2>4, CalmCycles DEF Calm
  <2>. HIDE DEF a5
  <2>6. Calm(a5, a6) /\ a6.dirty = {}
    BY <2>5, CalmFlushPromoted DEF Calm
  <2>. HIDE DEF a6
  <2>. QED BY <2>1, <2>2, <2>3, <2>4, <2>5, <2>6 DEF Calm
<1>. HIDE DEF a6
<1>3. /\ Core(b) /\ Outer(b) = Outer(a6) /\ Place(b) = Place(a6) /\ Pend(b) = Pend(a6)
      /\ Front(b.arms) = a6.arms /\ Len(b.arms) > 0
  <2>1. PICK rec \in BOOLEAN : b = EnterArms(a6, rec)
    OBVIOUS
  <2>. HIDE DEF b
  <2>. QED BY <1>2, <2>1, EnterSound DEF Calm, Quiet
<1>. HIDE DEF b
<1>4. Len(b.arms) = Len(x.arms) + 1 /\ Front(b.arms) = x.arms
  <2>1. Front(b.arms) = x.arms
    BY <1>2, <1>3 DEF Calm, Frame
  <2>2. Len(Front(b.arms)) = Len(b.arms) - 1 /\ Len(b.arms) \in Nat
    BY <1>3, SeqFront DEF Core
  <2>. QED BY <2>1, <2>2
<1>5. /\ Core(c) /\ Frame(c) = Frame(b) /\ Pend(c) = Pend(b)
      /\ c.base = Len(b.code) /\ Len(c.code) = Len(b.code) + 2
  BY <1>3, ForkSound
<1>. HIDE DEF c
<1>6. Len(b.code) = Len(x.code)
  BY <1>2, <1>3 DEF Calm, Place
<1>7. c.base + 2 \in 1 .. Len(c.code) /\ c.base + 1 \in 1 .. Len(c.code)
  BY <1>n, <1>5, <1>6
<1>8. /\ Core(d) /\ Frame(d) = Frame(c) /\ Pend(d) = Pend(c) /\ Len(d.code) = Len(c.code)
  BY <1>5, <1>7, SwitchSound
<1>9. skip.kind = "skip" /\ skip.after = c.base + 1
  OBVIOUS
<1>. HIDE DEF d, skip
<1>10. /\ Len(b.scopes) = Len(x.scopes) /\ b.open = x.open /\ b.prog = x.prog
       /\ b.slot = x.slot /\ b.cond_keep_flags = x.cond_keep_flags
  BY <1>2, <1>3 DEF Calm, Frame, Outer
<1>11. /\ Len(d.scopes) = Len(x.scopes) /\ d.open = x.open /\ d.prog = x.prog
       /\ d.slot = x.slot /\ d.cond_keep_flags = x.cond_keep_flags /\ d.arms = b.arms
  BY <1>5, <1>8, <1>10 DEF Frame
<1>12. Quiet(d)
  <2>1. Pend(d) = Pend(a6) /\ PendingOk(a6)
    BY <1>2, <1>3, <1>5, <1>8 DEF Calm, Quiet
  <2>2. PendingOk(d)
    BY <2>1, PendSame
  <2>. QED BY <1>8, <1>11, <2>2 DEF Quiet
<1>13. /\ y = [d EXCEPT !.open = y.open, !.prog = y.prog] /\ y.open = Append(d.open, skip)
       /\ y.prog = d.prog
  BY <1>1, <1>12 DEF Quiet, Core, Fields
<1>14. /\ Quiet(y) /\ Place(y) = Place(d) /\ y.arms = d.arms /\ y.slot = d.slot
       /\ Len(y.scopes) = Len(d.scopes)
  BY <1>12, <1>13, OpenSet
<1>15. Len(y.code) = Len(c.code)
  BY <1>8, <1>14 DEF Place
<1>16. Len(y.code) >= Len(x.code) /\ skip.after \in 1 .. Len(y.code)
  BY <1>n, <1>5, <1>6, <1>7, <1>9, <1>15
<1>17. SkipEntry(x, y, skip)
  BY <1>4, <1>9, <1>11, <1>13, <1>14, <1>16 DEF SkipEntry
<1>. QED BY <1>17

\* Its end: the arm is closed and merged.
LEMMA SkipCloseSound ==
    ASSUME NEW x, Quiet(x), Len(x.arms) > 0, Last(x.open).after \in 1 .. Len(x.code),
           NEW y, y = close_skip(x)
    PROVE  /\ Quiet(y) /\ Len(y.scopes) = Len(x.scopes) /\ y.arms = Front(x.arms)
           /\ y.open = Front(x.open) /\ y.prog = x.prog /\ y.slot = x.slot
           /\ Len(y.code) = Len(x.code)
<1>. DEFINE after == Last(x.open).after
            a1 == flush_pending_cycles(x)
            a2 == end_conditional_arm(a1)
            a3 == End(a2, <<"jump", after>>)
            a4 == switch_to_block(a3, after)
            a5 == merge_conditional(a4)
<1>1. y = [a5 EXCEPT !.open = Front(@)]
  BY DEF close_skip
<1>2. Calm(x, a1)
  BY CalmCycles
<1>. HIDE DEF a1, after
<1>3. Ok(a1) /\ Len(a1.arms) > 0 /\ a1.arms = x.arms /\ Outer(a1) = Outer(x)
      /\ Len(a1.code) = Len(x.code)
  BY <1>2 DEF Calm, Quiet, Ok, Frame, Outer, Place
<1>4. /\ Ok(a2) /\ Outer(a2) = Outer(a1) /\ Place(a2) = Place(a1)
      /\ Front(a2.arms) = Front(a1.arms) /\ Settled(a2)
  BY <1>3, EndArmSound
<1>. HIDE DEF a2
<1>5. /\ Core(a3) /\ Frame(a3) = Frame(a2) /\ Pend(a3) = Pend(a2) /\ Regs(a3) = Regs(a2)
      /\ Place(a3) = Place(a2)
  BY <1>4, WriteSound DEF Ok
<1>. HIDE DEF a3
<1>6. Len(a3.code) = Len(x.code) /\ after \in 1 .. Len(a3.code)
  BY <1>3, <1>4, <1>5 DEF Place, after
<1>7. /\ Core(a4) /\ Frame(a4) = Frame(a3) /\ Pend(a4) = Pend(a3) /\ Regs(a4) = Regs(a3)
      /\ Len(a4.code) = Len(a3.code)
  BY <1>5, <1>6, SwitchSound
<1>. HIDE DEF a4
<1>8. a4.arms = a2.arms /\ a4.dirty = a2.dirty /\ Outer(a4) = Outer(a2)
  BY <1>5, <1>7 DEF Frame, Regs, Outer
<1>9. Settled(a4)
  BY <1>4, <1>8 DEF Settled
<1>10. /\ Core(a5) /\ Outer(a5) = Outer(a4) /\ Place(a5) = Place(a4) /\ Pend(a5) = Pend(a4)
       /\ a5.arms = Front(a4.arms)
  BY <1>7, <1>9, MergeSound
<1>. HIDE DEF a5
<1>11. /\ a5.arms = Front(x.arms) /\ Outer(a5) = Outer(x) /\ Len(a5.code) = Len(x.code)
  BY <1>3, <1>4, <1>6, <1>7, <1>8, <1>10 DEF Place
<1>12. Quiet(a5)
  <2>1. Pend(a5) = Pend(a2) /\ PendingOk(a2)
    BY <1>4, <1>5, <1>7, <1>10 DEF Ok
  <2>2. PendingOk(a5)
    BY <2>1, PendSame
  <2>. QED BY <1>10, <1>11, <2>2 DEF Quiet, Outer
<1>13. /\ y = [a5 EXCEPT !.open = y.open, !.prog = y.prog] /\ y.open = Front(a5.open)
       /\ y.prog = a5.prog
  BY <1>1, <1>12 DEF Quiet, Core, Fields
<1>14. /\ Quiet(y) /\ Place(y) = Place(a5) /\ y.arms = a5.arms /\ y.slot = a5.slot
       /\ Len(y.scopes) = Len(a5.scopes)
  BY <1>12, <1>13, OpenSet
<1>. QED BY <1>11, <1>13, <1>14 DEF Outer, Place

\* The last exit, and the loads the whole block needs.
LEMMA FinalizeSound ==
    ASSUME NEW x, Quiet(x), NEW y, y = finalize_and_return(x)
    PROVE  Quiet(y) /\ Frame(y) = Frame(x) /\ Place(y) = Place(x)
<1>. DEFINE a1 == flush_pending_flags(x)
            a2 == flush_all_to_memory(a1)
            a3 == flush_pending_cycles(a2)
            a4 == End(a3, <<"ret">>)
<1>1. PICK b : y = [a4 EXCEPT !.code[1] = b]
  BY DEF finalize_and_return
<1>2. Calm(x, a1)
  BY CalmFlushPending
<1>. HIDE DEF a1
<1>3. Calm(a1, a2)
  BY <1>2, CalmFlushAll DEF Calm
<1>. HIDE DEF a2
<1>4. Calm(a2, a3)
  BY <1>3, CalmCycles DEF Calm
<1>. HIDE DEF a3
<1>5. Calm(a3, a4)
  BY <1>4, CalmWrite DEF Calm
<1>. HIDE DEF a4
<1>6. Calm(x, a4)
  BY <1>2, <1>3, <1>4, <1>5 DEF Calm
<1>. DEFINE d == [a4.code EXCEPT ![1] = b]
<1>7. IsSeq(d) /\ Len(d) = Len(a4.code)
  <2>1. IsSeq(a4.code)
    BY <1>6 DEF Calm, Quiet, Core
  <2>. QED BY <2>1, SeqUpdate
<1>8. y = [a4 EXCEPT !.code = d]
  BY <1>1, <1>6 DEF Calm, Quiet, Core, Fields
<1>. HIDE DEF d
<1>9. /\ DOMAIN y = Fields /\ y.code = d /\ y.cur = a4.cur /\ y.base = a4.base
      /\ y.arms = a4.arms /\ y.valid = a4.valid /\ y.dirty = a4.dirty /\ y.scopes = a4.scopes
      /\ y.pending = a4.pending /\ y.pending_sm_marker = a4.pending_sm_marker
      /\ y.slot = a4.slot /\ y.cond_depth = a4.cond_depth /\ y.panic = a4.panic
      /\ y.cond_keep_flags = a4.cond_keep_flags /\ y.open = a4.open /\ y.prog = a4.prog
  BY <1>6, <1>8 DEF Calm, Quiet, Core, Fields
<1>10. Core(y)
  BY <1>6, <1>7, <1>9 DEF Calm, Quiet, Core
<1>11. Quiet(y) /\ Frame(y) = Frame(a4) /\ Place(y) = Place(a4)
  <2>1. PendingOk(y)
    BY <1>6, <1>9, PendSame DEF Pend, Calm, Quiet
  <2>. QED BY <1>6, <1>7, <1>9, <1>10, <2>1 DEF Quiet, Calm, Frame, Place
<1>. QED BY <1>6, <1>11 DEF Calm

-------------------------------------------------------------------------------
(* The invariant: the emitter is quiet between instructions, its scopes    *)
(* and conditional regions are those of the open loop and skip, and those  *)
(* name blocks that exist.                                                 *)

\* Nothing open, a DO, a skip, or a skip inside a DO; one scope more than
\* loops, one region per skip.
Shape(o, scopes, arms) ==
    \/ Len(o) = 0 /\ scopes = 1 /\ arms = 0
    \/ Len(o) = 1 /\ o[1].kind = "do" /\ scopes = 2 /\ arms = 0
    \/ Len(o) = 1 /\ o[1].kind = "skip" /\ scopes = 1 /\ arms = 1
    \/ Len(o) = 2 /\ o[1].kind = "do" /\ o[2].kind = "skip" /\ scopes = 2 /\ arms = 1

\* The blocks that closing what is open will continue in are among the n.
Named(o, n) ==
    \A k \in 1 .. Len(o) : /\ o[k].after \in 1 .. n
                           /\ o[k].kind = "do" => o[k].exit \in 1 .. n

Nested(x) ==
    /\ IsSeq(x.open) /\ Shape(x.open, Len(x.scopes), Len(x.arms))
    /\ Named(x.open, Len(x.code))

\* An instruction takes at most one slot for its flags' operands.
Counted(x) == IsSeq(x.prog) /\ x.slot <= Len(x.prog) /\ Len(x.prog) <= MaxInst

EmitterInv == Quiet(e) /\ Nested(e) /\ Counted(e)

\* More code never takes a block away.
LEMMA NamedMore ==
    ASSUME NEW o, NEW n \in Nat, NEW m \in Nat, n <= m, Named(o, n)
    PROVE  Named(o, m)
BY DEF Named

\* A step that keeps the nesting keeps it well formed.
LEMMA NestedKept ==
    ASSUME NEW x, Quiet(x), Nested(x), NEW y, Quiet(y), Nest(y) = Nest(x),
           Len(y.code) >= Len(x.code)
    PROVE  Nested(y)
<1>1. y.open = x.open /\ Len(y.scopes) = Len(x.scopes) /\ y.arms = x.arms
  BY DEF Nest
<1>2. Len(x.code) \in Nat /\ Len(y.code) \in Nat
  BY SeqUpdate DEF Quiet, Core
<1>3. Named(y.open, Len(y.code))
  BY <1>1, <1>2, NamedMore DEF Nested
<1>. QED BY <1>1, <1>3 DEF Nested

\* The program grows by one instruction, and takes at most one slot.
LEMMA ExtendSound ==
    ASSUME NEW x, Counted(x), Len(x.prog) < MaxInst, x.slot \in Nat,
           NEW z, Quiet(z), Nested(z), z.prog = x.prog,
           z.slot = x.slot \/ z.slot = x.slot + 1,
           NEW p, NEW y, y = [z EXCEPT !.prog = Append(@, p)]
    PROVE  Quiet(y) /\ Nested(y) /\ Counted(y)
<1>1. /\ y = [z EXCEPT !.open = y.open, !.prog = y.prog] /\ y.open = z.open
      /\ y.prog = Append(x.prog, p)
  BY DEF Quiet, Core, Fields
<1>2. /\ Quiet(y) /\ Place(y) = Place(z) /\ y.arms = z.arms /\ y.slot = z.slot
      /\ Len(y.scopes) = Len(z.scopes)
  BY <1>1, OpenSet
<1>3. Nested(y)
  BY <1>1, <1>2 DEF Nested, Place
<1>4. IsSeq(y.prog) /\ Len(y.prog) = Len(x.prog) + 1 /\ Len(x.prog) \in Nat
  BY <1>1, SeqAppend DEF Counted
<1>5. y.slot <= Len(y.prog) /\ Len(y.prog) <= MaxInst
  BY <1>2, <1>4, CodegenAssumption DEF Counted
<1>. QED BY <1>2, <1>3, <1>4, <1>5 DEF Counted

\* A new open structure at the end of the nest.
LEMMA NestedOpen ==
    ASSUME NEW o, IsSeq(o), NEW n \in Nat, NEW m \in Nat, n <= m, Named(o, n), NEW r,
           r.after \in 1 .. m, r.kind = "do" => r.exit \in 1 .. m
    PROVE  /\ IsSeq(Append(o, r)) /\ Named(Append(o, r), m)
           /\ Len(Append(o, r)) = Len(o) + 1 /\ Append(o, r)[Len(o) + 1] = r
           /\ \A k \in 1 .. Len(o) : Append(o, r)[k] = o[k]
<1>. DEFINE c == Append(o, r)
<1>1. /\ IsSeq(c) /\ Len(c) = Len(o) + 1 /\ Len(o) \in Nat /\ c[Len(o) + 1] = r
      /\ \A k \in 1 .. Len(o) : c[k] = o[k]
  BY SeqAppend
<1>. HIDE DEF c
<1>2. Named(c, m)
  <2>. SUFFICES ASSUME NEW k \in 1 .. Len(c)
                PROVE  c[k].after \in 1 .. m /\ (c[k].kind = "do" => c[k].exit \in 1 .. m)
    BY DEF Named
  <2>1. CASE k = Len(o) + 1
    BY <1>1, <2>1
  <2>2. CASE k \in 1 .. Len(o)
    BY <1>1, <2>2 DEF Named
  <2>. QED BY <1>1, <2>1, <2>2
<1>. QED BY <1>1, <1>2 DEF c

\* The innermost one closed.
LEMMA NestedClose ==
    ASSUME NEW o, IsSeq(o), Len(o) > 0, NEW n \in Nat, NEW m \in Nat, n <= m, Named(o, n)
    PROVE  /\ IsSeq(Front(o)) /\ Named(Front(o), m) /\ Len(Front(o)) = Len(o) - 1
           /\ Last(o) = o[Len(o)] /\ \A k \in 1 .. Len(o) - 1 : Front(o)[k] = o[k]
<1>. DEFINE c == Front(o)
<1>1. /\ IsSeq(c) /\ Len(c) = Len(o) - 1 /\ Len(o) \in Nat /\ Last(o) = o[Len(o)]
      /\ \A k \in 1 .. Len(o) - 1 : c[k] = o[k]
  BY SeqFront
<1>. HIDE DEF c
<1>2. Named(c, m)
  BY <1>1 DEF Named
<1>. QED BY <1>1, <1>2 DEF c

\* The kinds of what is open.
LEMMA OpenKinds ==
    ASSUME EmitterInv
    PROVE  /\ e.open = <<>> <=> Len(e.open) = 0
           /\ Kinds = {} => Len(e.open) = 0
           /\ "skip" \notin Kinds => \A k \in 1 .. Len(e.open) : e.open[k].kind # "skip"
<1>1. DOMAIN e.open = 1 .. Len(e.open) /\ Len(e.open) \in Nat
  BY SeqUpdate DEF EmitterInv, Nested
<1>2. e.open = <<>> <=> Len(e.open) = 0
  <2>1. PICK S : e.open \in Seq(S)
    BY DEF EmitterInv, Nested, IsSeq
  <2>. QED BY <2>1
<1>3. \A k \in 1 .. Len(e.open) : e.open[k].kind \in Kinds
  BY <1>1 DEF Kinds
<1>4. Kinds = {} => Len(e.open) = 0
  <2>1. Len(e.open) > 0 => 1 \in 1 .. Len(e.open)
    BY <1>1
  <2>. QED BY <1>1, <1>3, <2>1
<1>. QED BY <1>2, <1>3, <1>4

\* The instructions of a program are among those emit_instruction knows.
LEMMA InstsNamed == Insts \subseteq InstNames
BY CodegenAssumption DEF InstNames, AluOps

\* One instruction, with the exit check behind a peripheral access or a pop.
LEMMA PlainInv ==
    ASSUME EmitterInv, NEW i \in Insts, EmitPlain(i)
    PROVE  EmitterInv'
<1>. DEFINE a == emit_instruction(e, i)
            b == flush_pending_flags(a)
            c == flush_pending_cycles(b)
            d == Bail(c, 0)
<1>1. Quiet(e) /\ Nested(e) /\ Counted(e) /\ Len(e.prog) < MaxInst /\ e.slot \in Nat
  BY DEF EmitterInv, EmitPlain, Room, Quiet, Core
<1>2. Instr(e, a)
  BY <1>1, InstsNamed, InstructionSound
<1>3. PICK z : (z = a \/ z = d) /\ e' = [z EXCEPT !.prog = Append(@, <<"plain", i>>)]
  BY DEF EmitPlain, Extend
<1>. HIDE DEF a
<1>4. Quiet(z) /\ Nest(z) = Nest(e) /\ Len(z.code) >= Len(e.code)
      /\ (z.slot = e.slot \/ z.slot = e.slot + 1)
  <2>1. CASE z = a
    BY <1>2, <2>1 DEF Instr
  <2>2. CASE z = d
    <3>1. Calm(a, b)
      BY <1>2, CalmFlushPending DEF Instr
    <3>. HIDE DEF b
    <3>2. Calm(b, c)
      BY <3>1, CalmCycles DEF Calm
    <3>. HIDE DEF c
    <3>3. Calm(a, c)
      BY <3>1, <3>2, CalmTransitive
    <3>4. Goes(a, c) /\ Goes(c, d)
      BY <3>3, CalmGoes, BailSound DEF Calm
    <3>. HIDE DEF d
    <3>5. Goes(a, d)
      BY <1>2, <3>4, GoesTransitive DEF Instr
    <3>6. Len(a.code) \in Nat /\ Len(e.code) \in Nat /\ Len(d.code) \in Nat
      BY <1>1, <1>2, <3>5, SeqUpdate DEF Instr, Goes, Quiet, Core
    <3>. QED BY <1>2, <2>2, <3>5, <3>6 DEF Instr, Goes
  <2>. QED BY <1>3, <2>1, <2>2
<1>5. Nested(z) /\ z.prog = e.prog
  BY <1>1, <1>4, NestedKept DEF Nest
<1>6. Quiet(e') /\ Nested(e') /\ Counted(e')
  BY <1>1, <1>3, <1>4, <1>5, ExtendSound
<1>. QED BY <1>6 DEF EmitterInv

\* REP.
LEMMA RepInv ==
    ASSUME EmitterInv, NEW i \in Insts, EmitRep(i)
    PROVE  EmitterInv'
<1>. DEFINE z == emit_rep_inline(e, i)
<1>1. Quiet(e) /\ Nested(e) /\ Counted(e) /\ Len(e.prog) < MaxInst /\ e.slot \in Nat
  BY DEF EmitterInv, EmitRep, Room, Quiet, Core
<1>2. Instr(e, z)
  BY <1>1, InstsNamed, RepSound
<1>3. e' = [z EXCEPT !.prog = Append(@, <<"rep", i>>)]
  BY DEF EmitRep, Extend
<1>. HIDE DEF z
<1>4. Nested(z) /\ z.prog = e.prog
  BY <1>1, <1>2, NestedKept DEF Nest, Instr
<1>5. Quiet(e') /\ Nested(e') /\ Counted(e')
  BY <1>1, <1>2, <1>3, <1>4, ExtendSound DEF Instr
<1>. QED BY <1>5 DEF EmitterInv

\* The head of DO.
LEMMA OpenDoInv ==
    ASSUME EmitterInv, OpenDo
    PROVE  EmitterInv'
<1>. DEFINE z == emit_do_head(e)
<1>1. Quiet(e) /\ Nested(e) /\ Counted(e) /\ Len(e.prog) < MaxInst /\ e.slot \in Nat
  BY DEF EmitterInv, OpenDo, Room, Quiet, Core
<1>2. PICK loop : DoEntry(e, z, loop)
  BY <1>1, DoHeadSound
<1>3. e' = [z EXCEPT !.prog = Append(@, <<"do", "">>)]
  BY DEF OpenDo, Extend
<1>. HIDE DEF z
<1>4. Len(e.open) = 0 /\ Len(e.scopes) = 1 /\ Len(e.arms) = 0
  <2>1. Len(e.open) = 0
    BY OpenKinds DEF OpenDo
  <2>. QED BY <1>1, <2>1 DEF Nested, Shape
<1>5. Len(e.code) \in Nat /\ Len(z.code) \in Nat
  BY <1>1, <1>2, SeqUpdate DEF DoEntry, Quiet, Core
<1>6. /\ IsSeq(z.open) /\ Named(z.open, Len(z.code)) /\ Len(z.open) = 1
      /\ z.open[1].kind = "do"
  BY <1>1, <1>2, <1>4, <1>5, NestedOpen DEF DoEntry, Nested
<1>7. Nested(z)
  BY <1>2, <1>4, <1>6 DEF DoEntry, Nested, Shape
<1>8. Quiet(e') /\ Nested(e') /\ Counted(e')
  BY <1>1, <1>2, <1>3, <1>7, ExtendSound DEF DoEntry
<1>. QED BY <1>8 DEF EmitterInv

\* A forward skip.
LEMMA OpenSkipInv ==
    ASSUME EmitterInv, OpenSkip
    PROVE  EmitterInv'
<1>. DEFINE z == open_skip(e)
<1>1. Quiet(e) /\ Nested(e) /\ Counted(e) /\ Len(e.prog) < MaxInst /\ e.slot \in Nat
  BY DEF EmitterInv, OpenSkip, Room, Quiet, Core
<1>2. PICK skip : SkipEntry(e, z, skip)
  BY <1>1, SkipOpenSound
<1>3. e' = [z EXCEPT !.prog = Append(@, <<"skip", "">>)]
  BY DEF OpenSkip, Extend
<1>. HIDE DEF z
<1>4. \/ Len(e.open) = 0 /\ Len(e.scopes) = 1 /\ Len(e.arms) = 0
      \/ Len(e.open) = 1 /\ e.open[1].kind = "do" /\ Len(e.scopes) = 2 /\ Len(e.arms) = 0
  <2>1. \A k \in 1 .. Len(e.open) : e.open[k].kind # "skip"
    BY OpenKinds DEF OpenSkip
  <2>. QED BY <1>1, <2>1 DEF Nested, Shape
<1>5. Len(e.code) \in Nat /\ Len(z.code) \in Nat
  BY <1>1, <1>2, SeqUpdate DEF SkipEntry, Quiet, Core
<1>6. /\ IsSeq(z.open) /\ Named(z.open, Len(z.code)) /\ Len(z.open) = Len(e.open) + 1
      /\ z.open[Len(e.open) + 1].kind = "skip"
      /\ \A k \in 1 .. Len(e.open) : z.open[k] = e.open[k]
  BY <1>1, <1>2, <1>5, NestedOpen, SMTT(40) DEF SkipEntry, Nested
<1>7. Nested(z)
  BY <1>2, <1>4, <1>6 DEF SkipEntry, Nested, Shape
<1>8. Quiet(e') /\ Nested(e') /\ Counted(e')
  BY <1>1, <1>2, <1>3, <1>7, ExtendSound DEF SkipEntry
<1>. QED BY <1>8 DEF EmitterInv

\* The end of a DO: the outermost structure closes.
LEMMA CloseDoSound ==
    ASSUME NEW x, Quiet(x), Nested(x), Counted(x), Last(x.open).kind = "do", Len(x.open) # 0,
           NEW y, y = emit_do_tail(x)
    PROVE  Quiet(y) /\ Nested(y) /\ Counted(y)
<1>3. Len(x.code) \in Nat /\ Len(x.open) \in Nat /\ Len(x.open) > 0
  BY SeqUpdate DEF Quiet, Core, Nested
<1>4. Last(x.open) = x.open[Len(x.open)]
  BY <1>3, NestedClose DEF Nested
<1>5. Len(x.open) = 1 /\ Len(x.scopes) = 2 /\ Len(x.arms) = 0
  BY <1>4 DEF Nested, Shape
<1>6. Last(x.open).exit \in 1 .. Len(x.code) /\ Last(x.open).after \in 1 .. Len(x.code)
  BY <1>4, <1>5 DEF Nested, Named
<1>s. Len(x.scopes) > 1
  BY <1>5
<1>7. /\ Quiet(y) /\ Len(y.scopes) = Len(x.scopes) - 1 /\ y.arms = x.arms
      /\ y.open = Front(x.open) /\ y.prog = x.prog /\ y.slot = x.slot
      /\ Len(y.code) >= Len(x.code)
  BY Quiet(x), y = emit_do_tail(x), <1>s, <1>6, DoTailSound
<1>8. Len(y.code) \in Nat /\ IsSeq(x.open) /\ Named(x.open, Len(x.code))
  BY <1>7, SeqUpdate DEF Quiet, Core, Nested
<1>9. /\ IsSeq(Front(x.open)) /\ Named(Front(x.open), Len(y.code))
      /\ Len(Front(x.open)) = Len(x.open) - 1
  BY <1>3, <1>7, <1>8, NestedClose
<1>10. Len(y.open) = 0 /\ Len(y.scopes) = 1 /\ Len(y.arms) = 0
  BY <1>5, <1>7, <1>9
<1>11. Shape(y.open, Len(y.scopes), Len(y.arms))
  BY <1>10 DEF Shape
<1>12. Counted(y)
  BY <1>7 DEF Counted
<1>. QED BY <1>7, <1>9, <1>11, <1>12 DEF Nested

\* The end of a DO, as an action.
LEMMA CloseDoInv ==
    ASSUME EmitterInv, CloseDo
    PROVE  EmitterInv'
<1>1. Quiet(e) /\ Nested(e) /\ Counted(e) /\ Last(e.open).kind = "do" /\ Len(e.open) # 0
  BY OpenKinds DEF EmitterInv, CloseDo
<1>2. e' = emit_do_tail(e)
  BY DEF CloseDo, Close
<1>3. Quiet(e') /\ Nested(e') /\ Counted(e')
  BY <1>1, <1>2, CloseDoSound
<1>. QED BY <1>3 DEF EmitterInv

\* The end of a skip, alone or inside a DO.
LEMMA CloseSkipSound ==
    ASSUME NEW x, Quiet(x), Nested(x), Counted(x), Last(x.open).kind = "skip", Len(x.open) # 0,
           NEW y, y = close_skip(x)
    PROVE  Quiet(y) /\ Nested(y) /\ Counted(y)
<1>3. Len(x.code) \in Nat /\ Len(x.open) \in Nat /\ Len(x.open) > 0
  BY SeqUpdate DEF Quiet, Core, Nested
<1>4. Last(x.open) = x.open[Len(x.open)]
  BY <1>3, NestedClose DEF Nested
<1>5. /\ Len(x.arms) = 1
      /\ \/ Len(x.open) = 1 /\ Len(x.scopes) = 1
         \/ Len(x.open) = 2 /\ x.open[1].kind = "do" /\ Len(x.scopes) = 2
  BY <1>4 DEF Nested, Shape
<1>6. Last(x.open).after \in 1 .. Len(x.code)
  BY <1>3, <1>4 DEF Nested, Named
<1>s. Len(x.arms) > 0
  BY <1>5
<1>7. /\ Quiet(y) /\ Len(y.scopes) = Len(x.scopes) /\ y.arms = Front(x.arms)
      /\ y.open = Front(x.open) /\ y.prog = x.prog /\ y.slot = x.slot
      /\ Len(y.code) = Len(x.code)
  BY Quiet(x), y = close_skip(x), <1>s, <1>6, SkipCloseSound
<1>8. /\ Len(y.code) \in Nat /\ IsSeq(x.open) /\ Named(x.open, Len(x.code)) /\ IsSeq(x.arms)
      /\ Len(x.code) <= Len(y.code)
  BY <1>3, <1>7 DEF Quiet, Core, Nested
<1>9. Len(y.arms) = 0
  <2>1. Len(Front(x.arms)) = Len(x.arms) - 1
    BY <1>s, <1>8, SeqFront
  <2>. QED BY <1>5, <1>7, <2>1
<1>10. /\ IsSeq(Front(x.open)) /\ Named(Front(x.open), Len(y.code))
       /\ Len(Front(x.open)) = Len(x.open) - 1
       /\ \A k \in 1 .. Len(x.open) - 1 : Front(x.open)[k] = x.open[k]
  BY <1>3, <1>8, NestedClose
<1>11. \/ Len(y.open) = 0 /\ Len(y.scopes) = 1
       \/ Len(y.open) = 1 /\ y.open[1].kind = "do" /\ Len(y.scopes) = 2
  <2>1. CASE Len(x.open) = 1 /\ Len(x.scopes) = 1
    BY <1>7, <1>10, <2>1
  <2>2. CASE Len(x.open) = 2 /\ x.open[1].kind = "do" /\ Len(x.scopes) = 2
    <3>1. Len(y.open) = 1 /\ 1 \in 1 .. Len(x.open) - 1
      BY <1>7, <1>10, <2>2
    <3>2. y.open[1] = x.open[1]
      BY <1>7, <1>10, <3>1
    <3>. QED BY <1>7, <2>2, <3>1, <3>2
  <2>. QED BY <1>5, <2>1, <2>2
<1>12. Shape(y.open, Len(y.scopes), Len(y.arms))
  BY <1>9, <1>11 DEF Shape
<1>13. Counted(y)
  BY <1>7 DEF Counted
<1>. QED BY <1>7, <1>10, <1>12, <1>13 DEF Nested

\* The end of a skip, as an action.
LEMMA CloseSkipInv ==
    ASSUME EmitterInv, CloseSkip
    PROVE  EmitterInv'
<1>1. Quiet(e) /\ Nested(e) /\ Counted(e) /\ Last(e.open).kind = "skip" /\ Len(e.open) # 0
  BY OpenKinds DEF EmitterInv, CloseSkip
<1>2. e' = close_skip(e)
  BY DEF CloseSkip, Close
<1>3. Quiet(e') /\ Nested(e') /\ Counted(e')
  BY <1>1, <1>2, CloseSkipSound
<1>. QED BY <1>3 DEF EmitterInv

\* finalize_and_return.
LEMMA StartInv ==
    ASSUME EmitterInv, Start
    PROVE  EmitterInv'
<1>1. Quiet(e) /\ Nested(e) /\ Counted(e)
  BY DEF EmitterInv
<1>2. e' = finalize_and_return(e)
  BY DEF Start
<1>3. Quiet(e') /\ Frame(e') = Frame(e) /\ Place(e') = Place(e)
  BY <1>1, <1>2, FinalizeSound
<1>. QED BY <1>1, <1>3 DEF EmitterInv, Nested, Counted, Frame, Place

\* A fresh emitter.
LEMMA EmitterInit ==
    ASSUME Init
    PROVE  EmitterInv
<1>. DEFINE c == [ops |-> <<>>, term |-> <<"none">>]
            d == [pre |-> 1, deferred |-> {}, entry |-> {}]
<1>1. /\ DOMAIN e = Fields /\ e.code = <<c, c>> /\ e.cur = 2 /\ e.base = 1 /\ e.arms = <<>>
      /\ e.valid = {} /\ e.dirty = {} /\ e.scopes = <<d>> /\ e.pending = None
      /\ e.pending_sm_marker = 0 /\ e.slot = 0 /\ e.cond_keep_flags = 0 /\ e.cond_depth = 0
      /\ e.panic = FALSE /\ e.open = <<>> /\ e.prog = <<>>
  BY DEF Init, InitEmitter, Fields
<1>. HIDE DEF c, d
<1>2. /\ e.code \in Seq({c}) /\ Len(e.code) = 2 /\ e.scopes \in Seq({d}) /\ Len(e.scopes) = 1
      /\ <<>> \in Seq({}) /\ Len(<<>>) = 0
  BY <1>1
<1>3. IsSeq(e.code) /\ IsSeq(e.scopes) /\ IsSeq(<<>>)
  BY <1>2 DEF IsSeq
<1>4. Core(e)
  BY <1>1, <1>2, <1>3 DEF Core
<1>5. Quiet(e)
  BY <1>1, <1>4 DEF Quiet, PendingOk
<1>6. Nested(e)
  BY <1>1, <1>2, <1>3 DEF Nested, Shape, Named
<1>7. Counted(e)
  BY <1>1, <1>2, <1>3, CodegenAssumption DEF Counted
<1>. QED BY <1>5, <1>6, <1>7 DEF EmitterInv

\* Every step keeps the invariant; running the code leaves the emitter alone.
LEMMA EmitterNext ==
    ASSUME EmitterInv, phase \in {"emit", "run", "done"}, [Next]_vars
    PROVE  EmitterInv' /\ phase' \in {"emit", "run", "done"}
<1>1. ASSUME NEW i \in Insts, EmitPlain(i) \/ EmitRep(i)
      PROVE  EmitterInv' /\ phase' = phase
  BY <1>1, PlainInv, RepInv DEF EmitPlain, EmitRep, Extend
<1>2. CASE OpenDo
  BY <1>2, OpenDoInv DEF OpenDo, Extend
<1>3. CASE CloseDo
  BY <1>3, CloseDoInv DEF CloseDo, Close
<1>4. CASE OpenSkip
  BY <1>4, OpenSkipInv DEF OpenSkip, Extend
<1>5. CASE CloseSkip
  BY <1>5, CloseSkipInv DEF CloseSkip, Close
<1>6. CASE Start
  BY <1>6, StartInv DEF Start
<1>7. CASE RunBlock
  <2>1. e' = e /\ phase' \in {phase, "done"}
    BY <1>7 DEF RunBlock
  <2>. QED BY <2>1 DEF EmitterInv
<1>8. CASE UNCHANGED vars
  BY <1>8 DEF vars, EmitterInv
<1>. QED BY <1>1, <1>2, <1>3, <1>4, <1>5, <1>6, <1>7, <1>8 DEF Next

\* The invariant gives the property.
LEMMA EmitterImplies ==
    ASSUME EmitterInv, phase \in {"emit", "run", "done"}
    PROVE  EmitterSound
<1>. DEFINE D == {i \in DOMAIN e.open : e.open[i].kind = "do"}
            K == {i \in DOMAIN e.open : e.open[i].kind = "skip"}
<1>1. Quiet(e) /\ Nested(e) /\ Counted(e) /\ Core(e)
  BY DEF EmitterInv, Quiet
<1>2. DOMAIN e.open = 1 .. Len(e.open) /\ Len(e.open) \in Nat
      /\ DOMAIN e.code = 1 .. Len(e.code) /\ Len(e.prog) \in Nat
  BY <1>1, SeqUpdate DEF Core, Nested, Counted
<1>3. Len(e.scopes) = 1 + Cardinality(D) /\ e.cond_depth = Cardinality(K)
  <2>0. Cardinality({}) = 0 /\ Cardinality({1}) = 1 /\ Cardinality({2}) = 1
    BY FS_EmptySet, FS_Singleton
  <2>c. e.cond_depth = Len(e.arms)
    BY <1>1 DEF Core
  <2>1. CASE Len(e.open) = 0 /\ Len(e.scopes) = 1 /\ Len(e.arms) = 0
    <3>1. D = {} /\ K = {}
      BY <1>2, <2>1
    <3>. HIDE DEF D, K
    <3>. QED BY <2>0, <2>c, <2>1, <3>1
  <2>2. CASE /\ Len(e.open) = 1 /\ e.open[1].kind = "do"
             /\ Len(e.scopes) = 2 /\ Len(e.arms) = 0
    <3>1. D = {1} /\ K = {}
      BY <1>2, <2>2
    <3>. HIDE DEF D, K
    <3>. QED BY <2>0, <2>c, <2>2, <3>1
  <2>3. CASE /\ Len(e.open) = 1 /\ e.open[1].kind = "skip"
             /\ Len(e.scopes) = 1 /\ Len(e.arms) = 1
    <3>1. D = {} /\ K = {1}
      BY <1>2, <2>3
    <3>. HIDE DEF D, K
    <3>. QED BY <2>0, <2>c, <2>3, <3>1
  <2>4. CASE /\ Len(e.open) = 2 /\ e.open[1].kind = "do" /\ e.open[2].kind = "skip"
             /\ Len(e.scopes) = 2 /\ Len(e.arms) = 1
    <3>1. D = {1} /\ K = {2}
      BY <1>2, <2>4
    <3>. HIDE DEF D, K
    <3>. QED BY <2>0, <2>c, <2>4, <3>1
  <2>. HIDE DEF D, K
  <2>. QED BY <1>1, <2>1, <2>2, <2>3, <2>4 DEF Nested, Shape
<1>4. e.slot \in 0 .. 2 * MaxInst
  BY <1>1, <1>2, CodegenAssumption DEF Core, Counted
<1>5. TypeOK
  BY <1>1, <1>2, <1>3, <1>4 DEF TypeOK, Core
<1>6. MarkerOwned
  <2>1. CASE e.pending = None /\ e.pending_sm_marker = 0
    BY <2>1 DEF MarkerOwned
  <2>2. ASSUME NEW k \in DOMAIN Parts, NEW t \in Nat \ {0},
               e.pending = [kind |-> k, t |-> t],
               e.pending_sm_marker = IF consumes_sm_marker(k) THEN t ELSE 0
        PROVE  MarkerOwned
    <3>1. e.pending.kind = k /\ e.pending.t = t /\ e.pending # None
      BY <2>2 DEF None
    <3>2. HasSm(k) <=> consumes_sm_marker(k)
      BY MarkerKinds
    <3>. QED BY <2>2, <3>1, <3>2 DEF MarkerOwned, HasSm
  <2>. QED BY <1>1, <2>1, <2>2 DEF Quiet, PendingOk
<1>. QED BY <1>1, <1>5, <1>6 DEF EmitterSound, NoStrandedFlags, DirtyIsValid, Core

\* Every program, of any length the bound allows and any mix of instructions,
\* loops and skips: no flush or SR store happens inside a keep-flags region, a
\* saturation marker belongs to the pending computation, dirty variables are
\* valid, and loop scopes and conditional regions nest with what is open.
THEOREM EmitterCorrect == Spec => []EmitterSound
<1>. DEFINE Inv == EmitterInv /\ phase \in {"emit", "run", "done"}
<1>1. Init => Inv
  BY EmitterInit DEF Init
<1>2. Inv /\ [Next]_vars => Inv'
  BY EmitterNext
<1>3. Inv => EmitterSound
  BY EmitterImplies
<1>. QED BY <1>1, <1>2, <1>3, PTL DEF Spec
===============================================================================
