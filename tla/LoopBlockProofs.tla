---------------------------- MODULE LoopBlockProofs ----------------------------
(***************************************************************************)
(* Loops in compiled blocks: the loops a block is inside of are the frames *)
(* on the stack (LoopsOnStack), and blocks with inlined loops implement    *)
(* the step machine (BlocksImplementStep).  First what the emitter's walks *)
(* compute, then the loop frames, then one lemma per action for each.      *)
(***************************************************************************)
EXTENDS LoopBlock, TLAPS, FiniteSetTheorems, SequenceTheorems, WellFoundedInduction

-------------------------------------------------------------------------------
(* Minimal counterexamples, addresses, instructions.                       *)

\* A nonempty set of naturals has a least element.
LEMMA NatMinimum ==
    ASSUME NEW S \in SUBSET Nat, S # {}
    PROVE  \E x \in S : \A y \in S : x <= y
<1>1. PICK x \in S : \A y \in S : ~(<<y, x>> \in OpToRel(<, Nat))
  BY NatLessThanWellFounded, WFMin
<1>2. \A y \in S : ~(y < x)
  BY <1>1, Zenon DEF OpToRel
<1>. QED BY <1>2

\* mask_pc wraps an address that has run behind the memory.
LEMMA MaskPc ==
    /\ \A p \in Addrs : mask_pc(p) = p
    /\ mask_pc(Size) = 0
    /\ \A p \in Nat : mask_pc(p) \in Addrs
<1>. USE LoopAssumption DEF mask_pc, Addrs
<1>1. ASSUME NEW p \in Addrs PROVE p % Size = p
  OBVIOUS
<1>2. Size % Size = 0
  OBVIOUS
<1>3. ASSUME NEW p \in Nat PROVE p % Size \in Addrs
  OBVIOUS
<1>. QED BY <1>1, <1>2, <1>3

\* The word at an address is an instruction; the next one is behind it.
LEMMA Instruction ==
    ASSUME NEW c \in Codes, NEW p \in Nat
    PROVE  /\ At(c, p).op \in Ops /\ At(c, p).to \in Addrs /\ At(c, p).len \in {1, 2}
           /\ At(c, p).arg \in 0 .. LcMod - 1
           /\ Behind(c, p) \in Nat /\ p < Behind(c, p)
           /\ p < Size => /\ At(c, p) = c[p] /\ Behind(c, p) <= Size
                          /\ p + At(c, p).len <= Size
                          /\ At(c, p).op = "do" => Behind(c, p) = p + 2 /\ At(c, p).len = 2
                          /\ At(c, p).op = "rep" => /\ Behind(c, p) = p + 2 /\ p + 1 < Size
                                                    /\ At(c, p).len = 1
                                                    /\ At(c, p + 1).len = 1
                                                    /\ At(c, p + 1).op \in {"plain", "pop"}
                          /\ At(c, p).op # "rep" => Behind(c, p) = p + At(c, p).len
<1>. DEFINE a == mask_pc(p)
            b == mask_pc(p + 1)
<1>1. a \in Addrs /\ b \in Addrs /\ Size \in Nat
  BY MaskPc, LoopAssumption
<1>2. /\ c[a].op \in Ops /\ c[a].to \in Addrs /\ c[a].len \in {1, 2}
      /\ c[a].arg \in 0 .. LcMod - 1 /\ a + c[a].len <= Size /\ c[b].len \in {1, 2}
      /\ c[a].op = "do" => c[a].len = 2
      /\ c[a].op = "rep" => /\ c[a].len = 1 /\ a + 1 < Size
                            /\ c[a + 1].op \in {"plain", "pop"} /\ c[a + 1].len = 1
  BY <1>1, LoopAssumption DEF IsLoop
<1>3. Behind(c, p) = p + c[a].len + (IF c[a].op = "rep" THEN c[b].len ELSE 0)
  BY DEF Behind, At
<1>4. ASSUME p < Size PROVE a = p /\ (p + 1 < Size => b = p + 1)
  BY <1>4, <1>1, MaskPc DEF Addrs
<1>5. Behind(c, p) \in Nat /\ p < Behind(c, p)
  BY <1>2, <1>3
<1>. HIDE DEF a, b
<1>6. At(c, p) = c[a] /\ At(c, p + 1) = c[b]
  BY DEF At, a, b
<1>7. CASE p < Size
  <2>1. a = p /\ At(c, p) = c[p]
    BY <1>4, <1>6, <1>7
  <2>2. Behind(c, p) <= Size /\ p + c[p].len <= Size
    <3>1. CASE c[p].op = "rep"
      BY <3>1, <1>1, <1>2, <1>3, <1>4, <1>7, <2>1
    <3>2. CASE c[p].op # "rep"
      BY <3>2, <1>1, <1>2, <1>3, <2>1
    <3>. QED BY <3>1, <3>2
  <2>3. ASSUME c[p].op = "rep"
        PROVE  /\ Behind(c, p) = p + 2 /\ p + 1 < Size
               /\ c[p].len = 1 /\ c[b].len = 1 /\ c[b].op \in {"plain", "pop"}
    BY <2>3, <1>1, <1>2, <1>3, <1>4, <1>7, <2>1
  <2>4. /\ c[p].op = "do" => Behind(c, p) = p + 2 /\ c[p].len = 2
        /\ c[p].op # "rep" => Behind(c, p) = p + c[p].len
    BY <1>1, <1>2, <1>3, <2>1
  <2>. QED BY <1>2, <1>5, <1>6, <2>1, <2>2, <2>3, <2>4
<1>8. CASE ~(p < Size)
  BY <1>2, <1>5, <1>6, <1>8
<1>. QED BY <1>7, <1>8

-------------------------------------------------------------------------------
(* Walk.  The recursive function exists: the closed sets of addresses give *)
(* one.  Then its equation says what a walk is, from its end backwards.    *)

WalkEquation(c, f, lo, hi) ==
    \A p \in lo .. hi :
      f[p] = {p} \cup (IF Behind(c, p) <= hi THEN f[Behind(c, p)] ELSE {})

\* Walk is defined by its recursion equation.
LEMMA WalkUnfolds ==
    ASSUME NEW c \in Codes, NEW lo \in Nat, NEW hi \in Nat, lo <= hi
    PROVE  \E f : Walk(c, lo, hi) = f[lo] /\ WalkEquation(c, f, lo, hi)
<1>. DEFINE R == lo .. hi
            Rhs(f) == [p \in R |-> {p} \cup (IF Behind(c, p) <= hi THEN f[Behind(c, p)]
                                             ELSE {})]
            Closed(S) == \A x \in S : Behind(c, x) <= hi => Behind(c, x) \in S
            g == [p \in R |-> {q \in R : \A S \in SUBSET R : p \in S /\ Closed(S) => q \in S}]
<1>1. \A x \in R : Behind(c, x) \in Nat /\ x < Behind(c, x)
  BY Instruction
<1>2. ASSUME NEW p \in R PROVE p \in g[p] /\ g[p] \subseteq R
  OBVIOUS
<1>3. ASSUME NEW p \in R PROVE Closed(g[p])
  <2>1. ASSUME NEW x \in g[p], Behind(c, x) <= hi PROVE Behind(c, x) \in g[p]
    <3>1. Behind(c, x) \in R
      BY <1>1, <2>1
    <3>2. ASSUME NEW S \in SUBSET R, p \in S, Closed(S) PROVE Behind(c, x) \in S
      BY <2>1, <3>2
    <3>. QED BY <3>1, <3>2
  <2>. QED BY <2>1
<1>4. ASSUME NEW p \in R PROVE g[p] = Rhs(g)[p]
  <2>. DEFINE T == Rhs(g)[p]
  <2>1. CASE Behind(c, p) <= hi
    <3>1. Behind(c, p) \in R /\ T = {p} \cup g[Behind(c, p)]
      BY <1>1, <2>1
    <3>. HIDE DEF T
    <3>2. ASSUME NEW q \in g[Behind(c, p)] PROVE q \in g[p]
      <4>1. ASSUME NEW S \in SUBSET R, p \in S, Closed(S) PROVE q \in S
        BY <2>1, <3>1, <4>1
      <4>. QED BY <3>1, <4>1
    <3>3. T \in SUBSET R /\ p \in T
      BY <1>2, <3>1
    <3>4. Closed(T)
      <4>1. Closed(g[Behind(c, p)]) /\ Behind(c, p) \in g[Behind(c, p)]
        BY <1>2, <1>3, <3>1
      <4>. HIDE DEF g
      <4>. QED BY <3>1, <4>1
    <3>5. g[p] \subseteq T
      BY <3>3, <3>4
    <3>6. T \subseteq g[p]
      <4>1. p \in g[p]
        BY <1>2
      <4>. HIDE DEF g
      <4>. QED BY <3>1, <3>2, <4>1
    <3>7. g[p] = T
      <4>. HIDE DEF g
      <4>. QED BY <3>5, <3>6
    <3>. QED BY <3>7 DEF T
  <2>2. CASE ~(Behind(c, p) <= hi)
    <3>1. T = {p}
      BY <2>2
    <3>2. Closed({p}) /\ {p} \in SUBSET R
      BY <2>2
    <3>3. g[p] \subseteq {p}
      BY <3>2
    <3>4. p \in g[p]
      BY <1>2
    <3>5. g[p] = {p}
      <4>. HIDE DEF g
      <4>. QED BY <3>3, <3>4
    <3>. QED BY <3>1, <3>5 DEF T
  <2>. QED BY <2>1, <2>2
<1>5. g = Rhs(g)
  <2>1. g = [p \in R |-> g[p]]
    OBVIOUS
  <2>2. Rhs(g) = [p \in R |-> Rhs(g)[p]]
    OBVIOUS
  <2>. HIDE DEF g, Rhs
  <2>. QED BY <1>4, <2>1, <2>2
<1>. HIDE DEF g
<1>. DEFINE f == CHOOSE x : x = Rhs(x)
<1>6. f = Rhs(f)
  BY <1>5
<1>7. Walk(c, lo, hi) = f[lo]
  BY DEF Walk
<1>8. WalkEquation(c, f, lo, hi)
  <2>. HIDE DEF f
  <2>. QED BY <1>6 DEF WalkEquation
<1>. HIDE DEF f
<1>. QED BY <1>7, <1>8

\* What a walk is: it starts at lo, stays inside, goes from each instruction
\* to the one behind it, and its instructions do not overlap.
Chained(c, S, lo, hi) ==
    /\ lo \in S /\ S \subseteq lo .. hi
    /\ \A q \in S : Behind(c, q) <= hi => Behind(c, q) \in S
    /\ \A q, r \in S : q < r => Behind(c, q) <= r

\* Walk collects the instruction starts from lo up to hi, each one behind the one before.
LEMMA WalkChained ==
    ASSUME NEW c \in Codes, NEW lo \in Nat, NEW hi \in Nat, lo <= hi
    PROVE  Chained(c, Walk(c, lo, hi), lo, hi)
<1>1. PICK f : Walk(c, lo, hi) = f[lo] /\ WalkEquation(c, f, lo, hi)
  BY WalkUnfolds
<1>2. \A x \in Nat : Behind(c, x) \in Nat /\ x < Behind(c, x)
  BY Instruction
<1>. DEFINE Bad == {k \in Nat : k <= hi - lo /\ ~Chained(c, f[hi - k], hi - k, hi)}
<1>3. Bad = {}
  <2>. SUFFICES ASSUME Bad # {} PROVE FALSE
    OBVIOUS
  <2>1. PICK k \in Bad : \A j \in Bad : k <= j
    <3>1. Bad \in SUBSET Nat
      OBVIOUS
    <3>. HIDE DEF Bad
    <3>. QED BY <3>1, NatMinimum
  <2>. DEFINE p == hi - k
              b == Behind(c, p)
  <2>2. p \in lo .. hi /\ ~Chained(c, f[p], p, hi) /\ p \in Nat /\ b \in Nat /\ p < b
    BY <1>2, <2>1
  <2>3. CASE b <= hi
    <3>1. Chained(c, f[b], b, hi)
      <4>1. hi - b \in Nat /\ hi - b < k /\ hi - b <= hi - lo /\ hi - (hi - b) = b
        BY <2>2, <2>3
      <4>2. hi - b \notin Bad
        BY <2>1, <4>1
      <4>. QED BY <4>1, <4>2
    <3>2. f[p] = {p} \cup f[b]
      BY <1>1, <2>2, <2>3 DEF WalkEquation
    <3>. HIDE DEF p, b
    <3>3. f[b] \subseteq b .. hi /\ b \in f[b]
      BY <3>1 DEF Chained
    <3>4. p \in f[p] /\ f[p] \subseteq p .. hi
      BY <2>2, <2>3, <3>2, <3>3
    <3>5. ASSUME NEW q \in f[p], Behind(c, q) <= hi PROVE Behind(c, q) \in f[p]
      BY <3>1, <3>2, <3>3, <3>5 DEF Chained, b
    <3>6. ASSUME NEW q \in f[p], NEW r \in f[p], q < r PROVE Behind(c, q) <= r
      <4>1. CASE q = p
        <5>1. r \in f[b]
          BY <2>2, <3>2, <3>6, <4>1
        <5>. QED BY <3>3, <4>1, <5>1, <2>2 DEF b
      <4>2. CASE q # p
        <5>1. q \in f[b] /\ q >= b /\ q \in Nat
          BY <2>2, <3>2, <3>3, <4>2
        <5>2. r \in f[b]
          BY <2>2, <3>2, <3>3, <3>6, <5>1
        <5>. QED BY <3>1, <3>6, <5>1, <5>2 DEF Chained
      <4>. QED BY <4>1, <4>2
    <3>. QED BY <2>2, <3>4, <3>5, <3>6 DEF Chained
  <2>4. CASE ~(b <= hi)
    <3>1. f[p] = {p}
      BY <1>1, <2>2, <2>4 DEF WalkEquation
    <3>. HIDE DEF p
    <3>. QED BY <2>2, <2>4, <3>1 DEF Chained
  <2>. QED BY <2>3, <2>4
<1>4. hi - lo \in Nat /\ hi - (hi - lo) = lo
  OBVIOUS
<1>5. Chained(c, f[lo], lo, hi)
  <2>. DEFINE d == hi - lo
  <2>1. d \in Nat /\ d <= hi - lo
    OBVIOUS
  <2>2. Chained(c, f[hi - d], hi - d, hi)
    BY <1>3, <2>1
  <2>. QED BY <1>4, <2>2, Zenon
<1>. QED BY <1>1, <1>5

\* A boundary of a walk is reached, never jumped over.
LEMMA BoundaryReached ==
    ASSUME NEW c \in Codes, NEW lo \in Nat, NEW hi \in Nat, lo <= hi,
           NEW r \in Boundaries(c, lo, hi), NEW q \in Walk(c, lo, hi), q < r
    PROVE  Behind(c, q) <= r
<1>1. Chained(c, Walk(c, lo, hi), lo, hi)
  BY WalkChained
<1>2. q \in Nat /\ lo <= q
  BY <1>1 DEF Chained
<1>3. PICK x \in Walk(c, lo, hi) : r = Behind(c, x)
  <2>1. r = lo \/ \E x \in Walk(c, lo, hi) : r = Behind(c, x)
    BY Zenon DEF Boundaries
  <2>. QED BY <1>2, <2>1
<1>4. x \in Nat /\ x < Behind(c, x) /\ Behind(c, x) \in Nat
  BY <1>1, Instruction DEF Chained
<1>5. CASE q < x
  BY <1>1, <1>2, <1>3, <1>4, <1>5, Instruction DEF Chained
<1>6. CASE q = x
  BY <1>3, <1>4, <1>6
<1>7. CASE x < q
  BY <1>1, <1>3, <1>7, <1>2, <1>4 DEF Chained
<1>. QED BY <1>2, <1>4, <1>5, <1>6, <1>7

\* A boundary that is not behind the walk is one of its instructions.
LEMMA BoundaryInside ==
    ASSUME NEW c \in Codes, NEW lo \in Nat, NEW hi \in Nat, lo <= hi,
           NEW r \in Boundaries(c, lo, hi), r <= hi
    PROVE  r \in Walk(c, lo, hi)
BY WalkChained DEF Chained, Boundaries

\* The instructions of a walk, none if it is empty, are counted.
LEMMA ChargeType ==
    ASSUME NEW c \in Codes, NEW lo \in Nat, NEW hi \in Int
    PROVE  /\ Charge(c, lo, hi) \in Nat
           /\ hi < lo => Charge(c, lo, hi) = 0 /\ Walk(c, lo, hi) = {}
<1>. DEFINE W == Walk(c, lo, hi)
            V == {p \in W : At(c, p).op = "rep"}
<1>1. hi < lo => W = {}
  BY DEF Walk
<1>2. IsFiniteSet(W)
  <2>1. CASE lo <= hi
    <3>1. W \subseteq lo .. hi
      BY <2>1, WalkChained DEF Chained
    <3>. QED BY <3>1, FS_Interval, FS_Subset
  <2>2. CASE hi < lo
    BY <1>1, <2>2, FS_EmptySet
  <2>. QED BY <2>1, <2>2
<1>3. V \subseteq W /\ IsFiniteSet(V)
  BY <1>2, FS_Subset
<1>4. Cardinality(W) \in Nat /\ Cardinality(V) \in Nat
  BY <1>2, <1>3, FS_CardinalityType
<1>5. Charge(c, lo, hi) = Cardinality(W) + Cardinality(V)
  BY DEF Charge
<1>6. ASSUME hi < lo PROVE Cardinality(W) = 0 /\ Cardinality(V) = 0
  <2>1. W = {} /\ V = {}
    BY <1>1, <1>6
  <2>. QED BY <2>1, FS_EmptySet, Zenon
<1>. HIDE DEF W, V
<1>7. Charge(c, lo, hi) \in Nat
  BY <1>4, <1>5
<1>8. ASSUME hi < lo PROVE Charge(c, lo, hi) = 0
  BY <1>5, <1>6, <1>8
<1>. QED BY <1>1, <1>7, <1>8 DEF W

-------------------------------------------------------------------------------
(* EndFrom.  Every step of the recursion goes up, so the function can be   *)
(* built from the end of memory downwards.                                 *)

Counts(max) == 0 .. max + MaxInline + 2
Follows(c, p, stop) == IF InlinesDo(c, p, stop) THEN At(c, p).to + 1 ELSE Behind(c, p)
Counted(c, p, n, stop) == n + 1 + (IF InlinesDo(c, p, stop) THEN Charge(c, p + 2, At(c, p).to)
                                   ELSE IF InlinesRep(c, p) THEN 1 ELSE 0)
Region(c, p) == 1 + Charge(c, Behind(c, p), At(c, p).to - 1)
TakesSkip(c, max, p, n, stop) ==
    At(c, p).op = "bcc" /\ IsSkipInlineable(c, p, stop) /\ n + Region(c, p) <= max

\* The equation of EndFrom.
EndBody(c, max, stop, f, p, n) ==
    IF n >= max \/ p >= Size THEN p
    ELSE IF TakesSkip(c, max, p, n, stop) THEN f[At(c, p).to][n + Region(c, p)]
    ELSE IF At(c, p).op \in Terminators \/ (At(c, p).op = "do" /\ ~InlinesDo(c, p, stop))
         THEN Follows(c, p, stop)
    ELSE IF At(c, p).op = "rep" /\ ~InlinesRep(c, p) THEN p + 1
    ELSE IF Follows(c, p, stop) >= stop THEN Follows(c, p, stop)
    ELSE f[Follows(c, p, stop)][Counted(c, p, n, stop)]

\* The instruction that follows is further on, in memory or right behind it,
\* and the count stays in its range.
LEMMA FollowsUp ==
    ASSUME NEW c \in Codes, NEW max \in Nat, NEW stop \in Nat, NEW p \in Nat, p < Size,
           NEW n \in Nat, n < max
    PROVE  /\ Follows(c, p, stop) \in p + 1 .. Size
           /\ Counted(c, p, n, stop) \in Counts(max)
           /\ Region(c, p) \in Nat \ {0}
           /\ IsSkipInlineable(c, p, stop) => /\ At(c, p).to \in p + 1 .. Size
                                              /\ Behind(c, p) <= At(c, p).to
<1>1. /\ At(c, p).to \in Nat /\ At(c, p).to < Size
      /\ Behind(c, p) \in Nat /\ p < Behind(c, p) /\ Behind(c, p) <= Size
  BY Instruction, LoopAssumption DEF Addrs
<1>2. Size \in Nat /\ MaxInline \in Nat
  BY LoopAssumption, CapAssumption
<1>3. InlinesDo(c, p, stop) => /\ p + 2 <= At(c, p).to
                               /\ Charge(c, p + 2, At(c, p).to) <= MaxInline
  BY DEF InlinesDo, IsDoBodyInlineable
<1>4. /\ Charge(c, p + 2, At(c, p).to) \in Nat
      /\ Charge(c, Behind(c, p), At(c, p).to - 1) \in Nat
  <2>1. p + 2 \in Nat /\ At(c, p).to \in Int /\ At(c, p).to - 1 \in Int
    BY <1>1
  <2>. QED BY <1>1, <2>1, ChargeType
<1>5. IsSkipInlineable(c, p, stop) => Behind(c, p) <= At(c, p).to
  BY DEF IsSkipInlineable
<1>6. Follows(c, p, stop) \in p + 1 .. Size
  BY <1>1, <1>2, <1>3 DEF Follows
<1>7. Counted(c, p, n, stop) \in Counts(max)
  BY <1>2, <1>3, <1>4 DEF Counted, Counts
<1>. QED BY <1>1, <1>2, <1>4, <1>5, <1>6, <1>7 DEF Region

\* The body looks only at what lies behind p.
LEMMA EndBodyLocal ==
    ASSUME NEW c \in Codes, NEW max \in Nat, NEW stop \in Nat, NEW f, NEW g,
           NEW p \in Nat, NEW n \in Counts(max),
           \A q \in 0 .. Size + 1, k \in Counts(max) : p < q => f[q][k] = g[q][k]
    PROVE  EndBody(c, max, stop, f, p, n) = EndBody(c, max, stop, g, p, n)
<1>1. n \in Nat /\ Size \in Nat /\ MaxInline \in Nat
  BY LoopAssumption, CapAssumption DEF Counts
<1>2. CASE n >= max \/ p >= Size
  BY <1>2 DEF EndBody
<1>3. CASE ~(n >= max \/ p >= Size)
  <2>. DEFINE q == Follows(c, p, stop)
              k == Counted(c, p, n, stop)
              t == At(c, p).to
              r == n + Region(c, p)
  <2>1. p < Size /\ n < max
    BY <1>1, <1>3
  <2>2. q \in 0 .. Size + 1 /\ p < q /\ k \in Counts(max)
    BY <1>1, <2>1, FollowsUp
  <2>3. TakesSkip(c, max, p, n, stop) => t \in 0 .. Size + 1 /\ p < t /\ r \in Counts(max)
    <3>1. /\ Region(c, p) \in Nat
          /\ IsSkipInlineable(c, p, stop) => t \in p + 1 .. Size
      BY <2>1, <1>1, FollowsUp
    <3>2. ASSUME n + Region(c, p) <= max PROVE r \in Counts(max)
      BY <1>1, <3>1, <3>2 DEF Counts
    <3>3. t \in p + 1 .. Size => t \in 0 .. Size + 1 /\ p < t
      BY <1>1
    <3>. QED BY <3>1, <3>2, <3>3 DEF TakesSkip
  <2>4. f[q][k] = g[q][k]
    <3>. HIDE DEF q, k
    <3>. QED BY <2>2
  <2>5. TakesSkip(c, max, p, n, stop) => f[t][r] = g[t][r]
    <3>. HIDE DEF t, r
    <3>. QED BY <2>3
  <2>6. CASE TakesSkip(c, max, p, n, stop)
    <3>1. /\ EndBody(c, max, stop, f, p, n) = f[t][r]
          /\ EndBody(c, max, stop, g, p, n) = g[t][r]
      BY <1>3, <2>6, Zenon DEF EndBody
    <3>. QED BY <2>5, <2>6, <3>1, Zenon
  <2>7. CASE ~TakesSkip(c, max, p, n, stop)
    <3>1. \A h : EndBody(c, max, stop, h, p, n) =
                   IF At(c, p).op \in Terminators \/ (At(c, p).op = "do" /\ ~InlinesDo(c, p, stop))
                   THEN q
                   ELSE IF At(c, p).op = "rep" /\ ~InlinesRep(c, p) THEN p + 1
                   ELSE IF q >= stop THEN q
                   ELSE h[q][k]
      BY <1>3, <2>7, Zenon DEF EndBody
    <3>. HIDE DEF q, k
    <3>. QED BY <2>4, <3>1, Zenon
  <2>. QED BY <2>6, <2>7
<1>. QED BY <1>2, <1>3

\* EndFrom is defined by its recursion equation.
LEMMA EndUnfolds ==
    ASSUME NEW c \in Codes, NEW max \in Nat, NEW stop \in Nat,
           NEW p \in 0 .. Size + 1, NEW n \in Counts(max)
    PROVE  EndFrom(c, max, stop)[p][n] = EndBody(c, max, stop, EndFrom(c, max, stop), p, n)
<1>. DEFINE R == 0 .. Size + 1
            N == Counts(max)
            Rhs(f) == [q \in R |-> [k \in N |-> EndBody(c, max, stop, f, q, k)]]
            Solves(f, j) == \A q \in R, k \in N :
                              Size + 1 - q < j => f[q][k] = EndBody(c, max, stop, f, q, k)
            Bad == {j \in Nat : j <= Size + 2 /\ ~(\E f : Solves(f, j))}
<1>1. Size \in Nat /\ R \subseteq Nat
  BY LoopAssumption
<1>2. Bad = {}
  <2>. SUFFICES ASSUME Bad # {} PROVE FALSE
    OBVIOUS
  <2>1. PICK j \in Bad : \A i \in Bad : j <= i
    <3>1. Bad \in SUBSET Nat
      OBVIOUS
    <3>. HIDE DEF Bad
    <3>. QED BY <3>1, NatMinimum
  <2>2. j \in Nat /\ j <= Size + 2 /\ ~(\E f : Solves(f, j))
    BY <2>1
  <2>3. j # 0
    <3>1. Solves(0, 0)
      BY <1>1
    <3>. HIDE DEF Solves
    <3>. QED BY <2>2, <3>1
  <2>4. j - 1 \in Nat /\ j - 1 <= Size + 2 /\ j - 1 \notin Bad
    <3>. HIDE DEF Bad
    <3>. QED BY <1>1, <2>1, <2>2, <2>3
  <2>5. PICK f : Solves(f, j - 1)
    <3>. HIDE DEF Solves
    <3>. QED BY <2>4
  <2>. DEFINE g == [q \in R |-> [k \in N |-> IF Size + 1 - q < j - 1 THEN f[q][k]
                                             ELSE EndBody(c, max, stop, f, q, k)]]
  <2>6. ASSUME NEW q \in R, NEW k \in N, Size + 1 - q < j
        PROVE  g[q][k] = EndBody(c, max, stop, g, q, k)
    <3>1. \A y \in R, i \in N : q < y => f[y][i] = g[y][i]
      <4>1. ASSUME NEW y \in R, NEW i \in N, q < y PROVE f[y][i] = g[y][i]
        <5>1. Size + 1 - y < j - 1
          BY <1>1, <2>2, <2>6, <4>1
        <5>. QED BY <5>1
      <4>. QED BY <4>1
    <3>2. EndBody(c, max, stop, f, q, k) = EndBody(c, max, stop, g, q, k)
      <4>1. q \in Nat
        BY <1>1
      <4>. HIDE DEF g, Bad, Solves
      <4>. QED BY <3>1, <4>1, EndBodyLocal
    <3>3. g[q][k] = EndBody(c, max, stop, f, q, k)
      BY <2>5
    <3>. HIDE DEF g
    <3>. QED BY <3>2, <3>3
  <2>7. Solves(g, j)
    <3>. HIDE DEF g
    <3>. QED BY <2>6
  <2>. HIDE DEF g, Solves
  <2>. QED BY <2>2, <2>7
<1>3. PICK f : Solves(f, Size + 2)
  <2>1. Size + 2 \in Nat /\ Size + 2 <= Size + 2
    BY <1>1
  <2>. HIDE DEF Solves
  <2>. QED BY <1>2, <2>1
<1>. DEFINE g == [q \in R |-> [k \in N |-> f[q][k]]]
<1>4. ASSUME NEW q \in R, NEW k \in N PROVE g[q][k] = EndBody(c, max, stop, g, q, k)
  <2>1. q \in Nat /\ Size + 1 - q < Size + 2
    BY <1>1
  <2>2. g[q][k] = f[q][k] /\ f[q][k] = EndBody(c, max, stop, f, q, k)
    BY <1>3, <2>1
  <2>3. \A y \in R, i \in N : q < y => f[y][i] = g[y][i]
    OBVIOUS
  <2>4. EndBody(c, max, stop, f, q, k) = EndBody(c, max, stop, g, q, k)
    <3>. HIDE DEF g
    <3>. QED BY <2>1, <2>3, EndBodyLocal, SMTT(40)
  <2>. HIDE DEF g
  <2>. QED BY <2>2, <2>4
<1>5. g = Rhs(g)
  <2>1. g = [q \in R |-> [k \in N |-> g[q][k]]]
    OBVIOUS
  <2>. HIDE DEF g
  <2>. QED BY <1>4, <2>1
<1>. HIDE DEF g
<1>. DEFINE h == CHOOSE x : x = Rhs(x)
<1>6. h = Rhs(h)
  BY <1>5
<1>7. EndFrom(c, max, stop) = h
  BY Zenon DEF EndFrom, EndBody, Follows, Counted, Region, TakesSkip, Counts
<1>8. h[p][n] = EndBody(c, max, stop, h, p, n)
  <2>. HIDE DEF h
  <2>1. h[p] = Rhs(h)[p]
    BY <1>6, Zenon
  <2>2. Rhs(h)[p] = [k \in N |-> EndBody(c, max, stop, h, p, k)]
    BY Zenon
  <2>. QED BY <2>1, <2>2, Zenon
<1>. HIDE DEF h
<1>. QED BY <1>7, <1>8

\* A block ends behind where it starts, in memory or right behind it.
LEMMA EndBounds ==
    ASSUME NEW c \in Codes, NEW max \in Nat, NEW stop \in Nat,
           NEW p \in 0 .. Size, NEW n \in Counts(max)
    PROVE  /\ EndFrom(c, max, stop)[p][n] \in p .. Size
           /\ p < Size /\ n < max => p < EndFrom(c, max, stop)[p][n]
<1>. DEFINE E == EndFrom(c, max, stop)
            Fine(q, k) == E[q][k] \in q .. Size /\ (q < Size /\ k < max => q < E[q][k])
            Bad == {j \in Nat : j <= Size /\ ~(\A k \in Counts(max) : Fine(Size - j, k))}
<1>1. Size \in Nat
  BY LoopAssumption
<1>2. Bad = {}
  <2>. SUFFICES ASSUME Bad # {} PROVE FALSE
    OBVIOUS
  <2>1. PICK j \in Bad : \A i \in Bad : j <= i
    <3>1. Bad \in SUBSET Nat
      OBVIOUS
    <3>. HIDE DEF Bad
    <3>. QED BY <3>1, NatMinimum
  <2>. DEFINE q == Size - j
  <2>2. PICK k \in Counts(max) : ~Fine(q, k)
    <3>. HIDE DEF Fine
    <3>. QED BY <2>1
  <2>3. j \in Nat /\ j <= Size /\ q \in 0 .. Size /\ q \in Nat /\ k \in Nat
    BY <1>1, <2>1, CapAssumption DEF Counts
  <2>4. ASSUME NEW y \in 0 .. Size, q < y, NEW i \in Counts(max) PROVE E[y][i] \in y .. Size
    <3>. DEFINE d == Size - y
    <3>1. d \in Nat /\ d < j /\ d <= Size /\ Size - d = y
      BY <1>1, <2>3, <2>4
    <3>. HIDE DEF d
    <3>2. d \notin Bad
      <4>. HIDE DEF Bad
      <4>. QED BY <2>1, <2>3, <3>1
    <3>3. Fine(Size - d, i)
      <4>. HIDE DEF Fine
      <4>. QED BY <3>1, <3>2
    <3>. QED BY <3>1, <3>3
  <2>. HIDE DEF Bad, Fine, E
  <2>5. q \in 0 .. Size + 1 /\ E[q][k] = EndBody(c, max, stop, E, q, k)
    <3>1. q \in 0 .. Size + 1
      BY <1>1, <2>3
    <3>. HIDE DEF q
    <3>. QED BY <3>1, EndUnfolds DEF E
  <2>. HIDE DEF q
  <2>6. CASE k >= max \/ q >= Size
    BY <1>1, <2>2, <2>3, <2>5, <2>6 DEF EndBody, Fine
  <2>7. CASE ~(k >= max \/ q >= Size)
    <3>. DEFINE y == Follows(c, q, stop)
                i == Counted(c, q, k, stop)
                t == At(c, q).to
                r == k + Region(c, q)
    <3>1. k < max /\ q < Size
      BY <1>1, <2>3, <2>7
    <3>2. /\ y \in q + 1 .. Size /\ i \in Counts(max)
          /\ IsSkipInlineable(c, q, stop) => t \in q + 1 .. Size
          /\ Region(c, q) \in Nat
      BY <2>3, <3>1, FollowsUp
    <3>3. TakesSkip(c, max, q, k, stop) => r \in Counts(max) /\ t \in q + 1 .. Size
      <4>1. k + Region(c, q) <= max => r \in Counts(max)
        BY <2>3, <3>2, CapAssumption DEF Counts
      <4>. QED BY <3>2, <4>1 DEF TakesSkip
    <3>. HIDE DEF y, i, t, r
    <3>4. /\ E[y][i] \in y .. Size
          /\ TakesSkip(c, max, q, k, stop) => E[t][r] \in t .. Size
      <4>1. y \in 0 .. Size /\ q < y
        BY <1>1, <2>3, <3>2
      <4>2. TakesSkip(c, max, q, k, stop) => t \in 0 .. Size /\ q < t
        BY <1>1, <2>3, <3>3
      <4>. QED BY <2>4, <3>2, <3>3, <4>1, <4>2
    <3>5. \/ TakesSkip(c, max, q, k, stop) /\ E[q][k] = E[t][r]
          \/ E[q][k] = y \/ E[q][k] = q + 1 \/ E[q][k] = E[y][i]
      BY <2>5, <2>7, Zenon DEF EndBody, y, i, t, r
    <3>6. E[q][k] \in q + 1 .. Size
      BY <1>1, <2>3, <3>1, <3>2, <3>3, <3>4, <3>5
    <3>. QED BY <1>1, <2>2, <2>3, <3>6 DEF Fine
  <2>. QED BY <2>6, <2>7
<1>. DEFINE d == Size - p
<1>3. d \in Nat /\ d <= Size /\ Size - d = p
  BY <1>1
<1>4. Fine(Size - d, n)
  <2>. HIDE DEF Fine, d
  <2>. QED BY <1>2, <1>3
<1>. QED BY <1>3, <1>4

\* The emitted code goes on at r, to the end of the block.
GoesOn(c, max, stop, end, r) ==
    r \in 0 .. Size /\ \E n \in Counts(max) : EndFrom(c, max, stop)[r][n] = end

\* Where the block goes on behind an instruction of its top level; it does not
\* pass the boundary it was compiled for.
LEMMA TopLevel ==
    ASSUME NEW c \in Codes, NEW max \in Nat, NEW stop \in Nat, NEW end, NEW p,
           GoesOn(c, max, stop, end, p), p # end
    PROVE  LET i == At(c, p)
               q == Behind(c, p)
           IN  /\ p \in Addrs /\ end \in Nat /\ p < end /\ end <= Size
               /\ i.op = "bcc" /\ IsSkipInlineable(c, p, stop) /\ i.to <= end =>
                    GoesOn(c, max, stop, end, i.to)
               /\ i.op \in {"plain", "exit", "setla"} \/ InlinesRep(c, p) =>
                    GoesOn(c, max, stop, end, q) /\ (q = end \/ q < stop)
               /\ InlinesDo(c, p, stop) => GoesOn(c, max, stop, end, i.to + 1)
<1>. DEFINE E == EndFrom(c, max, stop)
            y == Follows(c, p, stop)
<1>1. PICK n \in Counts(max) : E[p][n] = end
  BY DEF GoesOn
<1>2. /\ p \in 0 .. Size /\ p \in 0 .. Size + 1 /\ Size \in Nat /\ p \in Nat /\ n \in Nat
      /\ max \in Counts(max)
  BY LoopAssumption, CapAssumption DEF GoesOn, Counts
<1>3. end \in p .. Size
  BY <1>1, <1>2, EndBounds
<1>4. end = EndBody(c, max, stop, E, p, n)
  BY <1>1, <1>2, EndUnfolds
<1>5. ~(n >= max \/ p >= Size)
  BY <1>4 DEF EndBody
<1>6. p < Size /\ n < max /\ p < end
  BY <1>2, <1>3, <1>5
<1>7. /\ y \in p + 1 .. Size /\ Counted(c, p, n, stop) \in Counts(max)
      /\ Region(c, p) \in Nat
      /\ IsSkipInlineable(c, p, stop) => At(c, p).to \in p + 1 .. Size
                                         /\ Behind(c, p) <= At(c, p).to
  BY <1>2, <1>6, FollowsUp
<1>8. ASSUME ~TakesSkip(c, max, p, n, stop),
             ~(At(c, p).op \in Terminators), At(c, p).op = "do" => InlinesDo(c, p, stop),
             At(c, p).op = "rep" => InlinesRep(c, p)
      PROVE  GoesOn(c, max, stop, end, y) /\ (y = end \/ y < stop)
  <2>1. end = IF y >= stop THEN y ELSE E[y][Counted(c, p, n, stop)]
    BY <1>4, <1>5, <1>8, Zenon DEF EndBody
  <2>2. y \in 0 .. Size /\ y \in 0 .. Size + 1 /\ y \in Nat
    BY <1>2, <1>7
  <2>. HIDE DEF y
  <2>3. CASE y >= stop
    <3>1. E[y][max] = EndBody(c, max, stop, E, y, max)
      BY <1>2, <2>2, EndUnfolds
    <3>2. EndBody(c, max, stop, E, y, max) = y
      BY DEF EndBody
    <3>. QED BY <1>2, <2>1, <2>2, <2>3, <3>1, <3>2 DEF GoesOn
  <2>4. CASE ~(y >= stop)
    BY <1>7, <2>1, <2>2, <2>4 DEF GoesOn
  <2>. QED BY <2>3, <2>4
<1>9. ASSUME At(c, p).op = "bcc", IsSkipInlineable(c, p, stop), At(c, p).to <= end
      PROVE  GoesOn(c, max, stop, end, At(c, p).to)
  <2>. DEFINE t == At(c, p).to
              r == n + Region(c, p)
  <2>1. t \in p + 1 .. Size /\ t \in 0 .. Size /\ Behind(c, p) <= t
    BY <1>2, <1>7, <1>9
  <2>2. TakesSkip(c, max, p, n, stop)
    <3>. SUFFICES ASSUME ~TakesSkip(c, max, p, n, stop) PROVE FALSE
      OBVIOUS
    <3>1. end = y
      <4>1. At(c, p).op \in Terminators
        BY <1>9 DEF Terminators
      <4>. QED BY <1>4, <1>5, <4>1, Zenon DEF EndBody
    <3>2. y = Behind(c, p)
      BY <1>9 DEF Follows, InlinesDo
    <3>3. Behind(c, p) = t /\ Behind(c, p) \in Nat
      <4>. DEFINE q == Behind(c, p)
      <4>1. q \in Nat /\ t \in Nat
        <5>. HIDE DEF y, q, t
        <5>. QED BY <1>2, <1>7, <2>1, <3>2 DEF q
      <4>2. t <= q /\ q <= t
        <5>. HIDE DEF y
        <5>. QED BY <1>9, <2>1, <3>1, <3>2
      <4>. HIDE DEF q, t
      <4>. QED BY <4>1, <4>2 DEF q
    <3>4. Charge(c, Behind(c, p), t - 1) = 0
      <4>1. t - 1 \in Int /\ t - 1 < Behind(c, p)
        BY <3>3
      <4>. HIDE DEF t
      <4>. QED BY <3>3, <4>1, ChargeType
    <3>5. Region(c, p) = 1
      BY <3>4 DEF Region
    <3>. QED BY <1>2, <1>6, <1>9, <3>5 DEF TakesSkip
  <2>3. end = E[t][r]
    BY <1>4, <1>5, <2>2, Zenon DEF EndBody
  <2>4. r \in Counts(max)
    BY <1>2, <1>7, <2>2, CapAssumption DEF TakesSkip, Counts
  <2>. QED BY <2>1, <2>3, <2>4 DEF GoesOn
<1>10. ASSUME At(c, p).op \in {"plain", "exit", "setla"} \/ InlinesRep(c, p)
       PROVE  GoesOn(c, max, stop, end, Behind(c, p)) /\ (Behind(c, p) = end \/ Behind(c, p) < stop)
  <2>1. y = Behind(c, p)
    BY <1>10 DEF Follows, InlinesDo, InlinesRep
  <2>2. /\ ~TakesSkip(c, max, p, n, stop) /\ ~(At(c, p).op \in Terminators)
        /\ At(c, p).op = "do" => InlinesDo(c, p, stop)
        /\ At(c, p).op = "rep" => InlinesRep(c, p)
    BY <1>10 DEF TakesSkip, Terminators, InlinesRep
  <2>. QED BY <1>8, <2>1, <2>2
<1>11. ASSUME InlinesDo(c, p, stop) PROVE GoesOn(c, max, stop, end, At(c, p).to + 1)
  <2>1. y = At(c, p).to + 1
    BY <1>11 DEF Follows
  <2>2. /\ ~TakesSkip(c, max, p, n, stop) /\ ~(At(c, p).op \in Terminators)
        /\ At(c, p).op = "rep" => InlinesRep(c, p)
    BY <1>11 DEF TakesSkip, Terminators, InlinesDo
  <2>. QED BY <1>8, <1>11, <2>1, <2>2
<1>12. p \in Addrs
  BY <1>2, <1>6 DEF Addrs
<1>13. end \in Nat /\ end <= Size
  BY <1>2, <1>3
<1>. QED BY <1>6, <1>9, <1>10, <1>11, <1>12, <1>13

-------------------------------------------------------------------------------
(* Skip regions and loop bodies.                                           *)

\* An instruction inside the region of an inlined skip at p leads to another
\* one or to the end of the region, before the boundary.
LEMMA InRegion ==
    ASSUME NEW c \in Codes, NEW p \in Addrs, NEW stop \in Nat, IsSkipInlineable(c, p, stop),
           NEW q \in Walk(c, Behind(c, p), At(c, p).to - 1)
    PROVE  LET t == At(c, p).to
               W == Walk(c, Behind(c, p), t - 1)
           IN  /\ q \in Addrs /\ p < q /\ q < t /\ t < stop
               /\ At(c, q).op \in {"plain", "exit", "setla", "bcc"}
               /\ Behind(c, q) = t \/ Behind(c, q) \in W
               /\ At(c, q).op = "bcc" => At(c, q).to = t \/ At(c, q).to \in W
<1>. DEFINE t == At(c, p).to
            lo == Behind(c, p)
            hi == t - 1
            W == Walk(c, lo, hi)
<1>1. Size \in Nat /\ p \in Nat /\ p < Size /\ p < lo /\ lo \in Nat /\ t \in Nat /\ t < Size
  BY LoopAssumption, Instruction DEF Addrs
<1>2. /\ t >= lo /\ t < stop /\ t \in Boundaries(c, lo, hi)
      /\ \A x \in W : At(c, x).op \in {"plain", "exit", "setla", "bcc"}
      /\ SkipsNest(c, lo, hi, t)
  BY DEF IsSkipInlineable
<1>. HIDE DEF t, lo
<1>3. hi \in Nat /\ lo <= hi
  <2>1. hi \in Int /\ q \in Walk(c, lo, hi)
    BY <1>1 DEF t, lo
  <2>2. ~(hi < lo)
    BY <1>1, <2>1, ChargeType
  <2>. QED BY <1>1, <2>1, <2>2
<1>4. Chained(c, W, lo, hi)
  BY <1>1, <1>3, WalkChained
<1>. HIDE DEF W
<1>5. q \in W /\ q \in lo .. hi
  BY <1>4 DEF W, Chained, t, lo
<1>. HIDE DEF hi
<1>6. q \in Nat /\ p < q /\ q < t /\ q \in Addrs
  BY <1>1, <1>5 DEF Addrs, hi
<1>7. Behind(c, q) \in Nat /\ Behind(c, q) <= t
  BY <1>1, <1>2, <1>3, <1>5, <1>6, BoundaryReached, Instruction DEF W
<1>8. Behind(c, q) = t \/ Behind(c, q) \in W
  <2>1. Behind(c, q) = t \/ Behind(c, q) <= hi
    BY <1>1, <1>7 DEF hi
  <2>. QED BY <1>4, <1>5, <2>1 DEF Chained
<1>9. ASSUME At(c, q).op = "bcc" PROVE At(c, q).to = t \/ At(c, q).to \in W
  <2>1. At(c, q).to <= t /\ At(c, q).to \in Boundaries(c, lo, hi)
    BY <1>2, <1>5, <1>9 DEF SkipsNest, W
  <2>2. At(c, q).to \in Nat
    BY <1>6, Instruction DEF Addrs
  <2>3. At(c, q).to = t \/ At(c, q).to <= hi
    BY <1>1, <2>1, <2>2 DEF hi
  <2>. QED BY <1>1, <1>3, <2>1, <2>3, BoundaryInside DEF W
<1>. QED BY <1>2, <1>5, <1>6, <1>8, <1>9 DEF t, W, hi, lo

\* The loop l inside the walk over an outer body: it ends at a boundary, and
\* loops and skips in it end in it.
BodyOk(c, lo, hi, l) ==
    /\ l.start \in Walk(c, lo, hi) /\ l.start <= l.la /\ l.la <= hi
    /\ l.la + 1 \in Boundaries(c, lo, hi)
    /\ \A q \in Walk(c, lo, hi) : l.start <= q /\ q <= l.la =>
          /\ At(c, q).op = "do" => At(c, q).to < l.la
          /\ At(c, q).op = "bcc" => At(c, q).to <= l.la

Loop(s, e) == [start |-> s, la |-> e]

\* The body of an inlined loop is one.
LEMMA OuterBody ==
    ASSUME NEW c \in Codes, NEW lo \in Nat, NEW hi \in Addrs, NEW stop,
           IsDoBodyInlineable(c, lo, hi, stop)
    PROVE  BodyOk(c, lo, hi, Loop(lo, hi))
<1>1. lo <= hi /\ hi \in Nat
  BY DEF IsDoBodyInlineable, Addrs
<1>2. lo \in Walk(c, lo, hi)
  BY <1>1, WalkChained DEF Chained
<1>3. /\ hi + 1 \in Boundaries(c, lo, hi) /\ SkipsNest(c, lo, hi, hi)
      /\ \A q \in Walk(c, lo, hi) : At(c, q).op = "do" => At(c, q).to < hi
  BY DEF IsDoBodyInlineable
<1>4. \A q \in Walk(c, lo, hi) : At(c, q).op = "bcc" => At(c, q).to <= hi
  BY <1>3 DEF SkipsNest
<1>. QED BY <1>1, <1>2, <1>3, <1>4 DEF BodyOk, Loop

\* So is the body of a loop met inside.
LEMMA InnerBody ==
    ASSUME NEW c \in Codes, NEW lo \in Nat, NEW hi \in Addrs, NEW stop,
           IsDoBodyInlineable(c, lo, hi, stop),
           NEW q \in Walk(c, lo, hi), At(c, q).op = "do"
    PROVE  /\ q + 2 \in Walk(c, lo, hi) /\ At(c, q).to + 1 \in Walk(c, lo, hi)
           /\ q + 2 <= At(c, q).to
           /\ BodyOk(c, lo, hi, Loop(q + 2, At(c, q).to))
<1>1. lo <= hi /\ hi \in Nat /\ hi < Size /\ Size \in Nat
  BY LoopAssumption DEF IsDoBodyInlineable, Addrs
<1>2. Chained(c, Walk(c, lo, hi), lo, hi)
  BY <1>1, WalkChained
<1>3. q \in Nat /\ q <= hi /\ q < Size
  BY <1>1, <1>2 DEF Chained
<1>. DEFINE t == At(c, q).to
<1>4. /\ q + 2 <= t /\ t < hi /\ t + 1 \in Boundaries(c, lo, hi)
      /\ \A x \in Walk(c, lo, hi) : x > q /\ x <= t =>
            /\ At(c, x).op = "do" => At(c, x).to < t
            /\ At(c, x).op = "bcc" => At(c, x).to <= t
  BY DEF IsDoBodyInlineable
<1>5. t \in Nat /\ Behind(c, q) = q + 2
  BY <1>3, Instruction DEF Addrs
<1>. HIDE DEF t
<1>6. q + 2 \in Walk(c, lo, hi)
  <2>1. Behind(c, q) <= hi
    BY <1>1, <1>3, <1>4, <1>5
  <2>. QED BY <1>2, <1>5, <2>1 DEF Chained
<1>7. t + 1 \in Walk(c, lo, hi)
  <2>1. t + 1 <= hi
    BY <1>1, <1>4, <1>5
  <2>. QED BY <1>1, <1>4, <2>1, BoundaryInside
<1>8. \A x \in Walk(c, lo, hi) : q + 2 <= x => x > q
  BY <1>2, <1>3 DEF Chained
<1>9. BodyOk(c, lo, hi, Loop(q + 2, t))
  BY <1>1, <1>4, <1>5, <1>6, <1>8 DEF BodyOk, Loop
<1>. QED BY <1>4, <1>6, <1>7, <1>9 DEF t

\* Where an instruction of an inlined body leads.
LEMMA BodyStep ==
    ASSUME NEW c \in Codes, NEW lo \in Nat, NEW hi \in Addrs, NEW stop,
           IsDoBodyInlineable(c, lo, hi, stop), NEW l \in LoopRecords, BodyOk(c, lo, hi, l),
           NEW q \in Walk(c, lo, hi), l.start <= q, q <= l.la
    PROVE  /\ q \in Addrs
           /\ At(c, q).op \in {"plain", "setla", "do", "bcc", "rep"}
           /\ At(c, q).op = "rep" => InlinesRep(c, q)
           /\ Behind(c, q) <= l.la + 1
           /\ Behind(c, q) # l.la + 1 => Behind(c, q) \in Walk(c, lo, hi)
           /\ At(c, q).op = "bcc" => /\ At(c, q).to \in Walk(c, lo, hi)
                                     /\ q < At(c, q).to /\ At(c, q).to <= l.la
           /\ At(c, q).op = "do" => At(c, q).to < l.la
<1>1. /\ lo <= hi /\ hi \in Nat /\ hi < Size /\ Size \in Nat
      /\ l.la \in Nat /\ l.start \in Nat /\ l.la <= hi /\ l.la + 1 \in Boundaries(c, lo, hi)
  BY LoopAssumption DEF IsDoBodyInlineable, Addrs, BodyOk, LoopRecords
<1>2. Chained(c, Walk(c, lo, hi), lo, hi)
  BY <1>1, WalkChained
<1>3. q \in Nat /\ q <= hi /\ q < Size /\ q \in Addrs
  BY <1>1, <1>2 DEF Chained, Addrs
<1>4. /\ At(c, q).op \in {"plain", "setla", "do", "bcc", "rep"}
      /\ At(c, q).op = "rep" => ~MayArmStackFault(At(c, q + 1))
      /\ SkipsNest(c, lo, hi, hi)
  BY DEF IsDoBodyInlineable
<1>5. /\ At(c, q).op = "do" => At(c, q).to < l.la
      /\ At(c, q).op = "bcc" => At(c, q).to <= l.la
  BY DEF BodyOk
<1>6. Behind(c, q) \in Nat /\ q < Behind(c, q) /\ At(c, q).to \in Nat
  BY <1>3, Instruction DEF Addrs
<1>7. Behind(c, q) <= l.la + 1
  <2>1. q < l.la + 1
    BY <1>1, <1>3
  <2>. QED BY <1>1, <2>1, BoundaryReached
<1>8. ASSUME Behind(c, q) # l.la + 1 PROVE Behind(c, q) \in Walk(c, lo, hi)
  <2>1. Behind(c, q) <= hi
    BY <1>1, <1>6, <1>7, <1>8
  <2>. QED BY <1>2, <2>1 DEF Chained
<1>9. ASSUME At(c, q).op = "bcc"
      PROVE  At(c, q).to \in Walk(c, lo, hi) /\ q < At(c, q).to
  <2>1. At(c, q).to \in Boundaries(c, lo, hi) /\ At(c, q).to >= Behind(c, q)
    BY <1>4, <1>9 DEF SkipsNest
  <2>2. At(c, q).to <= hi /\ q < At(c, q).to
    BY <1>1, <1>3, <1>5, <1>6, <1>9, <2>1
  <2>. QED BY <1>1, <2>1, <2>2, BoundaryInside
<1>. QED BY <1>3, <1>4, <1>5, <1>7, <1>8, <1>9 DEF InlinesRep

-------------------------------------------------------------------------------
(* The machine.                                                            *)

Lcs == 0 .. LcMod - 1
Stacks == [ptr : Slots, se : BOOLEAN, uf : BOOLEAN, sc : 0 .. 2 * Depth - 1,
           hi : [Slots -> Addrs], lo : [Slots -> Lcs], ssh : Addrs, ssl : Lcs]
Machines == [pc : Addrs, la : Addrs, lc : Lcs, temp : Lcs, lf : BOOLEAN, fv : BOOLEAN,
             rep : BOOLEAN, stk : Stacks, armed : BOOLEAN]

\* The types, with addresses in one half of the slots; the mirrors; an error
\* that is latched has been posted.
Sane(s) == s \in Machines /\ Coherent(s.stk) /\ (s.stk.se => s.armed)

\* The pointer and the counter stay in range.
LEMMA Pointer ==
    ASSUME NEW p \in Slots, NEW k \in 0 .. 2 * Depth - 1
    PROVE  /\ Up(p) \in Slots /\ Down(p) \in Slots
           /\ ScUp(k) \in 0 .. 2 * Depth - 1 /\ ScDown(k) \in 0 .. 2 * Depth - 1
           /\ p # Depth - 1 => Up(p) = p + 1
           /\ p # 0 => Down(p) = p - 1
BY DepthAssumption DEF Slots, Up, Down, ScUp, ScDown

\* A push, the pointer aside.
LEMMA PushStack ==
    ASSUME NEW s \in Stacks, NEW h \in Addrs, NEW l \in Lcs
    PROVE  LET t == inline_push(s, h, l)
           IN  /\ t \in Stacks /\ Coherent(t)
               /\ t.se <=> s.se \/ s.ptr = Depth - 1
               /\ s.ptr # Depth - 1 => /\ t.ptr = s.ptr + 1
                                       /\ t.hi = [s.hi EXCEPT ![s.ptr + 1] = h]
                                       /\ t.lo = [s.lo EXCEPT ![s.ptr + 1] = l]
<1>. DEFINE t == inline_push(s, h, l)
            idx == Up(s.ptr)
<1>1. s.ptr \in Slots /\ s.sc \in 0 .. 2 * Depth - 1 /\ s.se \in BOOLEAN
      /\ s.hi \in [Slots -> Addrs] /\ s.lo \in [Slots -> Lcs]
  BY DEF Stacks
<1>2. idx \in Slots /\ ScUp(s.sc) \in 0 .. 2 * Depth - 1
      /\ (s.ptr # Depth - 1 => idx = s.ptr + 1)
  BY <1>1, Pointer
<1>. HIDE DEF idx
<1>3. t = [s EXCEPT !.ptr = idx, !.se = @ \/ s.ptr = Depth - 1, !.sc = ScUp(@),
                    !.hi[idx] = h, !.lo[idx] = l, !.ssh = h, !.ssl = l]
  BY DEF inline_push, idx
<1>. HIDE DEF t
<1>4. /\ t.ptr = idx /\ (t.se <=> s.se \/ s.ptr = Depth - 1)
      /\ t.hi = [s.hi EXCEPT ![idx] = h] /\ t.lo = [s.lo EXCEPT ![idx] = l]
      /\ t.ssh = h /\ t.ssl = l
  BY <1>1, <1>3 DEF Stacks
<1>5. t \in Stacks
  BY <1>1, <1>2, <1>3 DEF Stacks
<1>6. Coherent(t)
  BY <1>1, <1>2, <1>4 DEF Coherent
<1>. QED BY <1>2, <1>4, <1>5, <1>6 DEF t

\* A pop: the inlined one is the method's, and on a coherent stack so is what
\* it returns.
LEMMA PopStack ==
    ASSUME NEW s \in Stacks
    PROVE  LET t == inline_pop(s)
           IN  /\ t \in Stacks /\ Coherent(t) /\ stack_pop(s) = t
               /\ t.se <=> s.se \/ s.ptr = 0
               /\ t.hi = s.hi /\ t.lo = s.lo
               /\ s.ptr # 0 => t.ptr = s.ptr - 1
               /\ s.hi[s.ptr] \in Addrs /\ s.lo[s.ptr] \in Lcs
               /\ inline_popped(s)[1] = s.hi[s.ptr] /\ inline_popped(s)[2] = s.lo[s.ptr]
               /\ Coherent(s) => popped(s) = inline_popped(s)
<1>. DEFINE t == inline_pop(s)
            idx == Down(s.ptr)
            u == stack_pop(s)
<1>1. s.ptr \in Slots /\ s.sc \in 0 .. 2 * Depth - 1 /\ s.se \in BOOLEAN /\ s.uf \in BOOLEAN
      /\ s.hi \in [Slots -> Addrs] /\ s.lo \in [Slots -> Lcs]
  BY DEF Stacks
<1>2. idx \in Slots /\ ScDown(s.sc) \in 0 .. 2 * Depth - 1
      /\ (s.ptr # 0 => idx = s.ptr - 1)
  BY <1>1, Pointer
<1>. HIDE DEF idx
<1>3. t = [s EXCEPT !.ptr = idx, !.se = @ \/ s.ptr = 0, !.uf = @ \/ s.ptr = 0,
                    !.sc = ScDown(@), !.ssh = s.hi[idx], !.ssl = s.lo[idx]]
  BY DEF inline_pop, idx
<1>4. u = [ptr |-> idx, se |-> s.se \/ s.ptr = 0, uf |-> s.uf \/ s.ptr = 0,
           sc |-> ScDown(s.sc), hi |-> s.hi, lo |-> s.lo,
           ssh |-> s.hi[idx], ssl |-> s.lo[idx]]
  BY DEF stack_pop, idx
<1>. HIDE DEF t, u
<1>5. /\ t.ptr = idx /\ (t.se <=> s.se \/ s.ptr = 0) /\ t.hi = s.hi /\ t.lo = s.lo
      /\ t.ssh = s.hi[idx] /\ t.ssl = s.lo[idx]
  BY <1>1, <1>3 DEF Stacks
<1>6. t \in Stacks /\ u \in Stacks
  BY <1>1, <1>2, <1>3, <1>4 DEF Stacks
<1>7. Coherent(t)
  BY <1>5 DEF Coherent
<1>8. u = t
  BY <1>3, <1>4, <1>6 DEF Stacks
<1>9. /\ s.hi[s.ptr] \in Addrs /\ s.lo[s.ptr] \in Lcs
      /\ inline_popped(s)[1] = s.hi[s.ptr] /\ inline_popped(s)[2] = s.lo[s.ptr]
      /\ Coherent(s) => popped(s) = inline_popped(s)
  BY <1>1 DEF inline_popped, popped, Coherent
<1>. QED BY <1>2, <1>5, <1>6, <1>7, <1>8, <1>9 DEF t, u

\* The flags of SR fit into a slot and come back.
LEMMA SrRoundTrip ==
    ASSUME NEW s \in Machines
    PROVE  /\ SrWord(s) \in Lcs
           /\ SrWord(s) >= 2 <=> s.lf
           /\ SrWord(s) % 2 = 1 <=> s.fv
<1>1. s.lf \in BOOLEAN /\ s.fv \in BOOLEAN
  BY DEF Machines
<1>2. 0 % 2 = 0 /\ 1 % 2 = 1 /\ 2 % 2 = 0 /\ 3 % 2 = 1
  OBVIOUS
<1>3. 0 \in Lcs /\ 1 \in Lcs /\ 2 \in Lcs /\ 3 \in Lcs
  BY LoopAssumption, WidthAssumption DEF Lcs
<1>4. CASE s.lf /\ s.fv
  <2>1. SrWord(s) = 3
    BY <1>4 DEF SrWord
  <2>. QED BY <1>2, <1>3, <1>4, <2>1
<1>5. CASE s.lf /\ ~s.fv
  <2>1. SrWord(s) = 2
    BY <1>5 DEF SrWord
  <2>. QED BY <1>2, <1>3, <1>5, <2>1
<1>6. CASE ~s.lf /\ s.fv
  <2>1. SrWord(s) = 1
    BY <1>6 DEF SrWord
  <2>. QED BY <1>2, <1>3, <1>6, <2>1
<1>7. CASE ~s.lf /\ ~s.fv
  <2>1. SrWord(s) = 0
    BY <1>7 DEF SrWord
  <2>. QED BY <1>2, <1>3, <1>7, <2>1
<1>. QED BY <1>1, <1>4, <1>5, <1>6, <1>7

\* A machine with other registers, inside their types.
LEMMA Registers ==
    ASSUME NEW s, Sane(s)
    PROVE  /\ s.pc \in Addrs /\ s.la \in Addrs /\ s.lc \in Lcs /\ s.temp \in Lcs
           /\ s.lf \in BOOLEAN /\ s.fv \in BOOLEAN /\ s.rep \in BOOLEAN /\ s.armed \in BOOLEAN
           /\ s.stk \in Stacks /\ s.stk.ptr \in Slots /\ Coherent(s.stk)
           /\ \A p \in Addrs : Sane([s EXCEPT !.pc = p]) /\ Sane([s EXCEPT !.la = p])
           /\ \A n \in Lcs : Sane([s EXCEPT !.lc = n])
           /\ \A n \in Lcs, k \in Lcs, r \in BOOLEAN :
                 Sane([s EXCEPT !.temp = k, !.lc = n, !.rep = r])
BY DEF Sane, Machines, Stacks

\* Its stack.
LEMMA StackOf ==
    ASSUME NEW s, Sane(s)
    PROVE  /\ s \in Machines /\ s.stk.ptr \in Slots /\ s.stk.ptr \in Nat
           /\ s.stk.hi \in [Slots -> Addrs] /\ s.stk.lo \in [Slots -> Lcs]
BY DepthAssumption DEF Sane, Machines, Stacks, Slots

\* LC counts down modulo its width.
LEMMA DecrementedType ==
    ASSUME NEW n \in Lcs
    PROVE  Decremented(n) \in Lcs /\ (n # 0 => Decremented(n) = n - 1)
BY LoopAssumption DEF Decremented, Lcs

\* DO: two frames, (LA, LC) below (start of the body, SR).
LEMMA DoSetup ==
    ASSUME NEW s, Sane(s), NEW a \in Addrs, NEW n \in Lcs, NEW fo \in BOOLEAN
    PROVE  LET t == do_setup(s, a, n, fo)
               p == s.stk.ptr
               f == mask_pc(s.pc + 2)
           IN  /\ Sane(t)
               /\ t.pc = s.pc /\ t.la = a /\ t.lc = n /\ t.lf /\ t.fv = fo
               /\ t.temp = s.temp /\ t.rep = s.rep
               /\ ~t.armed => /\ ~s.armed /\ p + 2 \in Slots /\ t.stk.ptr = p + 2
                              /\ t.stk.hi = [s.stk.hi EXCEPT ![p + 1] = s.la, ![p + 2] = f]
                              /\ t.stk.lo = [s.stk.lo EXCEPT ![p + 1] = s.lc,
                                                             ![p + 2] = SrWord(s)]
<1>. DEFINE one == inline_push(s.stk, s.la, s.lc)
            w == SrWord(s)
            f == mask_pc(s.pc + 2)
            two == inline_push(one, f, w)
            t == do_setup(s, a, n, fo)
            p == s.stk.ptr
<1>1. /\ s \in Machines /\ s.stk \in Stacks /\ s.la \in Addrs /\ s.lc \in Lcs /\ s.pc \in Addrs
      /\ s.armed \in BOOLEAN /\ p \in Slots /\ p \in Nat /\ s.stk.se \in BOOLEAN
      /\ s.stk.se => s.armed
  BY DepthAssumption DEF Sane, Machines, Stacks, Slots
<1>2. w \in Lcs /\ f \in Addrs
  <2>1. s.pc + 2 \in Nat
    BY <1>1 DEF Addrs
  <2>. QED BY <1>1, <2>1, SrRoundTrip, MaskPc
<1>3. /\ one \in Stacks /\ (one.se <=> s.stk.se \/ p = Depth - 1)
      /\ p # Depth - 1 => /\ one.ptr = p + 1
                          /\ one.hi = [s.stk.hi EXCEPT ![p + 1] = s.la]
                          /\ one.lo = [s.stk.lo EXCEPT ![p + 1] = s.lc]
  BY <1>1, PushStack
<1>. HIDE DEF one, w, f
<1>4. /\ two \in Stacks /\ Coherent(two) /\ (two.se <=> one.se \/ one.ptr = Depth - 1)
      /\ one.ptr # Depth - 1 => /\ two.ptr = one.ptr + 1
                                /\ two.hi = [one.hi EXCEPT ![one.ptr + 1] = f]
                                /\ two.lo = [one.lo EXCEPT ![one.ptr + 1] = w]
  BY <1>2, <1>3, PushStack
<1>. HIDE DEF two
<1>. DEFINE arm == s.armed \/ PushFaults(s.stk) \/ PushFaults(one)
<1>5. arm \in BOOLEAN
  OBVIOUS
<1>6. t = [s EXCEPT !.stk = two, !.la = a, !.lc = n, !.lf = TRUE, !.fv = fo, !.armed = arm]
  BY <1>1 DEF do_setup, two, one, w, f
<1>. HIDE DEF t, arm
<1>7. t \in Machines /\ t.stk = two /\ t.armed = arm
  BY <1>1, <1>4, <1>5, <1>6 DEF Machines
<1>8. /\ t.pc = s.pc /\ t.la = a /\ t.lc = n /\ t.lf /\ t.fv = fo
      /\ t.temp = s.temp /\ t.rep = s.rep
  BY <1>1, <1>6 DEF Machines
<1>9. two.se => t.armed
  BY <1>1, <1>3, <1>4, <1>7 DEF PushFaults, arm
<1>10. ASSUME ~t.armed
       PROVE  /\ ~s.armed /\ p + 2 \in Slots /\ two.ptr = p + 2
              /\ two.hi = [s.stk.hi EXCEPT ![p + 1] = s.la, ![p + 2] = f]
              /\ two.lo = [s.stk.lo EXCEPT ![p + 1] = s.lc, ![p + 2] = w]
  <2>1. ~s.armed /\ ~PushFaults(s.stk) /\ ~PushFaults(one)
    BY <1>7, <1>10 DEF arm
  <2>2. p # Depth - 1 /\ ~one.se
    BY <1>1, <1>3, <2>1 DEF PushFaults
  <2>3. one.ptr # Depth - 1
    BY <2>1, <2>2 DEF PushFaults
  <2>4. p + 1 + 1 = p + 2 /\ p + 2 \in Slots /\ one.ptr = p + 1
    BY <1>1, <1>3, <2>2, <2>3, DepthAssumption DEF Slots
  <2>. QED BY <1>3, <1>4, <2>1, <2>2, <2>3, <2>4
<1>11. Sane(t)
  BY <1>4, <1>7, <1>9 DEF Sane
<1>. QED BY <1>7, <1>8, <1>10, <1>11 DEF t, f, w

\* A counted DO: t is the machine s after it.
DoFacts(s, a, n, t) ==
    LET p == s.stk.ptr
        f == mask_pc(s.pc + 2)
    IN  /\ Sane(t)
        /\ t.pc = s.pc /\ t.la = a /\ t.lc = n /\ t.lf /\ ~t.fv
        /\ t.temp = s.temp /\ t.rep = s.rep
        /\ ~t.armed => /\ ~s.armed /\ p + 2 \in Slots /\ t.stk.ptr = p + 2
                       /\ \A j \in 0 .. p : /\ t.stk.hi[j] = s.stk.hi[j]
                                            /\ t.stk.lo[j] = s.stk.lo[j]
                       /\ t.stk.hi[p + 1] = s.la /\ t.stk.hi[p + 2] = f
                       /\ t.stk.lo[p + 2] = SrWord(s)

\* do_setup pushes two frames, the outer loop's registers and the body's start, or arms the fault.
LEMMA CountedDo ==
    ASSUME NEW s, Sane(s), NEW a \in Addrs, NEW n \in Lcs
    PROVE  DoFacts(s, a, n, do_setup(s, a, n, FALSE))
<1>. DEFINE p == s.stk.ptr
            f == mask_pc(s.pc + 2)
            t == do_setup(s, a, n, FALSE)
            P(u, fo) ==
              /\ Sane(u)
              /\ u.pc = s.pc /\ u.la = a /\ u.lc = n /\ u.lf /\ u.fv = fo
              /\ u.temp = s.temp /\ u.rep = s.rep
              /\ ~u.armed => /\ ~s.armed /\ p + 2 \in Slots /\ u.stk.ptr = p + 2
                             /\ u.stk.hi = [s.stk.hi EXCEPT ![p + 1] = s.la, ![p + 2] = f]
                             /\ u.stk.lo = [s.stk.lo EXCEPT ![p + 1] = s.lc,
                                                            ![p + 2] = SrWord(s)]
<1>1. P(t, FALSE)
  <2>1. \A fo \in BOOLEAN : P(do_setup(s, a, n, fo), fo)
    BY DoSetup
  <2>2. FALSE \in BOOLEAN
    OBVIOUS
  <2>. HIDE DEF P
  <2>. QED BY <2>1, <2>2, Zenon
<1>2. p \in Nat /\ s.stk.hi \in [Slots -> Addrs] /\ s.stk.lo \in [Slots -> Lcs]
  BY StackOf
<1>. HIDE DEF p, f, t
<1>3. ASSUME ~t.armed
      PROVE  /\ \A j \in 0 .. p : t.stk.hi[j] = s.stk.hi[j] /\ t.stk.lo[j] = s.stk.lo[j]
             /\ t.stk.hi[p + 1] = s.la /\ t.stk.hi[p + 2] = f
             /\ t.stk.lo[p + 2] = SrWord(s)
  <2>1. p + 2 \in Slots
    BY <1>1, <1>3
  <2>2. /\ p + 1 \in Slots /\ p + 2 \in Slots /\ p + 1 # p + 2
        /\ \A j \in 0 .. p : j \in Slots /\ j # p + 1 /\ j # p + 2
    BY <1>2, <2>1, DepthAssumption DEF Slots
  <2>3. /\ t.stk.hi = [s.stk.hi EXCEPT ![p + 1] = s.la, ![p + 2] = f]
        /\ t.stk.lo = [s.stk.lo EXCEPT ![p + 1] = s.lc, ![p + 2] = SrWord(s)]
    BY <1>1, <1>3
  <2>. QED BY <1>2, <2>2, <2>3
<1>. QED BY <1>1, <1>3 DEF p, f, t, DoFacts

\* The end of a loop: what DO has pushed comes back.  The run loop's pops do
\* the same.
CleanupFacts(s, t) ==
    LET p == s.stk.ptr
    IN  /\ Sane(t) /\ LoopExit(s) = t
        /\ t.pc = s.pc /\ t.temp = s.temp /\ t.rep = s.rep
        /\ t.stk.hi = s.stk.hi /\ t.stk.lo = s.stk.lo
        /\ t.lf <=> s.stk.lo[p] >= 2
        /\ t.fv <=> s.stk.lo[p] % 2 = 1
        /\ s.armed => t.armed
        /\ p >= 2 => /\ t.armed = s.armed /\ t.stk.ptr = p - 2
                     /\ t.la = s.stk.hi[p - 1] /\ t.lc = s.stk.lo[p - 1]

\* enddo_cleanup takes both frames off and restores the outer loop's registers.
LEMMA Cleanup ==
    ASSUME NEW s, Sane(s)
    PROVE  CleanupFacts(s, enddo_cleanup(s))
<1>. DEFINE one == inline_pop(s.stk)
            two == inline_pop(one)
            top == inline_popped(one)
            w == inline_popped(s.stk)[2]
            arm == s.armed \/ PopFaults(s.stk) \/ PopFaults(one)
            t == enddo_cleanup(s)
            p == s.stk.ptr
<1>1. /\ s \in Machines /\ s.stk \in Stacks /\ Coherent(s.stk)
      /\ s.armed \in BOOLEAN /\ p \in Slots /\ p \in Nat /\ s.stk.se \in BOOLEAN
      /\ s.stk.se => s.armed
  BY DepthAssumption DEF Sane, Machines, Stacks, Slots
<1>2. /\ one \in Stacks /\ Coherent(one) /\ stack_pop(s.stk) = one
      /\ (one.se <=> s.stk.se \/ p = 0)
      /\ one.hi = s.stk.hi /\ one.lo = s.stk.lo
      /\ p # 0 => one.ptr = p - 1
      /\ w = s.stk.lo[p] /\ w \in Lcs
      /\ popped(s.stk) = inline_popped(s.stk)
  BY <1>1, PopStack
<1>. HIDE DEF one, w
<1>3. /\ two \in Stacks /\ Coherent(two) /\ stack_pop(one) = two
      /\ (two.se <=> one.se \/ one.ptr = 0)
      /\ two.hi = one.hi /\ two.lo = one.lo
      /\ one.ptr # 0 => two.ptr = one.ptr - 1
      /\ top[1] = one.hi[one.ptr] /\ top[2] = one.lo[one.ptr]
      /\ top[1] \in Addrs /\ top[2] \in Lcs
      /\ popped(one) = top
  BY <1>2, PopStack
<1>. HIDE DEF two, top
<1>4. LoopExit(s) = t
  BY <1>2, <1>3 DEF LoopExit, enddo_cleanup, one, two, top
<1>5. arm \in BOOLEAN /\ (w >= 2) \in BOOLEAN /\ (w % 2 = 1) \in BOOLEAN
  OBVIOUS
<1>6. t = [[s EXCEPT !.lf = w >= 2, !.fv = w % 2 = 1] EXCEPT
              !.stk = two, !.la = top[1], !.lc = top[2],
              !.armed = @ \/ PopFaults(s.stk) \/ PopFaults(one)]
  BY DEF enddo_cleanup, WithSr, one, two, top, w
<1>. HIDE DEF t
<1>7. /\ t \in Machines /\ t.stk = two /\ t.la = top[1] /\ t.lc = top[2]
      /\ (t.armed <=> arm) /\ (t.lf <=> w >= 2) /\ (t.fv <=> w % 2 = 1)
      /\ t.pc = s.pc /\ t.temp = s.temp /\ t.rep = s.rep
  <2>. DEFINE u == [s EXCEPT !.lf = w >= 2, !.fv = w % 2 = 1]
  <2>1. /\ u \in Machines /\ (u.lf <=> w >= 2) /\ (u.fv <=> w % 2 = 1) /\ u.armed = s.armed
        /\ u.pc = s.pc /\ u.temp = s.temp /\ u.rep = s.rep
    BY <1>1, <1>5 DEF Machines
  <2>. HIDE DEF u
  <2>2. t = [u EXCEPT !.stk = two, !.la = top[1], !.lc = top[2],
                      !.armed = @ \/ PopFaults(s.stk) \/ PopFaults(one)]
    BY <1>6 DEF u
  <2>3. t = [u EXCEPT !.stk = two, !.la = top[1], !.lc = top[2], !.armed = arm]
    BY <2>1, <2>2
  <2>. HIDE DEF arm
  <2>. QED BY <1>3, <1>5, <2>1, <2>3 DEF Machines
<1>8. two.se => t.armed
  BY <1>1, <1>2, <1>3, <1>7 DEF PopFaults
<1>9. Sane(t)
  BY <1>3, <1>7, <1>8 DEF Sane
<1>10. ASSUME p >= 2
       PROVE  /\ t.armed = s.armed /\ two.ptr = p - 2
              /\ t.la = s.stk.hi[p - 1] /\ t.lc = s.stk.lo[p - 1]
  <2>1. one.ptr = p - 1 /\ two.ptr = p - 2
    BY <1>1, <1>2, <1>3, <1>10
  <2>2. ~PopFaults(s.stk) /\ ~PopFaults(one)
    BY <1>1, <1>10, <2>1 DEF PopFaults
  <2>3. t.armed \in BOOLEAN
    BY <1>7 DEF Machines
  <2>. QED BY <1>1, <1>2, <1>3, <1>7, <2>1, <2>2, <2>3
<1>. QED BY <1>2, <1>3, <1>4, <1>7, <1>9, <1>10 DEF t, CleanupFacts

\* The end of a loop body.
LEMMA LoopBackSane ==
    ASSUME NEW s, Sane(s), NEW adv
    PROVE  Sane(LoopBack(s, adv))
<1>. DEFINE t == [s EXCEPT !.lc = Decremented(@)]
<1>1. /\ s.lc \in Lcs /\ s.stk \in Stacks /\ s.stk.ptr \in Slots /\ s.pc \in Addrs
      /\ t = [s EXCEPT !.lc = Decremented(s.lc)]
  BY Registers DEF Sane, Machines
<1>2. Sane(t)
  BY <1>1, DecrementedType, Registers
<1>. HIDE DEF t
<1>3. Sane(LoopExit(t))
  BY <1>2, Cleanup DEF CleanupFacts
<1>4. Sane([t EXCEPT !.pc = s.stk.ssh])
  <2>1. s.stk.ssh \in Addrs
    BY <1>1 DEF Stacks
  <2>. QED BY <1>2, <2>1, Registers
<1>. QED BY <1>2, <1>3, <1>4 DEF LoopBack, t

\* An instruction of the machine.
IsInstruction(i) == i.op \in Ops /\ i.len \in {1, 2} /\ i.arg \in Lcs /\ i.to \in Addrs

\* A pop of the stack.
LEMMA PopSane ==
    ASSUME NEW s, Sane(s)
    PROVE  Sane(ExecPop(s))
<1>. DEFINE arm == s.armed \/ PopFaults(s.stk)
            k == stack_pop(s.stk)
<1>1. /\ s \in Machines /\ s.stk \in Stacks /\ s.armed \in BOOLEAN
      /\ s.stk.se => s.armed
  BY DEF Sane, Machines
<1>2. k \in Stacks /\ Coherent(k) /\ (k.se <=> s.stk.se \/ s.stk.ptr = 0)
  BY <1>1, PopStack
<1>. HIDE DEF k
<1>3. ExecPop(s) = [s EXCEPT !.stk = k, !.armed = arm]
  BY <1>1 DEF ExecPop, k
<1>4. arm \in BOOLEAN /\ (k.se => arm)
  BY <1>1, <1>2 DEF PopFaults
<1>. HIDE DEF arm
<1>. QED BY <1>1, <1>2, <1>3, <1>4 DEF Sane, Machines

\* Exec keeps the machine in its types, and says how far pc advances.
LEMMA ExecSane ==
    ASSUME NEW s, Sane(s), NEW i, IsInstruction(i), NEW taken \in BOOLEAN
    PROVE  Sane(Exec(s, i, taken)[1]) /\ Exec(s, i, taken)[2] \in 0 .. 2
<1>0. i.op \in Ops /\ i.len \in {1, 2} /\ i.arg \in Lcs /\ i.to \in Addrs
  BY DEF IsInstruction
<1>1. /\ i.op \in Ops /\ i.len \in 0 .. 2 /\ i.arg \in Lcs /\ i.to \in Addrs
      /\ s.lc \in Lcs /\ s.la \in Addrs /\ s.pc \in Addrs
  <2>1. \A n \in {1, 2} : n \in 0 .. 2
    OBVIOUS
  <2>. QED BY <1>0, <2>1, Registers, Zenon
<1>2. ASSUME NEW a \in Nat, NEW t, Sane(t)
      PROVE  Sane(Jump(t, a)[1]) /\ Jump(t, a)[2] \in 0 .. 2
  <2>1. Sane([t EXCEPT !.pc = mask_pc(a)])
    BY <1>2, MaskPc, Registers
  <2>. QED BY <2>1 DEF Jump
<1>. DEFINE d == do_setup(s, i.to, i.arg, FALSE)
            e == do_setup(s, i.to, s.lc, TRUE)
<1>3. Sane(d) /\ Sane(e)
  BY <1>1, DoSetup
<1>. HIDE DEF d, e
<1>4. Sane(enddo_cleanup(s)) /\ Sane(enddo_cleanup(d))
  BY <1>3, Cleanup DEF CleanupFacts
<1>5. i.to + 1 \in Nat /\ s.la + 1 \in Nat /\ i.to \in Nat
  BY <1>1 DEF Addrs
<1>6. CASE i.op = "do"
  <2>1. Exec(s, i, taken) = ExecDo(s, i)
    BY <1>6 DEF Exec
  <2>2. CASE i.arg = 0
    <3>1. ExecDo(s, i) = Jump(enddo_cleanup(d), i.to + 1)
      BY <2>2 DEF ExecDo, d
    <3>. QED BY <1>2, <1>4, <1>5, <2>1, <3>1
  <2>3. CASE i.arg # 0
    <3>1. ExecDo(s, i) = <<d, i.len>>
      BY <2>3 DEF ExecDo, d
    <3>. QED BY <1>1, <1>3, <2>1, <3>1
  <2>. QED BY <2>2, <2>3
<1>7. CASE i.op = "forever"
  <2>1. Exec(s, i, taken) = <<e, i.len>>
    BY <1>7 DEF Exec, e
  <2>. QED BY <1>1, <1>3, <2>1
<1>8. CASE i.op = "enddo"
  <2>1. Exec(s, i, taken) = <<enddo_cleanup(s), i.len>>
    BY <1>8 DEF Exec
  <2>. QED BY <1>1, <1>4, <2>1
<1>9. CASE i.op = "brk" /\ taken
  <2>1. Exec(s, i, taken) = Jump(enddo_cleanup(s), s.la + 1)
    BY <1>9 DEF Exec
  <2>. QED BY <1>2, <1>4, <1>5, <2>1
<1>10. CASE i.op = "jmp" \/ (i.op = "bcc" /\ taken)
  <2>1. Exec(s, i, taken) = Jump(s, i.to)
    BY <1>10 DEF Exec
  <2>. QED BY <1>2, <1>5, <2>1
<1>11. CASE i.op = "rep"
  <2>1. Exec(s, i, taken) = <<ExecRep(s, i), i.len>>
    BY <1>11 DEF Exec
  <2>2. Sane(ExecRep(s, i))
    BY <1>1, Registers DEF ExecRep
  <2>. QED BY <1>1, <2>1, <2>2
<1>12. CASE i.op = "pop"
  <2>1. Exec(s, i, taken) = <<ExecPop(s), i.len>>
    BY <1>12 DEF Exec
  <2>. QED BY <1>1, <2>1, PopSane
<1>13. CASE i.op = "setla"
  <2>1. Exec(s, i, taken) = <<[s EXCEPT !.la = i.to], i.len>>
    BY <1>13 DEF Exec
  <2>2. Sane([s EXCEPT !.la = i.to])
    BY <1>1, Registers
  <2>. QED BY <1>1, <2>1, <2>2
<1>14. CASE i.op \in {"plain", "exit"} \/ (i.op \in {"brk", "bcc"} /\ ~taken)
  <2>1. Exec(s, i, taken) = <<s, i.len>>
    BY <1>14 DEF Exec
  <2>. QED BY <1>1, <2>1
<1>. QED BY <1>1, <1>6, <1>7, <1>8, <1>9, <1>10, <1>11, <1>12, <1>13, <1>14 DEF Ops

\* execute_one.
LEMMA AdvanceSane ==
    ASSUME NEW s, Sane(s), NEW adv \in 0 .. 2, NEW first \in BOOLEAN
    PROVE  Sane(AdvancePc(s, adv, first))
<1>. DEFINE done == [s EXCEPT !.rep = FALSE, !.lc = s.temp]
            left == Decremented(s.lc)
            r == RepAdvance(s, adv, first)
<1>1. s.lc \in Lcs /\ s.temp \in Lcs /\ left \in Lcs /\ s \in Machines
  BY Registers, DecrementedType DEF Sane
<1>. HIDE DEF left
<1>2. Sane(done)
  BY DEF Sane, Machines
<1>. HIDE DEF done
<1>3. Sane([s EXCEPT !.lc = left])
  BY <1>1, Registers
<1>4. /\ r = <<s, adv>> \/ r = <<done, adv + 1>> \/ r = <<[s EXCEPT !.lc = left], 0>>
         \/ r = <<done, adv>>
  BY DEF RepAdvance, done, left
<1>5. Sane(r[1]) /\ r[2] \in Nat
  BY <1>2, <1>3, <1>4
<1>. HIDE DEF r
<1>6. mask_pc(r[1].pc + r[2]) \in Addrs
  <2>1. r[1].pc \in Addrs
    BY <1>5, Registers
  <2>2. r[1].pc + r[2] \in Nat
    BY <1>5, <2>1 DEF Addrs
  <2>. QED BY <2>2, MaskPc
<1>7. Sane([r[1] EXCEPT !.pc = mask_pc(@ + r[2])])
  <2>1. [r[1] EXCEPT !.pc = mask_pc(@ + r[2])] = [r[1] EXCEPT !.pc = mask_pc(r[1].pc + r[2])]
    BY <1>5 DEF Sane, Machines
  <2>. QED BY <1>5, <1>6, <2>1, Registers
<1>. QED BY <1>7, LoopBackSane DEF AdvancePc, r

\* execute_one keeps the machine sane, whichever way its branch goes.
LEMMA StepSane ==
    ASSUME Sane(m), code \in Codes, NEW taken \in BOOLEAN
    PROVE  Sane(ExecuteOne(m, taken))
<1>1. IsInstruction(code[m.pc])
  <2>1. m.pc \in Addrs
    BY Registers
  <2>. QED BY <2>1, LoopAssumption DEF IsInstruction, Lcs
<1>. DEFINE e == Exec(m, code[m.pc], taken)
<1>2. Sane(e[1]) /\ e[2] \in 0 .. 2
  BY <1>1, ExecSane
<1>. HIDE DEF e
<1>3. Sane(AdvancePc(e[1], e[2], code[m.pc].op = "rep"))
  BY <1>2, AdvanceSane
<1>. QED BY <1>3 DEF ExecuteOne, e

-------------------------------------------------------------------------------
(* The frames of the inlined loops.                                        *)

\* What InlinedLoopsOnStack says of the machine s inside the loops L; and SR
\* was saved inside a counted loop by all but the outermost one.
Frames(s, L) ==
    LET n == Len(L)
        LaOf(k) == IF k = n THEN s.la ELSE s.stk.hi[s.stk.ptr - 2 * (n - k) + 1]
    IN  /\ n > 0 => s.lf /\ ~s.fv
        /\ s.stk.ptr >= 2 * n
        /\ \A k \in 1 .. n : /\ s.stk.hi[s.stk.ptr - 2 * (n - k)] = L[k].start
                             /\ LaOf(k) = L[k].la
                             /\ k > 1 => s.stk.lo[s.stk.ptr - 2 * (n - k)] = 2

\* The loop around the inlined ones, in the registers or in their frames.
OuterLf(s, L) == IF L = << >> THEN s.lf ELSE s.stk.lo[s.stk.ptr - 2 * Len(L) + 2] >= 2
OuterLa(s, L) == IF L = << >> THEN s.la ELSE s.stk.hi[s.stk.ptr - 2 * Len(L) + 1]

\* What lies above the stack pointer does not matter.
LEMMA FramesBelow ==
    ASSUME NEW s, Sane(s), NEW t, NEW L \in Seq(LoopRecords), Frames(s, L),
           t.la = s.la, t.lf <=> s.lf, t.fv <=> s.fv, t.stk.ptr = s.stk.ptr,
           \A j \in 0 .. s.stk.ptr : /\ t.stk.hi[j] = s.stk.hi[j]
                                     /\ t.stk.lo[j] = s.stk.lo[j]
    PROVE  /\ Frames(t, L)
           /\ OuterLf(t, L) <=> OuterLf(s, L)
           /\ OuterLa(t, L) = OuterLa(s, L)
<1>. DEFINE n == Len(L)
            p == s.stk.ptr
<1>1. n \in Nat /\ p \in Nat /\ p >= 2 * n
  <2>1. p >= 2 * n
    BY DEF Frames
  <2>. QED BY <2>1, StackOf
<1>2. L # << >> => n > 0
  OBVIOUS
<1>. HIDE DEF n, p
<1>3. /\ t.stk.ptr = p /\ s.stk.ptr = p /\ Len(L) = n
      /\ \A j \in 0 .. p : t.stk.hi[j] = s.stk.hi[j] /\ t.stk.lo[j] = s.stk.lo[j]
  BY DEF n, p
<1>4. /\ n > 0 => t.lf /\ ~t.fv
      /\ \A k \in 1 .. n : t.stk.hi[p - 2 * (n - k)] = L[k].start
  <2>1. /\ n > 0 => s.lf /\ ~s.fv
        /\ \A k \in 1 .. n : s.stk.hi[p - 2 * (n - k)] = L[k].start
    BY <1>3 DEF Frames
  <2>2. \A k \in 1 .. n : p - 2 * (n - k) \in 0 .. p
    BY <1>1
  <2>. QED BY <1>3, <2>1, <2>2
<1>5. ASSUME NEW k \in 1 .. n
      PROVE  /\ (IF k = n THEN t.la ELSE t.stk.hi[p - 2 * (n - k) + 1]) = L[k].la
             /\ k > 1 => t.stk.lo[p - 2 * (n - k)] = 2
  <2>1. /\ (IF k = n THEN s.la ELSE s.stk.hi[p - 2 * (n - k) + 1]) = L[k].la
        /\ k > 1 => s.stk.lo[p - 2 * (n - k)] = 2
    BY <1>3 DEF Frames
  <2>2. k # n => p - 2 * (n - k) + 1 \in 0 .. p
    BY <1>1
  <2>3. p - 2 * (n - k) \in 0 .. p
    BY <1>1
  <2>. QED BY <1>3, <2>1, <2>2, <2>3
<1>6. Frames(t, L)
  <2>1. (Len(L) > 0 => t.lf /\ ~t.fv) /\ t.stk.ptr >= 2 * Len(L)
    BY <1>1, <1>3, <1>4
  <2>2. ASSUME NEW k \in 1 .. Len(L)
        PROVE  /\ t.stk.hi[t.stk.ptr - 2 * (Len(L) - k)] = L[k].start
               /\ (IF k = Len(L) THEN t.la ELSE t.stk.hi[t.stk.ptr - 2 * (Len(L) - k) + 1])
                    = L[k].la
               /\ k > 1 => t.stk.lo[t.stk.ptr - 2 * (Len(L) - k)] = 2
    <3>1. k \in 1 .. n
      BY <1>3
    <3>. QED BY <1>3, <1>4, <1>5, <3>1
  <2>. QED BY <2>1, <2>2, Zenon DEF Frames
<1>7. (OuterLf(t, L) <=> OuterLf(s, L)) /\ OuterLa(t, L) = OuterLa(s, L)
  <2>1. CASE L = << >>
    BY <2>1 DEF OuterLf, OuterLa
  <2>2. CASE L # << >>
    <3>1. p - 2 * n + 2 \in 0 .. p /\ p - 2 * n + 1 \in 0 .. p
      BY <1>1, <1>2, <2>2
    <3>. QED BY <1>3, <2>2, <3>1 DEF OuterLf, OuterLa
  <2>. QED BY <2>1, <2>2
<1>. QED BY <1>6, <1>7

\* A DO pushes the frames of its loop.
LEMMA FramesPush ==
    ASSUME NEW s, Sane(s), NEW L \in Seq(LoopRecords), Frames(s, L),
           NEW a \in Addrs, NEW n \in Lcs, s.pc + 2 \in Addrs,
           ~do_setup(s, a, n, FALSE).armed
    PROVE  LET t == do_setup(s, a, n, FALSE)
               K == Append(L, Loop(s.pc + 2, a))
           IN  /\ K \in Seq(LoopRecords) /\ Len(K) = Len(L) + 1 /\ Frames(t, K)
               /\ OuterLf(t, K) <=> OuterLf(s, L)
               /\ OuterLa(t, K) = OuterLa(s, L)
<1>. DEFINE t == do_setup(s, a, n, FALSE)
            l == Loop(s.pc + 2, a)
            K == Append(L, l)
            h == Len(L)
            p == s.stk.ptr
            b == s.pc + 2
<1>1. l \in LoopRecords /\ l.start = b /\ l.la = a
  BY DEF Loop, LoopRecords
<1>. HIDE DEF l
<1>2. K \in Seq(LoopRecords) /\ Len(K) = h + 1 /\ K # << >> /\ K[h + 1] = l
      /\ \A k \in 1 .. h : K[k] = L[k]
  BY <1>1
<1>3. mask_pc(b) = b
  BY MaskPc
<1>4. /\ t.la = a /\ t.lf /\ ~t.fv /\ p + 2 \in Slots /\ t.stk.ptr = p + 2
      /\ \A j \in 0 .. p : t.stk.hi[j] = s.stk.hi[j] /\ t.stk.lo[j] = s.stk.lo[j]
      /\ t.stk.hi[p + 1] = s.la /\ t.stk.hi[p + 2] = b
      /\ t.stk.lo[p + 2] = SrWord(s)
  <2>1. DoFacts(s, a, n, t)
    BY CountedDo
  <2>2. ~t.armed
    OBVIOUS
  <2>. HIDE DEF t
  <2>. QED BY <1>3, <2>1, <2>2 DEF DoFacts
<1>5. h \in Nat /\ p \in Nat /\ p >= 2 * h
  <2>1. p >= 2 * h
    BY DEF Frames
  <2>. QED BY <2>1, StackOf
<1>6. s \in Machines
  BY DEF Sane
<1>. HIDE DEF t, K, h, p, b
<1>7. /\ \A j \in 0 .. p : t.stk.hi[j] = s.stk.hi[j] /\ t.stk.lo[j] = s.stk.lo[j]
      /\ t.stk.hi[p + 1] = s.la /\ t.stk.hi[p + 2] = b
      /\ t.stk.lo[p + 2] = SrWord(s)
  BY <1>4
<1>8. /\ h > 0 => s.lf /\ ~s.fv
      /\ \A k \in 1 .. h : /\ s.stk.hi[p - 2 * (h - k)] = L[k].start
                           /\ (IF k = h THEN s.la ELSE s.stk.hi[p - 2 * (h - k) + 1]) = L[k].la
                           /\ k > 1 => s.stk.lo[p - 2 * (h - k)] = 2
  BY DEF Frames, h, p
<1>9. h > 0 => SrWord(s) = 2
  BY <1>8 DEF SrWord
<1>10. ASSUME NEW k \in 1 .. h + 1
       PROVE  /\ t.stk.hi[p + 2 - 2 * (h + 1 - k)] = K[k].start
              /\ (IF k = h + 1 THEN t.la ELSE t.stk.hi[p + 2 - 2 * (h + 1 - k) + 1]) = K[k].la
              /\ k > 1 => t.stk.lo[p + 2 - 2 * (h + 1 - k)] = 2
  <2>1. CASE k = h + 1
    <3>1. p + 2 - 2 * (h + 1 - k) = p + 2
      BY <1>5, <2>1
    <3>2. k > 1 => h > 0
      BY <1>5, <2>1
    <3>. QED BY <1>1, <1>2, <1>4, <1>7, <1>9, <2>1, <3>1, <3>2
  <2>2. CASE k # h + 1
    <3>1. k \in 1 .. h /\ p + 2 - 2 * (h + 1 - k) = p - 2 * (h - k)
          /\ p - 2 * (h - k) \in 0 .. p
          /\ (k # h => p - 2 * (h - k) + 1 \in 0 .. p)
          /\ (k = h => p - 2 * (h - k) + 1 = p + 1)
      BY <1>5, <2>2
    <3>2. /\ t.stk.hi[p - 2 * (h - k)] = L[k].start
          /\ t.stk.hi[p - 2 * (h - k) + 1] = L[k].la
      <4>1. CASE k = h
        BY <1>7, <1>8, <3>1, <4>1
      <4>2. CASE k # h
        BY <1>7, <1>8, <3>1, <4>2
      <4>. QED BY <4>1, <4>2
    <3>3. k > 1 => t.stk.lo[p - 2 * (h - k)] = 2
      BY <1>7, <1>8, <3>1
    <3>. QED BY <1>2, <2>2, <3>1, <3>2, <3>3
  <2>. QED BY <2>1, <2>2
<1>11. Frames(t, K)
  BY <1>2, <1>4, <1>5, <1>10 DEF Frames
<1>12. (OuterLf(t, K) <=> OuterLf(s, L)) /\ OuterLa(t, K) = OuterLa(s, L)
  <2>1. CASE L = << >>
    <3>1. h = 0
      BY <2>1 DEF h
    <3>2. (OuterLf(t, K) <=> t.stk.lo[p + 2] >= 2) /\ OuterLa(t, K) = t.stk.hi[p + 1]
      <4>1. /\ t.stk.ptr - 2 * Len(K) + 2 = p + 2
            /\ t.stk.ptr - 2 * Len(K) + 1 = p + 1
        BY <1>2, <1>4, <1>5, <3>1
      <4>. QED BY <1>2, <4>1, Zenon DEF OuterLf, OuterLa
    <3>. QED BY <1>6, <1>7, <2>1, <3>2, SrRoundTrip DEF OuterLf, OuterLa
  <2>2. CASE L # << >>
    <3>1. h > 0
      BY <2>2 DEF h
    <3>2. /\ t.stk.ptr - 2 * Len(K) + 2 = p - 2 * h + 2 /\ p - 2 * h + 2 \in 0 .. p
          /\ t.stk.ptr - 2 * Len(K) + 1 = p - 2 * h + 1 /\ p - 2 * h + 1 \in 0 .. p
      BY <1>2, <1>4, <1>5, <3>1
    <3>3. /\ OuterLf(t, K) <=> t.stk.lo[p - 2 * h + 2] >= 2
          /\ OuterLa(t, K) = t.stk.hi[p - 2 * h + 1]
      BY <1>2, <3>2, Zenon DEF OuterLf, OuterLa
    <3>4. /\ OuterLf(s, L) <=> s.stk.lo[p - 2 * h + 2] >= 2
          /\ OuterLa(s, L) = s.stk.hi[p - 2 * h + 1]
      BY <2>2 DEF OuterLf, OuterLa, h, p
    <3>. QED BY <1>7, <3>2, <3>3, <3>4
  <2>. QED BY <2>1, <2>2
<1>. QED BY <1>2, <1>11, <1>12 DEF t, K, h, l

\* An annulled DO leaves them as they were.
AnnulFacts(s, L, t) ==
    /\ Sane(t) /\ ~t.armed /\ Frames(t, L) /\ t.rep = s.rep /\ t.pc = s.pc
    /\ OuterLf(t, L) <=> OuterLf(s, L)
    /\ OuterLa(t, L) = OuterLa(s, L)

\* A DO of count zero, entered and left at once, leaves the frames as they were.
LEMMA FramesAnnul ==
    ASSUME NEW s, Sane(s), NEW L \in Seq(LoopRecords), Frames(s, L),
           NEW a \in Addrs, NEW n \in Lcs,
           ~do_setup(s, a, n, FALSE).armed
    PROVE  AnnulFacts(s, L, enddo_cleanup(do_setup(s, a, n, FALSE)))
<1>. DEFINE d == do_setup(s, a, n, FALSE)
            t == enddo_cleanup(d)
            p == s.stk.ptr
<1>1. /\ Sane(d) /\ d.pc = s.pc /\ d.rep = s.rep /\ d.stk.ptr = p + 2 /\ ~d.armed
      /\ \A j \in 0 .. p : d.stk.hi[j] = s.stk.hi[j] /\ d.stk.lo[j] = s.stk.lo[j]
      /\ d.stk.hi[p + 1] = s.la /\ d.stk.lo[p + 2] = SrWord(s)
  <2>1. DoFacts(s, a, n, d)
    BY CountedDo
  <2>2. ~d.armed
    OBVIOUS
  <2>. HIDE DEF d
  <2>. QED BY <2>1, <2>2 DEF DoFacts
<1>2. p \in Nat /\ s \in Machines
  BY StackOf
<1>. HIDE DEF d, p
<1>3. /\ Sane(t) /\ t.pc = d.pc /\ t.rep = d.rep
      /\ t.stk.hi = d.stk.hi /\ t.stk.lo = d.stk.lo
      /\ t.lf <=> d.stk.lo[p + 2] >= 2
      /\ t.fv <=> d.stk.lo[p + 2] % 2 = 1
      /\ t.armed = d.armed /\ t.stk.ptr = p /\ t.la = d.stk.hi[p + 1]
  <2>1. d.stk.ptr >= 2 /\ d.stk.ptr - 2 = p /\ d.stk.ptr - 1 = p + 1 /\ d.stk.ptr = p + 2
    BY <1>1, <1>2
  <2>2. CleanupFacts(d, t)
    BY <1>1, Cleanup
  <2>. HIDE DEF t
  <2>. QED BY <2>1, <2>2, Zenon DEF CleanupFacts
<1>. HIDE DEF t
<1>5. (t.lf <=> s.lf) /\ (t.fv <=> s.fv) /\ t.la = s.la
  BY <1>1, <1>2, <1>3, SrRoundTrip
<1>6. \A j \in 0 .. s.stk.ptr : t.stk.hi[j] = s.stk.hi[j] /\ t.stk.lo[j] = s.stk.lo[j]
  BY <1>1, <1>3 DEF p
<1>7. t.stk.ptr = s.stk.ptr
  BY <1>3 DEF p
<1>8. /\ Frames(t, L) /\ (OuterLf(t, L) <=> OuterLf(s, L)) /\ OuterLa(t, L) = OuterLa(s, L)
  BY <1>5, <1>6, <1>7, FramesBelow
<1>. QED BY <1>1, <1>3, <1>8 DEF t, d, AnnulFacts

\* The end of the innermost loop uncovers the one around it.
LEMMA FramesPop ==
    ASSUME NEW s, Sane(s), ~s.armed, NEW L \in Seq(LoopRecords), L # << >>, Frames(s, L)
    PROVE  LET t == enddo_cleanup(s)
               K == SubSeq(L, 1, Len(L) - 1)
           IN  /\ K \in Seq(LoopRecords) /\ Len(K) = Len(L) - 1
               /\ \A k \in 1 .. Len(L) - 1 : K[k] = L[k]
               /\ Sane(t) /\ ~t.armed /\ t.rep = s.rep /\ Frames(t, K)
               /\ OuterLf(t, K) <=> OuterLf(s, L)
               /\ OuterLa(t, K) = OuterLa(s, L)
<1>. DEFINE t == enddo_cleanup(s)
            K == SubSeq(L, 1, Len(L) - 1)
            h == Len(L)
            p == s.stk.ptr
<1>1. h \in Nat /\ h > 0 /\ p \in Nat /\ p >= 2 * h
  <2>1. p >= 2 * h
    BY DEF Frames
  <2>. QED BY <2>1, StackOf
<1>2. K \in Seq(LoopRecords) /\ Len(K) = h - 1 /\ \A k \in 1 .. h - 1 : K[k] = L[k]
  <2>1. h - 1 \in Int /\ 1 \in Int /\ \A i \in 1 .. h - 1 : L[i] \in LoopRecords
    BY <1>1
  <2>. DEFINE g == h - 1
  <2>. HIDE DEF h, g
  <2>2. /\ SubSeq(L, 1, g) \in Seq(LoopRecords)
        /\ Len(SubSeq(L, 1, g)) = IF 1 <= g THEN g - 1 + 1 ELSE 0
        /\ \A i \in 1 .. g - 1 + 1 : SubSeq(L, 1, g)[i] = L[1 + i - 1]
    <3>1. g \in Int /\ 1 \in Int /\ \A i \in 1 .. g : L[i] \in LoopRecords
      BY <2>1 DEF g
    <3>. QED BY <3>1
  <2>3. g - 1 + 1 = g /\ g \in Nat /\ (1 <= g \/ g = 0)
    BY <1>1 DEF g
  <2>4. K = SubSeq(L, 1, g)
    BY DEF g, h
  <2>. HIDE DEF K
  <2>. QED BY <2>2, <2>3, <2>4 DEF g
<1>3. /\ Sane(t) /\ t.rep = s.rep
      /\ t.stk.hi = s.stk.hi /\ t.stk.lo = s.stk.lo
      /\ t.lf <=> s.stk.lo[p] >= 2
      /\ t.fv <=> s.stk.lo[p] % 2 = 1
      /\ t.armed = s.armed /\ t.stk.ptr = p - 2 /\ t.la = s.stk.hi[p - 1]
  <2>1. p >= 2
    BY <1>1
  <2>2. CleanupFacts(s, t)
    BY Cleanup
  <2>. HIDE DEF t
  <2>. QED BY <2>1, <2>2 DEF CleanupFacts
<1>4. /\ \A k \in 1 .. h : /\ s.stk.hi[p - 2 * (h - k)] = L[k].start
                           /\ (IF k = h THEN s.la ELSE s.stk.hi[p - 2 * (h - k) + 1]) = L[k].la
                           /\ k > 1 => s.stk.lo[p - 2 * (h - k)] = 2
  BY DEF Frames
<1>. HIDE DEF t, K, h, p
<1>5. h > 1 => t.lf /\ ~t.fv
  <2>1. h > 1 => s.stk.lo[p] = 2
    <3>1. p - 2 * (h - h) = p /\ h \in 1 .. h
      BY <1>1
    <3>. QED BY <1>4, <3>1
  <2>2. 2 % 2 = 0 /\ 2 >= 2 /\ 0 # 1
    OBVIOUS
  <2>. QED BY <1>3, <2>1, <2>2
<1>6. ASSUME NEW k \in 1 .. h - 1
      PROVE  /\ t.stk.hi[p - 2 - 2 * (h - 1 - k)] = K[k].start
             /\ (IF k = h - 1 THEN t.la ELSE t.stk.hi[p - 2 - 2 * (h - 1 - k) + 1]) = K[k].la
             /\ k > 1 => t.stk.lo[p - 2 - 2 * (h - 1 - k)] = 2
  <2>1. /\ k \in 1 .. h /\ k # h /\ p - 2 - 2 * (h - 1 - k) = p - 2 * (h - k)
        /\ k = h - 1 => p - 2 * (h - k) + 1 = p - 1
    BY <1>1
  <2>. QED BY <1>2, <1>3, <1>4, <2>1
<1>7. Frames(t, K)
  <2>1. h - 1 > 0 => h > 1
    BY <1>1
  <2>2. p - 2 >= 2 * (h - 1)
    BY <1>1
  <2>. QED BY <1>2, <1>3, <1>5, <1>6, <2>1, <2>2 DEF Frames
<1>8. /\ OuterLf(s, L) <=> s.stk.lo[p - 2 * h + 2] >= 2
      /\ OuterLa(s, L) = s.stk.hi[p - 2 * h + 1]
  BY DEF OuterLf, OuterLa, h, p
<1>9. (OuterLf(t, K) <=> OuterLf(s, L)) /\ OuterLa(t, K) = OuterLa(s, L)
  <2>1. CASE h = 1
    <3>1. K = << >>
      BY <1>2, <2>1
    <3>2. p - 2 * h + 2 = p /\ p - 2 * h + 1 = p - 1
      BY <1>1, <2>1
    <3>. QED BY <1>3, <1>8, <3>1, <3>2 DEF OuterLf, OuterLa
  <2>2. CASE h # 1
    <3>1. K # << >>
      BY <1>1, <1>2, <2>2
    <3>2. /\ p - 2 - 2 * (h - 1) + 2 = p - 2 * h + 2
          /\ p - 2 - 2 * (h - 1) + 1 = p - 2 * h + 1
      BY <1>1
    <3>3. /\ OuterLf(t, K) <=> t.stk.lo[p - 2 - 2 * (h - 1) + 2] >= 2
          /\ OuterLa(t, K) = t.stk.hi[p - 2 - 2 * (h - 1) + 1]
      BY <1>2, <1>3, <3>1 DEF OuterLf, OuterLa
    <3>. QED BY <1>3, <1>8, <3>2, <3>3
  <2>. QED BY <2>1, <2>2
<1>. QED BY <1>2, <1>3, <1>7, <1>9 DEF t, K, h

-------------------------------------------------------------------------------
(* Places in a block.                                                      *)

Blocks == [stop : Nat, end : 1 .. Size, il : 0 .. 2, rep : BOOLEAN, loops : Seq(LoopRecords)]

\* In the region of a skip of the block's top level.
InSkip(c, max, b, q) ==
    \E p \in Addrs : /\ At(c, p).op = "bcc" /\ IsSkipInlineable(c, p, b.stop)
                     /\ GoesOn(c, max, b.stop, b.end, At(c, p).to)
                     /\ q \in Walk(c, Behind(c, p), At(c, p).to - 1)

\* The loops were met walking the body of the outermost one, and nest.
Nested(c, max, b) ==
    LET L == b.loops
        lo == L[1].start
        hi == L[1].la
    IN  /\ GoesOn(c, max, b.stop, b.end, hi + 1)
        /\ IsDoBodyInlineable(c, lo, hi, b.stop)
        /\ \A k \in 1 .. Len(L) : BodyOk(c, lo, hi, L[k])
        /\ \A k \in 2 .. Len(L) : L[k - 1].start <= L[k].start /\ L[k].la < L[k - 1].la

\* In the body of the innermost loop.
Within(c, b, q) ==
    LET L == b.loops
    IN  q \in Walk(c, L[1].start, L[1].la) /\ L[Len(L)].start <= q /\ q <= L[Len(L)].la

\* An instruction of the block is at q; the instruction before p leads to p.
Place(c, max, b, q) ==
    IF b.loops = << >> THEN \/ GoesOn(c, max, b.stop, b.end, q) /\ q # b.end
                            \/ InSkip(c, max, b, q)
    ELSE Nested(c, max, b) /\ Within(c, b, q)
Arrives(c, max, b, p) ==
    IF b.loops = << >> THEN GoesOn(c, max, b.stop, b.end, p) \/ InSkip(c, max, b, p)
    ELSE Nested(c, max, b) /\ (Within(c, b, p) \/ p = b.loops[Len(b.loops)].la + 1)

\* At the top level, further on than q, and not past the boundary.
Onward(b, q, p) == b.loops = << >> => q < p /\ p \in Nat /\ (p = b.end \/ p < b.stop)

\* Only stop, end and loops matter.
LEMMA PlaceSame ==
    ASSUME NEW c, NEW max, NEW b, NEW d, NEW q,
           d.stop = b.stop, d.end = b.end, d.loops = b.loops
    PROVE  /\ Place(c, max, b, q) => Place(c, max, d, q)
           /\ Arrives(c, max, b, q) => Arrives(c, max, d, q)
BY Zenon DEF Place, Arrives, InSkip, Nested, Within

\* Every place is an address.
LEMMA PlaceAddr ==
    ASSUME NEW c \in Codes, NEW max \in Nat, NEW b \in Blocks, NEW q, Place(c, max, b, q)
    PROVE  /\ q \in Addrs
           /\ b.loops = << >> => q < b.end
<1>1. b.stop \in Nat /\ b.loops \in Seq(LoopRecords) /\ b.end \in Nat
  BY LoopAssumption DEF Blocks
<1>2. CASE b.loops = << >>
  <2>1. CASE GoesOn(c, max, b.stop, b.end, q) /\ q # b.end
    BY <1>1, <2>1, TopLevel
  <2>2. CASE InSkip(c, max, b, q)
    <3>1. PICK p \in Addrs : /\ IsSkipInlineable(c, p, b.stop)
                             /\ GoesOn(c, max, b.stop, b.end, At(c, p).to)
                             /\ q \in Walk(c, Behind(c, p), At(c, p).to - 1)
      BY <2>2 DEF InSkip
    <3>2. q \in Addrs /\ q < At(c, p).to
      BY <1>1, <3>1, InRegion
    <3>3. At(c, p).to <= b.end /\ At(c, p).to \in Nat
      <4>1. PICK n \in Counts(max) : EndFrom(c, max, b.stop)[At(c, p).to][n] = b.end
        BY <3>1 DEF GoesOn
      <4>2. At(c, p).to \in 0 .. Size
        BY <3>1 DEF GoesOn
      <4>3. b.end \in At(c, p).to .. Size
        BY <1>1, <4>1, <4>2, EndBounds
      <4>. QED BY <4>2, <4>3, LoopAssumption
    <3>. QED BY <1>1, <3>2, <3>3 DEF Addrs
  <2>. QED BY <1>2, <2>1, <2>2 DEF Place
<1>3. CASE b.loops # << >>
  <2>. DEFINE L == b.loops
  <2>1. Len(L) \in Nat /\ Len(L) > 0 /\ L[1] \in LoopRecords
    BY <1>1, <1>3
  <2>2. L[1].start \in Nat /\ L[1].la \in Nat /\ L[1].la < Size /\ Size \in Nat
    BY <2>1, LoopAssumption DEF LoopRecords, Addrs
  <2>3. q \in Walk(c, L[1].start, L[1].la) /\ L[1].start <= L[1].la
    <3>1. Nested(c, max, b) /\ Within(c, b, q)
      BY <1>3 DEF Place
    <3>. QED BY <3>1 DEF Nested, Within, IsDoBodyInlineable
  <2>4. q \in L[1].start .. L[1].la
    BY <2>2, <2>3, WalkChained DEF Chained
  <2>. QED BY <1>3, <2>2, <2>4 DEF Addrs
<1>. QED BY <1>2, <1>3

\* The innermost loop of a nest.
LEMMA Innermost ==
    ASSUME NEW c \in Codes, NEW max \in Nat, NEW b \in Blocks, b.loops # << >>,
           Nested(c, max, b)
    PROVE  LET L == b.loops
               n == Len(L)
           IN  /\ n \in Nat /\ n >= 1 /\ L[1] \in LoopRecords /\ L[n] \in LoopRecords
               /\ L[1].start \in Nat /\ L[1].la \in Addrs /\ L[n].start \in Nat /\ L[n].la \in Nat
               /\ L[n].la < Size /\ L[n].start <= L[n].la
               /\ IsDoBodyInlineable(c, L[1].start, L[1].la, b.stop)
               /\ BodyOk(c, L[1].start, L[1].la, L[n])
<1>. DEFINE L == b.loops
            n == Len(L)
<1>1. n \in Nat /\ n >= 1 /\ L[1] \in LoopRecords /\ L[n] \in LoopRecords /\ n \in 1 .. n
  BY DEF Blocks
<1>2. /\ L[1].start \in Nat /\ L[1].la \in Addrs /\ L[n].start \in Nat /\ L[n].la \in Nat
      /\ L[n].la < Size
  BY <1>1, LoopAssumption DEF LoopRecords, Addrs
<1>3. IsDoBodyInlineable(c, L[1].start, L[1].la, b.stop) /\ BodyOk(c, L[1].start, L[1].la, L[n])
  BY <1>1 DEF Nested
<1>4. L[n].start <= L[n].la
  BY <1>3 DEF BodyOk
<1>. QED BY <1>1, <1>2, <1>3, <1>4

\* Which instructions there are inside loops and skips.
LEMMA PlaceOps ==
    ASSUME NEW c \in Codes, NEW max \in Nat, NEW b \in Blocks, NEW q, Place(c, max, b, q)
    PROVE  b.loops # << >> =>
             /\ At(c, q).op \in {"plain", "setla", "do", "bcc", "rep"}
             /\ At(c, q).op = "rep" => InlinesRep(c, q)
<1>. SUFFICES ASSUME b.loops # << >>
              PROVE  /\ At(c, q).op \in {"plain", "setla", "do", "bcc", "rep"}
                     /\ At(c, q).op = "rep" => InlinesRep(c, q)
  OBVIOUS
<1>1. Nested(c, max, b) /\ Within(c, b, q)
  BY DEF Place
<1>. DEFINE L == b.loops
            n == Len(L)
<1>2. /\ L[1].start \in Nat /\ L[1].la \in Addrs /\ L[n] \in LoopRecords
      /\ IsDoBodyInlineable(c, L[1].start, L[1].la, b.stop)
      /\ BodyOk(c, L[1].start, L[1].la, L[n])
  BY <1>1, Innermost
<1>3. q \in Walk(c, L[1].start, L[1].la) /\ L[n].start <= q /\ q <= L[n].la
  BY <1>1 DEF Within
<1>. HIDE DEF L, n
<1>. QED BY <1>2, <1>3, BodyStep

\* An ordinary instruction or a REP leads to the word behind it.
LEMMA OrdinaryPlace ==
    ASSUME NEW c \in Codes, NEW max \in Nat, NEW b \in Blocks, NEW q, Place(c, max, b, q),
           At(c, q).op \in {"plain", "exit", "setla"} \/ InlinesRep(c, q)
    PROVE  Arrives(c, max, b, Behind(c, q)) /\ Onward(b, q, Behind(c, q))
<1>1. q \in Addrs /\ q \in Nat /\ Behind(c, q) \in Nat /\ q < Behind(c, q)
  <2>1. q \in Addrs /\ q \in Nat
    BY PlaceAddr DEF Addrs
  <2>. QED BY <2>1, Instruction
<1>2. b.stop \in Nat
  BY DEF Blocks
<1>3. CASE b.loops = << >>
  <2>1. CASE GoesOn(c, max, b.stop, b.end, q) /\ q # b.end
    <3>1. GoesOn(c, max, b.stop, b.end, Behind(c, q))
          /\ (Behind(c, q) = b.end \/ Behind(c, q) < b.stop)
      BY <1>2, <2>1, TopLevel
    <3>. QED BY <1>1, <1>3, <3>1 DEF Arrives, Onward
  <2>2. CASE InSkip(c, max, b, q)
    <3>1. PICK p \in Addrs : /\ At(c, p).op = "bcc" /\ IsSkipInlineable(c, p, b.stop)
                             /\ GoesOn(c, max, b.stop, b.end, At(c, p).to)
                             /\ q \in Walk(c, Behind(c, p), At(c, p).to - 1)
      BY <2>2 DEF InSkip
    <3>. DEFINE t == At(c, p).to
                W == Walk(c, Behind(c, p), t - 1)
    <3>2. t < b.stop /\ t \in Nat /\ (Behind(c, q) = t \/ Behind(c, q) \in W)
      <4>1. t \in Nat
        <5>1. p \in Nat
          BY DEF Addrs
        <5>. QED BY <5>1, Instruction DEF Addrs
      <4>. QED BY <1>2, <3>1, <4>1, InRegion
    <3>3. CASE Behind(c, q) = t
      BY <1>1, <1>3, <3>1, <3>2, <3>3 DEF Arrives, Onward
    <3>4. CASE Behind(c, q) \in W
      <4>1. Behind(c, q) < t
        BY <1>2, <3>1, <3>4, InRegion
      <4>2. InSkip(c, max, b, Behind(c, q))
        BY <3>1, <3>4 DEF InSkip
      <4>3. Behind(c, q) < b.stop
        BY <1>1, <1>2, <3>2, <4>1
      <4>. QED BY <1>1, <1>3, <4>2, <4>3 DEF Arrives, Onward
    <3>. QED BY <3>2, <3>3, <3>4
  <2>. QED BY <1>3, <2>1, <2>2 DEF Place
<1>4. CASE b.loops # << >>
  <2>1. Nested(c, max, b) /\ Within(c, b, q)
    BY <1>4 DEF Place
  <2>. DEFINE L == b.loops
              n == Len(L)
  <2>2. /\ L[1].start \in Nat /\ L[1].la \in Addrs /\ L[n] \in LoopRecords
        /\ L[n].start \in Nat /\ L[n].la \in Nat
        /\ IsDoBodyInlineable(c, L[1].start, L[1].la, b.stop)
        /\ BodyOk(c, L[1].start, L[1].la, L[n])
    BY <1>4, <2>1, Innermost
  <2>3. q \in Walk(c, L[1].start, L[1].la) /\ L[n].start <= q /\ q <= L[n].la
    BY <2>1 DEF Within
  <2>. HIDE DEF L, n
  <2>4. /\ Behind(c, q) <= L[n].la + 1
        /\ Behind(c, q) # L[n].la + 1 => Behind(c, q) \in Walk(c, L[1].start, L[1].la)
    BY <2>2, <2>3, BodyStep
  <2>5. CASE Behind(c, q) = L[n].la + 1
    BY <1>4, <2>1, <2>5 DEF Arrives, Onward, L, n
  <2>6. CASE Behind(c, q) # L[n].la + 1
    <3>1. L[n].start <= Behind(c, q) /\ Behind(c, q) <= L[n].la
      BY <1>1, <2>2, <2>3, <2>4, <2>6
    <3>. QED BY <1>4, <2>1, <2>4, <2>6, <3>1 DEF Arrives, Onward, Within, L, n
  <2>. QED BY <2>5, <2>6
<1>. QED BY <1>3, <1>4

\* A skip compiled into the block leads to its target or to the word behind it.
LEMMA SkipPlace ==
    ASSUME NEW c \in Codes, NEW max \in Nat, NEW b \in Blocks, NEW q, Place(c, max, b, q),
           At(c, q).op = "bcc",
           b.loops # << >> \/ (IsSkipInlineable(c, q, b.stop) /\ At(c, q).to <= b.end)
    PROVE  /\ Arrives(c, max, b, Behind(c, q)) /\ Onward(b, q, Behind(c, q))
           /\ Arrives(c, max, b, At(c, q).to) /\ Onward(b, q, At(c, q).to)
           /\ b.loops # << >> => /\ Place(c, max, b, At(c, q).to)
                                 /\ q < At(c, q).to
                                 /\ At(c, q).to # b.loops[Len(b.loops)].la + 1
<1>. DEFINE to == At(c, q).to
<1>1. q \in Addrs /\ q \in Nat /\ Behind(c, q) \in Nat /\ q < Behind(c, q) /\ to \in Nat
  <2>1. q \in Addrs /\ q \in Nat
    BY PlaceAddr DEF Addrs
  <2>. QED BY <2>1, Instruction DEF Addrs
<1>2. b.stop \in Nat
  BY DEF Blocks
<1>3. CASE b.loops = << >>
  <2>1. CASE GoesOn(c, max, b.stop, b.end, q) /\ q # b.end
    <3>1. GoesOn(c, max, b.stop, b.end, to)
      BY <1>2, <1>3, <2>1, TopLevel
    <3>2. to >= Behind(c, q) /\ to < b.stop
      BY <1>3 DEF IsSkipInlineable
    <3>3. q < to
      BY <1>1, <3>2
    <3>. HIDE DEF to
    <3>4. CASE Behind(c, q) = to
      BY <1>1, <1>3, <3>1, <3>2, <3>3, <3>4 DEF Arrives, Onward, to
    <3>5. CASE Behind(c, q) # to
      <4>1. Behind(c, q) <= to - 1 /\ to - 1 \in Nat
        BY <1>1, <3>2, <3>5
      <4>2. Behind(c, q) \in Walk(c, Behind(c, q), to - 1)
        BY <1>1, <4>1, WalkChained DEF Chained
      <4>3. InSkip(c, max, b, Behind(c, q))
        BY <1>1, <1>3, <3>1, <4>2 DEF InSkip, to
      <4>4. Behind(c, q) < b.stop
        BY <1>1, <1>2, <3>2
      <4>. QED BY <1>1, <1>3, <3>1, <3>2, <3>3, <4>3, <4>4 DEF Arrives, Onward, to
    <3>. QED BY <3>4, <3>5
  <2>2. CASE InSkip(c, max, b, q)
    <3>1. PICK p \in Addrs : /\ At(c, p).op = "bcc" /\ IsSkipInlineable(c, p, b.stop)
                             /\ GoesOn(c, max, b.stop, b.end, At(c, p).to)
                             /\ q \in Walk(c, Behind(c, p), At(c, p).to - 1)
      BY <2>2 DEF InSkip
    <3>. DEFINE t == At(c, p).to
                W == Walk(c, Behind(c, p), t - 1)
    <3>2. /\ t < b.stop /\ t \in Nat /\ (Behind(c, q) = t \/ Behind(c, q) \in W)
          /\ to = t \/ to \in W
      <4>1. t \in Nat
        <5>1. p \in Nat
          BY DEF Addrs
        <5>. QED BY <5>1, Instruction DEF Addrs
      <4>. QED BY <1>2, <3>1, <4>1, InRegion
    <3>3. ASSUME NEW r \in Nat, r = t \/ r \in W
          PROVE  (GoesOn(c, max, b.stop, b.end, r) \/ InSkip(c, max, b, r)) /\ r < b.stop
      <4>1. CASE r = t
        BY <3>1, <3>2, <4>1
      <4>2. CASE r \in W
        <5>1. r < t
          BY <1>2, <3>1, <4>2, InRegion
        <5>2. InSkip(c, max, b, r)
          BY <3>1, <4>2 DEF InSkip
        <5>3. r < b.stop
          BY <1>2, <3>2, <5>1
        <5>. QED BY <5>2, <5>3
      <4>. QED BY <3>3, <4>1, <4>2
    <3>4. q < to
      <4>1. to >= Behind(c, q)
        BY <1>3 DEF IsSkipInlineable
      <4>. QED BY <1>1, <4>1
    <3>. QED BY <1>1, <1>3, <3>2, <3>3, <3>4 DEF Arrives, Onward
  <2>. QED BY <1>3, <2>1, <2>2 DEF Place
<1>4. CASE b.loops # << >>
  <2>1. Nested(c, max, b) /\ Within(c, b, q)
    BY <1>4 DEF Place
  <2>. DEFINE L == b.loops
              n == Len(L)
  <2>2. /\ L[1].start \in Nat /\ L[1].la \in Addrs /\ L[n] \in LoopRecords
        /\ L[n].start \in Nat /\ L[n].la \in Nat
        /\ IsDoBodyInlineable(c, L[1].start, L[1].la, b.stop)
        /\ BodyOk(c, L[1].start, L[1].la, L[n])
    BY <1>4, <2>1, Innermost
  <2>3. q \in Walk(c, L[1].start, L[1].la) /\ L[n].start <= q /\ q <= L[n].la
    BY <2>1 DEF Within
  <2>. HIDE DEF L, n
  <2>4. /\ Behind(c, q) <= L[n].la + 1
        /\ Behind(c, q) # L[n].la + 1 => Behind(c, q) \in Walk(c, L[1].start, L[1].la)
        /\ to \in Walk(c, L[1].start, L[1].la) /\ q < to /\ to <= L[n].la
    BY <2>2, <2>3, BodyStep
  <2>5. /\ L[n].start <= Behind(c, q) /\ (Behind(c, q) # L[n].la + 1 => Behind(c, q) <= L[n].la)
        /\ L[n].start <= to /\ to # L[n].la + 1
    BY <1>1, <2>2, <2>3, <2>4
  <2>6. Within(c, b, to) /\ (Behind(c, q) # L[n].la + 1 => Within(c, b, Behind(c, q)))
    BY <2>4, <2>5 DEF Within, L, n
  <2>. QED BY <1>4, <2>1, <2>4, <2>5, <2>6 DEF Arrives, Onward, Place, L, n
<1>. QED BY <1>3, <1>4

\* A DO compiled into the block: its body, and what follows when it is annulled.
LEMMA DoPlace ==
    ASSUME NEW c \in Codes, NEW max \in Nat, NEW b \in Blocks, NEW q, Place(c, max, b, q),
           At(c, q).op = "do", b.loops # << >> \/ InlinesDo(c, q, b.stop),
           NEW d, d.stop = b.stop, d.end = b.end,
           d.loops = Append(b.loops, Loop(q + 2, At(c, q).to))
    PROVE  /\ q + 2 \in Addrs /\ q + 2 <= At(c, q).to
           /\ Place(c, max, d, q + 2)
           /\ Arrives(c, max, b, At(c, q).to + 1) /\ Onward(b, q, At(c, q).to + 1)
           /\ b.loops # << >> => /\ Place(c, max, b, At(c, q).to + 1)
                                 /\ At(c, q).to < b.loops[Len(b.loops)].la
<1>. DEFINE to == At(c, q).to
            L == b.loops
            n == Len(L)
            K == d.loops
            l == Loop(q + 2, to)
<1>1. /\ q \in Addrs /\ q \in Nat /\ to \in Addrs /\ to \in Nat /\ to < Size
      /\ Behind(c, q) = q + 2 /\ q + 2 <= Size
  <2>0. q \in Addrs
    BY PlaceAddr
  <2>1. q \in Addrs /\ q \in Nat /\ q < Size
    BY <2>0, LoopAssumption DEF Addrs
  <2>2. to \in Addrs /\ Behind(c, q) = q + 2 /\ q + 2 <= Size
    BY <2>1, Instruction
  <2>. QED BY <2>1, <2>2, LoopAssumption DEF Addrs
<1>2. b.stop \in Nat /\ L \in Seq(LoopRecords) /\ n \in Nat /\ (L # << >> <=> n # 0)
  BY DEF Blocks
<1>3. Len(K) = n + 1 /\ K # << >> /\ K[n + 1] = l /\ \A k \in 1 .. n : K[k] = L[k]
  BY <1>2
<1>4. l.start = q + 2 /\ l.la = to
  BY DEF Loop
<1>. HIDE DEF K, l, to
<1>5. CASE L = << >>
  <2>1. InlinesDo(c, q, b.stop) /\ IsDoBodyInlineable(c, q + 2, to, b.stop)
    BY <1>5 DEF InlinesDo, to
  <2>2. GoesOn(c, max, b.stop, b.end, q) /\ q # b.end
    <3>1. ASSUME InSkip(c, max, b, q) PROVE FALSE
      <4>1. PICK p \in Addrs : /\ IsSkipInlineable(c, p, b.stop)
                               /\ q \in Walk(c, Behind(c, p), At(c, p).to - 1)
        BY <3>1 DEF InSkip
      <4>2. At(c, q).op \in {"plain", "exit", "setla", "bcc"}
        BY <1>2, <4>1, InRegion
      <4>. QED BY <4>2
    <3>. QED BY <1>5, <3>1 DEF Place
  <2>3. GoesOn(c, max, b.stop, b.end, to + 1)
    BY <1>2, <2>1, <2>2, TopLevel DEF to
  <2>4. q + 2 <= to /\ to + 1 < b.stop
    BY <2>1 DEF IsDoBodyInlineable
  <2>5. BodyOk(c, q + 2, to, l) /\ q + 2 \in Walk(c, q + 2, to)
    <3>1. q + 2 \in Nat
      BY <1>1
    <3>2. BodyOk(c, q + 2, to, l)
      BY <1>1, <2>1, <3>1, OuterBody DEF l
    <3>. QED BY <1>1, <2>4, <3>1, <3>2, WalkChained DEF Chained
  <2>6. n = 0 /\ K[1] = l /\ Len(K) = 1
    BY <1>2, <1>3, <1>5
  <2>7. q + 2 <= q + 2 /\ 2 .. 1 = {} /\ 1 .. 1 = {1}
    BY <1>1
  <2>8. Nested(c, max, d)
    BY <1>4, <2>1, <2>3, <2>5, <2>6, <2>7 DEF Nested, K
  <2>9. Within(c, d, q + 2)
    BY <1>4, <2>4, <2>5, <2>6, <2>7 DEF Within, K
  <2>10. q < to + 1 /\ q + 2 \in Addrs /\ to + 1 \in Nat
    BY <1>1, <2>4, LoopAssumption DEF Addrs
  <2>. QED BY <1>3, <1>5, <2>3, <2>4, <2>8, <2>9, <2>10 DEF Place, Arrives, Onward, K, to
<1>6. CASE L # << >>
  <2>1. Nested(c, max, b) /\ Within(c, b, q)
    BY <1>6 DEF Place
  <2>2. /\ n >= 1 /\ L[1].start \in Nat /\ L[1].la \in Addrs /\ L[n] \in LoopRecords
        /\ L[n].start \in Nat /\ L[n].la \in Nat
        /\ IsDoBodyInlineable(c, L[1].start, L[1].la, b.stop)
        /\ BodyOk(c, L[1].start, L[1].la, L[n])
    BY <1>6, <2>1, Innermost
  <2>3. q \in Walk(c, L[1].start, L[1].la) /\ L[n].start <= q /\ q <= L[n].la
    BY <2>1 DEF Within
  <2>. DEFINE lo == L[1].start
              hi == L[1].la
  <2>4. /\ GoesOn(c, max, b.stop, b.end, hi + 1)
        /\ \A k \in 1 .. n : BodyOk(c, lo, hi, L[k])
        /\ \A k \in 2 .. n : L[k - 1].start <= L[k].start /\ L[k].la < L[k - 1].la
    BY <2>1 DEF Nested
  <2>. HIDE DEF L, n
  <2>5. to < L[n].la
    BY <2>2, <2>3, BodyStep DEF to
  <2>6. /\ q + 2 \in Walk(c, lo, hi) /\ to + 1 \in Walk(c, lo, hi) /\ q + 2 <= to
        /\ BodyOk(c, lo, hi, l)
    BY <2>2, <2>3, InnerBody DEF to, l
  <2>. HIDE DEF lo, hi
  <2>7. K[1] = L[1] /\ K[n + 1 - 1] = L[n] /\ n + 1 - 1 = n /\ n \in 1 .. n
    BY <1>2, <1>3, <2>2
  <2>8. ASSUME NEW k \in 1 .. n + 1 PROVE BodyOk(c, lo, hi, K[k])
    <3>1. k = n + 1 \/ k \in 1 .. n
      BY <1>2
    <3>. QED BY <1>3, <2>4, <2>6, <3>1
  <2>9. ASSUME NEW k \in 2 .. n + 1
        PROVE  K[k - 1].start <= K[k].start /\ K[k].la < K[k - 1].la
    <3>1. CASE k = n + 1
      <4>1. K[k] = l /\ K[k - 1] = L[n]
        BY <1>3, <2>7, <3>1
      <4>2. L[n].start <= q + 2
        BY <1>1, <2>2, <2>3
      <4>. QED BY <1>4, <2>5, <4>1, <4>2
    <3>2. CASE k # n + 1
      <4>1. k \in 2 .. n /\ k \in 1 .. n /\ k - 1 \in 1 .. n
        BY <1>2, <3>2
      <4>. QED BY <1>3, <2>4, <4>1
    <3>. QED BY <3>1, <3>2
  <2>10. Nested(c, max, d)
    <3>1. K[1].start = lo /\ K[1].la = hi /\ IsDoBodyInlineable(c, lo, hi, b.stop)
      BY <2>2, <2>7 DEF lo, hi
    <3>. QED BY <1>3, <2>4, <2>8, <2>9, <3>1 DEF Nested, K
  <2>11. Within(c, d, q + 2)
    <3>1. K[Len(K)] = l /\ l.start <= q + 2 /\ q + 2 <= l.la
      BY <1>1, <1>3, <1>4, <2>6
    <3>2. q + 2 \in Walk(c, K[1].start, K[1].la)
      BY <2>6, <2>7 DEF lo, hi
    <3>. QED BY <3>1, <3>2 DEF Within, K
  <2>12. Within(c, b, to + 1)
    <3>1. L[n].start <= to + 1 /\ to + 1 <= L[n].la
      BY <1>1, <2>2, <2>3, <2>5, <2>6
    <3>. QED BY <2>6, <3>1 DEF Within, L, n, lo, hi
  <2>13. q + 2 \in Addrs
    BY <1>1, <2>6, LoopAssumption DEF Addrs
  <2>. QED BY <1>3, <1>6, <2>1, <2>5, <2>6, <2>10, <2>11, <2>12, <2>13
       DEF Place, Arrives, Onward, K, to, L, n
<1>. QED BY <1>5, <1>6

\* Behind the innermost loop is the body of the one around it, or the top level.
LEMMA LoopPlace ==
    ASSUME NEW c \in Codes, NEW max \in Nat, NEW b \in Blocks, b.loops # << >>,
           Nested(c, max, b),
           NEW d, d.stop = b.stop, d.end = b.end,
           Len(d.loops) = Len(b.loops) - 1, d.loops \in Seq(LoopRecords),
           \A k \in 1 .. Len(b.loops) - 1 : d.loops[k] = b.loops[k]
    PROVE  LET p == b.loops[Len(b.loops)].la + 1
           IN  /\ Arrives(c, max, d, p)
               /\ d.loops # << >> => Place(c, max, d, p)
               /\ Place(c, max, b, b.loops[Len(b.loops)].start)
<1>. DEFINE L == b.loops
            n == Len(L)
            K == d.loops
            lo == L[1].start
            hi == L[1].la
            p == L[n].la + 1
<1>1. /\ n \in Nat /\ n >= 1 /\ L[n] \in LoopRecords /\ lo \in Nat /\ hi \in Addrs /\ hi \in Nat
      /\ L[n].start \in Nat /\ L[n].la \in Nat
      /\ IsDoBodyInlineable(c, lo, hi, b.stop)
      /\ BodyOk(c, lo, hi, L[n])
  <2>1. /\ n \in Nat /\ n >= 1 /\ L[n] \in LoopRecords /\ lo \in Nat /\ hi \in Addrs
        /\ L[n].start \in Nat /\ L[n].la \in Nat
        /\ IsDoBodyInlineable(c, lo, hi, b.stop)
        /\ BodyOk(c, lo, hi, L[n])
    BY Innermost
  <2>. QED BY <2>1 DEF Addrs
<1>2. /\ GoesOn(c, max, b.stop, b.end, hi + 1)
      /\ \A k \in 1 .. n : BodyOk(c, lo, hi, L[k])
      /\ \A k \in 2 .. n : L[k - 1].start <= L[k].start /\ L[k].la < L[k - 1].la
  BY DEF Nested
<1>3. /\ L[n].start \in Walk(c, lo, hi) /\ L[n].start <= L[n].la /\ L[n].la <= hi
      /\ p \in Boundaries(c, lo, hi)
  BY <1>1 DEF BodyOk
<1>4. Place(c, max, b, L[n].start)
  <2>1. L[n].start <= L[n].start
    BY <1>1
  <2>. QED BY <1>3, <2>1 DEF Place, Within
<1>5. Len(K) = n - 1 /\ \A k \in 1 .. n - 1 : K[k] = L[k]
  OBVIOUS
<1>. HIDE DEF L, K, n
<1>6. CASE n = 1
  <2>1. K = << >>
    BY <1>5, <1>6 DEF K
  <2>2. p = hi + 1
    BY <1>6
  <2>. QED BY <1>2, <1>4, <2>1, <2>2 DEF Arrives, K, L, n
<1>7. CASE n # 1
  <2>1. n - 1 \in 1 .. n - 1 /\ n \in 2 .. n /\ K # << >>
    <3>1. n - 1 \in 1 .. n - 1 /\ n \in 2 .. n
      BY <1>1, <1>7
    <3>. QED BY <1>1, <1>5, <1>7, <3>1 DEF K
  <2>2. K[Len(K)] = L[n - 1] /\ K[1] = L[1]
    BY <1>1, <1>5, <1>7, <2>1
  <2>3. /\ L[n - 1].start <= L[n].start /\ L[n].la < L[n - 1].la
        /\ L[n - 1].start \in Nat /\ L[n - 1].la \in Nat /\ L[n - 1].la <= hi
    <3>1. L[n - 1].start <= L[n].start /\ L[n].la < L[n - 1].la
      BY <1>2, <2>1
    <3>2. n - 1 \in 1 .. n
      BY <1>1, <1>7
    <3>3. L[n - 1] \in LoopRecords
      BY <3>2 DEF Blocks, L, n
    <3>4. L[n - 1].la <= hi
      BY <1>2, <3>2 DEF BodyOk
    <3>. QED BY <3>1, <3>3, <3>4 DEF LoopRecords, Addrs
  <2>4. p \in Walk(c, lo, hi) /\ L[n - 1].start <= p /\ p <= L[n - 1].la
    <3>1. L[n - 1].start <= p /\ p <= L[n - 1].la /\ p <= hi /\ lo <= hi
      <4>1. lo <= hi
        BY <1>1 DEF IsDoBodyInlineable
      <4>2. L[n].start <= L[n].la
        BY <1>3
      <4>. HIDE DEF lo, hi
      <4>3. L[n - 1].start <= p /\ p <= L[n - 1].la
        <5>1. /\ L[n].start \in Nat /\ L[n].la \in Nat
              /\ L[n - 1].start \in Nat /\ L[n - 1].la \in Nat
              /\ L[n - 1].start <= L[n].start /\ L[n].la < L[n - 1].la
          BY <1>1, <2>3
        <5>. DEFINE a == L[n].start
                    z == L[n].la
                    u == L[n - 1].start
                    v == L[n - 1].la
        <5>2. /\ a \in Nat /\ z \in Nat /\ u \in Nat /\ v \in Nat
              /\ u <= a /\ z < v /\ a <= z
          BY <4>2, <5>1, Zenon
        <5>. HIDE DEF a, z, u, v
        <5>3. u <= z + 1 /\ z + 1 <= v
          BY <5>2
        <5>. QED BY <5>3, Zenon DEF p, a, z, u, v
      <4>4. p <= hi
        BY <1>1, <2>3, <4>3
      <4>. QED BY <4>1, <4>3, <4>4
    <3>2. p \in Walk(c, lo, hi)
      <4>. HIDE DEF lo, hi, p
      <4>. QED BY <1>1, <1>3, <3>1, BoundaryInside
    <3>. QED BY <3>1, <3>2
  <2>5. Within(c, d, p)
    BY <2>2, <2>4 DEF Within, K
  <2>6. Nested(c, max, d)
    <3>1. K[1].start = lo /\ K[1].la = hi
      BY <2>2
    <3>2. \A k \in 1 .. n - 1 : BodyOk(c, lo, hi, K[k])
      <4>1. \A k \in 1 .. n - 1 : k \in 1 .. n
        BY <1>1
      <4>. QED BY <1>2, <1>5, <4>1
    <3>3. \A k \in 2 .. n - 1 : K[k - 1].start <= K[k].start /\ K[k].la < K[k - 1].la
      <4>1. ASSUME NEW k \in 2 .. n - 1
            PROVE  k \in 2 .. n /\ k \in 1 .. n - 1 /\ k - 1 \in 1 .. n - 1
        BY <1>1
      <4>2. ASSUME NEW k \in 2 .. n - 1
            PROVE  K[k - 1] = L[k - 1] /\ K[k] = L[k]
        BY <1>5, <4>1
      <4>. QED BY <1>2, <4>1, <4>2
    <3>. HIDE DEF lo, hi
    <3>. QED BY <1>1, <1>2, <1>5, <3>1, <3>2, <3>3 DEF Nested, K
  <2>. QED BY <1>4, <2>1, <2>5, <2>6 DEF Arrives, Place, K, L, n
<1>. QED BY <1>6, <1>7

-------------------------------------------------------------------------------
(* The inductive invariant.                                                *)

\* The machine s is inside the block b.  In an inlined REP the place is that
\* of the REP, and iterations are left.
BlockOk(c, max, s, b) ==
    /\ b \in Blocks /\ ~s.armed /\ ~s.rep
    /\ b.rep => InlinesRep(c, s.pc - 1) /\ s.lc # 0
    /\ Place(c, max, b, IF b.rep THEN s.pc - 1 ELSE s.pc)
    /\ Frames(s, b.loops)

EntryOk(c, max, a, e) ==
    e = NoEntry \/ \E stop \in Nat : e = [stop |-> stop, end |-> EndPc(c, max, a, stop)]

Inv ==
    /\ code \in Codes /\ cap \in Caps /\ Sane(m)
    /\ cache = [a \in Addrs |-> cache[a]]
    /\ \A a \in Addrs : EntryOk(code, cap, a, cache[a])
    /\ blk = NoBlk \/ BlockOk(code, cap, m, blk)

\* Frames depend on the stack and the loop registers only.
LEMMA FramesSame ==
    ASSUME NEW s, NEW t, NEW L, t.stk = s.stk, t.la = s.la, t.lf = s.lf, t.fv = s.fv
    PROVE  /\ Frames(s, L) => Frames(t, L)
           /\ OuterLf(t, L) <=> OuterLf(s, L)
           /\ OuterLa(t, L) = OuterLa(s, L)
BY DEF Frames, OuterLf, OuterLa

\* The machine with another pc.
LEMMA PcFields ==
    ASSUME NEW s, Sane(s), NEW p
    PROVE  LET t == [s EXCEPT !.pc = p]
           IN  /\ t.pc = p /\ t.la = s.la /\ t.lc = s.lc /\ t.temp = s.temp /\ t.lf = s.lf
               /\ t.fv = s.fv /\ t.rep = s.rep /\ t.stk = s.stk /\ t.armed = s.armed
               /\ p \in Addrs => Sane(t)
BY DEF Sane, Machines

\* The machine with another LC.
LEMMA LcFields ==
    ASSUME NEW s, Sane(s), NEW n
    PROVE  LET t == [s EXCEPT !.lc = n]
           IN  /\ t.pc = s.pc /\ t.la = s.la /\ t.lc = n /\ t.temp = s.temp /\ t.lf = s.lf
               /\ t.fv = s.fv /\ t.rep = s.rep /\ t.stk = s.stk /\ t.armed = s.armed
               /\ n \in Lcs => Sane(t)
BY DEF Sane, Machines

\* What every step inside a block must leave behind.
Kept(c, max) == Sane(m') /\ (blk' = NoBlk \/ BlockOk(c, max, m', blk'))

\* Back to the run loop.
LEMMA ReturnKeeps ==
    ASSUME NEW c, NEW max, NEW s, Sane(s), NEW adv, Return(s, adv)
    PROVE  Kept(c, max)
BY LoopBackSane DEF Return, Kept

\* On inside the block.
LEMMA GoOnKeeps ==
    ASSUME NEW c \in Codes, NEW max \in Nat, NEW s, Sane(s), ~s.armed, ~s.rep, NEW b \in Blocks,
           ~b.rep, Frames(s, b.loops), NEW p, Place(c, max, b, p), GoOn(s, b, p)
    PROVE  Kept(c, max)
<1>. DEFINE t == [s EXCEPT !.pc = p]
<1>1. m' = t /\ blk' = b
  BY DEF GoOn
<1>2. /\ t.pc = p /\ t.la = s.la /\ t.lf = s.lf /\ t.fv = s.fv /\ t.rep = s.rep
      /\ t.stk = s.stk /\ t.armed = s.armed /\ Sane(t)
  BY PlaceAddr, PcFields
<1>. HIDE DEF t
<1>3. Frames(t, b.loops)
  BY <1>2, FramesSame
<1>. QED BY <1>1, <1>2, <1>3 DEF Kept, BlockOk

\* The top level reaches p.
LEMMA ReachKeeps ==
    ASSUME NEW c \in Codes, NEW max \in Nat, NEW s, Sane(s), ~s.armed, ~s.rep, NEW b \in Blocks,
           ~b.rep, Frames(s, b.loops), NEW p, Arrives(c, max, b, p),
           b.loops # << >> => Place(c, max, b, p), Reach(s, b, p)
    PROVE  Kept(c, max)
<1>1. CASE b.loops = << >> /\ p = b.end
  <2>1. mask_pc(p) \in Addrs
    <3>1. p \in Nat
      BY <1>1, LoopAssumption DEF Blocks
    <3>. QED BY <3>1, MaskPc
  <2>2. Sane([s EXCEPT !.pc = mask_pc(p)])
    BY <2>1, PcFields
  <2>3. Return([s EXCEPT !.pc = mask_pc(p)], b.il)
    BY <1>1 DEF Reach
  <2>. QED BY <2>2, <2>3, ReturnKeeps
<1>2. CASE ~(b.loops = << >> /\ p = b.end)
  <2>1. GoOn(s, b, p)
    BY <1>2 DEF Reach
  <2>2. Place(c, max, b, p)
    BY <1>2 DEF Place, Arrives
  <2>. QED BY <2>1, <2>2, GoOnKeeps
<1>. QED BY <1>1, <1>2

\* The block that has left its innermost loop.
LEMMA OutOfLoop ==
    ASSUME NEW b \in Blocks, b.loops # << >>
    PROVE  LET K == SubSeq(b.loops, 1, Len(b.loops) - 1)
               d == [b EXCEPT !.loops = SubSeq(@, 1, Len(@) - 1)]
           IN  /\ K \in Seq(LoopRecords) =>
                    /\ d \in Blocks /\ d.loops = K /\ d.stop = b.stop /\ d.end = b.end
                    /\ d.rep = b.rep /\ d.il = b.il
BY DEF Blocks

\* The end of an instruction, of a body, of a loop.
LEMMA EndKeeps ==
    ASSUME NEW c \in Codes, NEW max \in Nat, NEW s, Sane(s), ~s.armed, ~s.rep, NEW b \in Blocks,
           ~b.rep, Frames(s, b.loops), NEW p, Arrives(c, max, b, p), EndInstruction(s, b, p)
    PROVE  Kept(c, max)
<1>. DEFINE L == b.loops
            n == Len(L)
            t == [s EXCEPT !.lc = Decremented(@)]
            K == SubSeq(L, 1, n - 1)
            d == [b EXCEPT !.loops = SubSeq(@, 1, Len(@) - 1)]
            e == enddo_cleanup(t)
<1>1. CASE L = << >> \/ p # L[n].la + 1
  <2>1. Reach(s, b, p)
    BY <1>1 DEF EndInstruction
  <2>2. L # << >> => Place(c, max, b, p)
    BY <1>1 DEF Place, Arrives
  <2>. QED BY <2>1, <2>2, ReachKeeps
<1>2. CASE ~(L = << >> \/ p # L[n].la + 1)
  <2>1. t = [s EXCEPT !.lc = Decremented(s.lc)] /\ s.lc \in Lcs
    BY DEF Sane, Machines
  <2>2. /\ Sane(t) /\ ~t.armed /\ ~t.rep /\ t.stk = s.stk /\ t.la = s.la /\ t.lf = s.lf
        /\ t.fv = s.fv
    BY <2>1, LcFields, DecrementedType
  <2>. HIDE DEF t
  <2>3. L \in Seq(LoopRecords) /\ Frames(t, L)
    BY <2>2, FramesSame DEF Blocks
  <2>4. /\ K \in Seq(LoopRecords) /\ Len(K) = n - 1 /\ \A k \in 1 .. n - 1 : K[k] = L[k]
        /\ Sane(e) /\ ~e.armed /\ e.rep = t.rep /\ Frames(e, K)
    BY <1>2, <2>2, <2>3, FramesPop
  <2>5. /\ d \in Blocks /\ d.loops = K /\ d.stop = b.stop /\ d.end = b.end /\ ~d.rep
    BY <1>2, <2>4, OutOfLoop
  <2>. HIDE DEF d, e
  <2>6. Nested(c, max, b)
    BY <1>2 DEF Arrives
  <2>7. /\ Arrives(c, max, d, p) /\ (d.loops # << >> => Place(c, max, d, p))
        /\ Place(c, max, b, L[n].start)
    <3>. HIDE DEF K
    <3>1. /\ Arrives(c, max, d, L[n].la + 1)
          /\ (d.loops # << >> => Place(c, max, d, L[n].la + 1))
          /\ Place(c, max, b, L[n].start)
      BY <1>2, <2>4, <2>5, <2>6, LoopPlace
    <3>. QED BY <1>2, <3>1
  <2>. HIDE DEF L, n, K
  <2>8. CASE t.lc = 0
    <3>1. Reach(e, d, p)
      BY <1>2, <2>8 DEF EndInstruction, t, e, d, L, n
    <3>2. Frames(e, d.loops)
      BY <2>4, <2>5
    <3>. QED BY <2>2, <2>4, <2>5, <2>7, <3>1, <3>2, ReachKeeps
  <2>9. CASE t.lc # 0
    <3>1. \/ GoOn(t, b, L[n].start)
          \/ Return([t EXCEPT !.pc = L[n].start], b.il)
      BY <1>2, <2>9 DEF EndInstruction, t, L, n
    <3>2. CASE GoOn(t, b, L[n].start)
      <4>1. Frames(t, b.loops)
        BY <2>3 DEF L
      <4>. QED BY <2>2, <2>7, <3>2, <4>1, GoOnKeeps
    <3>3. CASE Return([t EXCEPT !.pc = L[n].start], b.il)
      <4>1. L[n].start \in Addrs
        BY <2>7, PlaceAddr
      <4>2. Sane([t EXCEPT !.pc = L[n].start])
        BY <2>2, <4>1, PcFields
      <4>. QED BY <3>3, <4>2, ReturnKeeps
    <3>. QED BY <3>1, <3>2, <3>3
  <2>. QED BY <2>8, <2>9
<1>. QED BY <1>1, <1>2

\* The state of a running block, between instructions.
LEMMA InBlockFacts ==
    ASSUME Inv, Running
    PROVE  /\ code \in Codes /\ cap \in Nat /\ Sane(m) /\ BlockOk(code, cap, m, blk)
           /\ blk \in Blocks /\ ~m.armed /\ ~m.rep /\ Frames(m, blk.loops)
           /\ m.pc \in Addrs /\ m.pc \in Nat /\ m.pc < Size /\ IsInstruction(Cur)
           /\ ~blk.rep => Place(code, cap, blk, m.pc)
           /\ blk.rep => /\ Place(code, cap, blk, m.pc - 1) /\ InlinesRep(code, m.pc - 1)
                         /\ m.pc - 1 \in Addrs /\ m.lc # 0
<1>1. code \in Codes /\ cap \in Nat /\ Sane(m) /\ BlockOk(code, cap, m, blk)
  BY CapAssumption DEF Inv, Running
<1>2. /\ blk \in Blocks /\ ~m.armed /\ ~m.rep /\ Frames(m, blk.loops)
      /\ ~blk.rep => Place(code, cap, blk, m.pc)
      /\ blk.rep => /\ Place(code, cap, blk, m.pc - 1) /\ InlinesRep(code, m.pc - 1)
                    /\ m.lc # 0
  BY <1>1 DEF BlockOk
<1>3. m.pc \in Addrs
  BY <1>1, Registers
<1>4. m.pc \in Nat /\ m.pc < Size
  BY <1>3, LoopAssumption DEF Addrs
<1>5. IsInstruction(Cur)
  BY <1>1, <1>4, Instruction DEF IsInstruction, Cur, Lcs
<1>6. blk.rep => m.pc - 1 \in Addrs
  BY <1>1, <1>2, PlaceAddr
<1>. QED BY <1>1, <1>2, <1>3, <1>4, <1>5, <1>6

\* The block with another inst_len.
LEMMA IlFields ==
    ASSUME NEW b \in Blocks, NEW k \in 0 .. 2
    PROVE  LET d == [b EXCEPT !.il = k]
           IN  /\ d \in Blocks /\ d.il = k /\ d.stop = b.stop /\ d.end = b.end
               /\ d.rep = b.rep /\ d.loops = b.loops
BY DEF Blocks

\* A move to LA that does not move the end of the loop in progress leaves the
\* frames alone.
LEMMA LaFrames ==
    ASSUME Inv, Running, LaKept, Cur.op = "setla", NEW t, t = [m EXCEPT !.la = Cur.to]
    PROVE  /\ Sane(t) /\ ~t.armed /\ ~t.rep /\ t.pc = m.pc /\ Frames(t, blk.loops)
           /\ OuterLf(t, blk.loops) <=> OuterLf(m, blk.loops)
           /\ OuterLf(m, blk.loops) => OuterLa(t, blk.loops) = OuterLa(m, blk.loops)
<1>1. /\ code \in Codes /\ Sane(m) /\ blk \in Blocks /\ ~m.armed /\ ~m.rep
      /\ Frames(m, blk.loops) /\ m.pc \in Addrs /\ IsInstruction(Cur)
  BY InBlockFacts
<1>2. Cur.to \in Addrs
  BY <1>1 DEF IsInstruction
<1>3. Cur = code[m.pc]
  BY <1>1, MaskPc DEF Cur, At
<1>4. /\ t.la = Cur.to /\ t.lf = m.lf /\ t.fv = m.fv /\ t.rep = m.rep /\ t.pc = m.pc
      /\ t.stk = m.stk /\ t.armed = m.armed /\ Sane(t)
  BY <1>1, <1>2, Registers DEF Sane, Machines
<1>5. CASE m.lf
  <2>1. t.la = m.la
    BY <1>1, <1>3, <1>4, <1>5 DEF LaKept
  <2>. QED BY <1>1, <1>4, <2>1, FramesSame
<1>6. CASE ~m.lf
  <2>1. Len(blk.loops) = 0 /\ blk.loops = << >>
    <3>1. ~(Len(blk.loops) > 0)
      BY <1>1, <1>6 DEF Frames
    <3>2. blk.loops \in Seq(LoopRecords)
      BY <1>1 DEF Blocks
    <3>. QED BY <3>1, <3>2
  <2>2. t.stk.ptr >= 0
    <3>1. m.stk.ptr \in Nat
      BY <1>1, StackOf
    <3>. QED BY <1>4, <3>1
  <2>3. Frames(t, blk.loops)
    BY <2>1, <2>2 DEF Frames
  <2>4. ~OuterLf(t, blk.loops) /\ ~OuterLf(m, blk.loops)
    BY <1>4, <1>6, <2>1 DEF OuterLf
  <2>. QED BY <1>1, <1>4, <2>3, <2>4
<1>. QED BY <1>5, <1>6

\* Every step of a running block keeps the invariant: an instruction that neither branches nor loops,
LEMMA KeepOrdinary ==
    ASSUME Inv, Ordinary, LaKept
    PROVE  Kept(code, cap)
<1>. DEFINE t == Exec(m, Cur, FALSE)[1]
            b == [blk EXCEPT !.il = Cur.len]
            next == m.pc + Cur.len
<1>1. /\ code \in Codes /\ cap \in Nat /\ Sane(m)
      /\ blk \in Blocks /\ ~m.armed /\ ~m.rep /\ Frames(m, blk.loops) /\ ~blk.rep
      /\ m.pc \in Addrs /\ m.pc \in Nat /\ m.pc < Size /\ IsInstruction(Cur)
      /\ Place(code, cap, blk, m.pc)
  BY InBlockFacts DEF Ordinary
<1>2. Cur.op \in {"plain", "exit", "setla"} /\ Cur.len \in {1, 2} /\ Cur.to \in Addrs
  BY <1>1 DEF Ordinary, IsInstruction
<1>3. Cur = At(code, m.pc) /\ Cur = code[m.pc] /\ Behind(code, m.pc) = next
  BY <1>1, <1>2, Instruction DEF Cur
<1>4. \/ t = m /\ Cur.op \in {"plain", "exit"}
      \/ t = [m EXCEPT !.la = Cur.to] /\ Cur.op = "setla"
  BY <1>2 DEF Exec
<1>. HIDE DEF t, next
<1>5. Sane(t) /\ ~t.armed /\ ~t.rep /\ Frames(t, blk.loops)
  <2>1. Running
    BY DEF Ordinary
  <2>. QED BY <1>1, <1>4, <2>1, LaFrames
<1>6. /\ b \in Blocks /\ b.stop = blk.stop /\ b.end = blk.end /\ ~b.rep /\ b.loops = blk.loops
  <2>1. Cur.len \in 0 .. 2
    BY <1>2
  <2>. QED BY <1>1, <2>1, IlFields
<1>. HIDE DEF b
<1>7. Arrives(code, cap, b, next)
  <2>1. Arrives(code, cap, blk, next)
    BY <1>1, <1>2, <1>3, OrdinaryPlace
  <2>. QED BY <1>6, <2>1, PlaceSame
<1>8. CASE EndInstruction(t, b, next)
  <2>1. Frames(t, b.loops)
    BY <1>5, <1>6
  <2>. QED BY <1>1, <1>5, <1>6, <1>7, <1>8, <2>1, EndKeeps
<1>9. CASE Return([t EXCEPT !.pc = mask_pc(next)], Cur.len)
  <2>1. mask_pc(next) \in Addrs
    <3>1. next \in Nat
      BY <1>1, <1>2 DEF next
    <3>. QED BY <3>1, MaskPc
  <2>2. Sane([t EXCEPT !.pc = mask_pc(next)])
    BY <1>5, <2>1, PcFields
  <2>. QED BY <1>9, <2>2, ReturnKeeps
<1>. QED BY <1>8, <1>9 DEF Ordinary, t, b, next

\* the instruction that ends the block,
LEMMA KeepTerminator ==
    ASSUME Inv, Terminator
    PROVE  Kept(code, cap)
<1>1. Sane(m) /\ IsInstruction(Cur)
  BY InBlockFacts DEF Terminator
<1>2. PICK taken \in BOOLEAN : LET e == Exec(m, Cur, taken)
                               IN  Return([e[1] EXCEPT !.pc = mask_pc(@ + e[2])], e[2])
  BY DEF Terminator
<1>. DEFINE e == Exec(m, Cur, taken)
            s == e[1]
<1>3. Sane(s) /\ e[2] \in 0 .. 2
  BY <1>1, ExecSane
<1>4. Return([s EXCEPT !.pc = mask_pc(@ + e[2])], e[2])
  BY <1>2
<1>. HIDE DEF e, s
<1>5. /\ [s EXCEPT !.pc = mask_pc(@ + e[2])] = [s EXCEPT !.pc = mask_pc(s.pc + e[2])]
      /\ s.pc \in Addrs
  BY <1>3 DEF Sane, Machines
<1>6. mask_pc(s.pc + e[2]) \in Addrs
  <2>1. s.pc + e[2] \in Nat
    BY <1>3, <1>5 DEF Addrs
  <2>. QED BY <2>1, MaskPc
<1>7. Sane([s EXCEPT !.pc = mask_pc(s.pc + e[2])])
  BY <1>3, <1>6, PcFields
<1>. QED BY <1>4, <1>5, <1>7, ReturnKeeps

\* an inlined forward skip, taken or not,
LEMMA KeepSkip ==
    ASSUME Inv, Skip
    PROVE  Kept(code, cap)
<1>. DEFINE b == [blk EXCEPT !.il = Cur.len]
            next == m.pc + Cur.len
<1>1. /\ code \in Codes /\ cap \in Nat /\ Sane(m)
      /\ blk \in Blocks /\ ~m.armed /\ ~m.rep /\ Frames(m, blk.loops) /\ ~blk.rep
      /\ m.pc \in Addrs /\ m.pc \in Nat /\ m.pc < Size /\ IsInstruction(Cur)
      /\ Place(code, cap, blk, m.pc)
  BY InBlockFacts DEF Skip
<1>2. /\ Cur.op = "bcc" /\ Cur.len \in {1, 2} /\ Cur.to \in Addrs
      /\ \/ blk.loops # << >>
         \/ IsSkipInlineable(code, m.pc, blk.stop) /\ Cur.to <= blk.end
  BY <1>1 DEF Skip, IsSkip, InLoop, IsInstruction
<1>3. Cur = At(code, m.pc) /\ Behind(code, m.pc) = next
  BY <1>1, <1>2, Instruction DEF Cur
<1>. HIDE DEF next
<1>4. /\ b \in Blocks /\ b.stop = blk.stop /\ b.end = blk.end /\ ~b.rep /\ b.loops = blk.loops
  <2>1. Cur.len \in 0 .. 2
    BY <1>2
  <2>. QED BY <1>1, <2>1, IlFields
<1>. HIDE DEF b
<1>5. /\ Arrives(code, cap, blk, next) /\ Arrives(code, cap, blk, Cur.to)
      /\ blk.loops # << >> => Place(code, cap, blk, Cur.to)
  BY <1>1, <1>2, <1>3, SkipPlace
<1>6. /\ Arrives(code, cap, b, next) /\ Arrives(code, cap, b, Cur.to)
      /\ b.loops # << >> => Place(code, cap, b, Cur.to)
  BY <1>4, <1>5, PlaceSame
<1>7. Frames(m, b.loops)
  BY <1>1, <1>4
<1>8. CASE Reach(m, b, Cur.to)
  BY <1>1, <1>4, <1>6, <1>7, <1>8, ReachKeeps
<1>9. CASE EndInstruction(m, b, next)
  BY <1>1, <1>4, <1>6, <1>7, <1>9, EndKeeps
<1>. QED BY <1>8, <1>9 DEF Skip, b, next

\* the DO of an inlined loop, entered, annulled or bailed out of,
LEMMA KeepInlineDo ==
    ASSUME Inv, InlineDo
    PROVE  Kept(code, cap)
<1>. DEFINE t == do_setup(m, Cur.to, Cur.arg, FALSE)
            b == [blk EXCEPT !.il = 2]
            z == [b EXCEPT !.il = 0]
            d == [b EXCEPT !.loops = Append(@, [start |-> m.pc + 2, la |-> Cur.to])]
<1>1. /\ code \in Codes /\ cap \in Nat /\ Sane(m)
      /\ blk \in Blocks /\ ~m.armed /\ ~m.rep /\ Frames(m, blk.loops) /\ ~blk.rep
      /\ m.pc \in Addrs /\ m.pc \in Nat /\ m.pc < Size /\ IsInstruction(Cur)
      /\ Place(code, cap, blk, m.pc) /\ blk.loops \in Seq(LoopRecords)
  BY InBlockFacts DEF InlineDo, Blocks
<1>2. /\ Cur.op = "do" /\ Cur.to \in Addrs /\ Cur.arg \in Lcs /\ Cur = At(code, m.pc)
      /\ blk.loops # << >> \/ InlinesDo(code, m.pc, blk.stop)
  BY <1>1 DEF InlineDo, IsInlineDo, InLoop, IsInstruction, Cur
<1>3. /\ b \in Blocks /\ b.stop = blk.stop /\ b.end = blk.end /\ ~b.rep /\ b.loops = blk.loops
  <2>1. 2 \in 0 .. 2
    OBVIOUS
  <2>. QED BY <1>1, <2>1, IlFields
<1>. HIDE DEF b
<1>4. /\ z \in Blocks /\ z.stop = b.stop /\ z.end = b.end /\ ~z.rep /\ z.loops = b.loops
  <2>1. 0 \in 0 .. 2
    OBVIOUS
  <2>. QED BY <1>3, <2>1, IlFields
<1>. HIDE DEF z
<1>5. /\ d.stop = blk.stop /\ d.end = blk.end
      /\ d.loops = Append(blk.loops, Loop(m.pc + 2, Cur.to)) /\ ~d.rep
      /\ (Append(blk.loops, Loop(m.pc + 2, Cur.to)) \in Seq(LoopRecords) => d \in Blocks)
  BY <1>3 DEF Blocks, Loop
<1>. HIDE DEF d
<1>6. /\ m.pc + 2 \in Addrs /\ m.pc + 2 <= Cur.to /\ Place(code, cap, d, m.pc + 2)
      /\ Arrives(code, cap, blk, Cur.to + 1)
      /\ blk.loops # << >> => Place(code, cap, blk, Cur.to + 1)
  BY <1>1, <1>2, <1>5, DoPlace
<1>7. DoFacts(m, Cur.to, Cur.arg, t)
  BY <1>1, <1>2, CountedDo
<1>8. CASE t.armed
  <2>1. Return([t EXCEPT !.pc = m.pc + 2], b.il)
    BY <1>8 DEF InlineDo, b
  <2>2. Sane([t EXCEPT !.pc = m.pc + 2])
    <3>. HIDE DEF t
    <3>1. Sane(t)
      BY <1>7 DEF DoFacts
    <3>. QED BY <1>6, <3>1, PcFields
  <2>. QED BY <2>1, <2>2, ReturnKeeps
<1>9. CASE ~t.armed /\ Cur.arg = 0
  <2>. DEFINE e == enddo_cleanup(t)
  <2>1. Reach(e, z, Cur.to + 1)
    <3>1. IF t.armed THEN Return([t EXCEPT !.pc = m.pc + 2], b.il)
          ELSE IF Cur.arg = 0 THEN Reach(e, z, Cur.to + 1)
          ELSE GoOn(t, d, m.pc + 2)
      BY Zenon DEF InlineDo, b, z, d
    <3>. HIDE DEF t, e
    <3>. QED BY <1>9, <3>1, Zenon
  <2>2. AnnulFacts(m, blk.loops, e)
    BY <1>1, <1>2, <1>9, FramesAnnul
  <2>. HIDE DEF e
  <2>3. z.stop = blk.stop /\ z.end = blk.end /\ z.loops = blk.loops
    BY <1>3, <1>4
  <2>4. /\ Arrives(code, cap, z, Cur.to + 1)
        /\ z.loops # << >> => Place(code, cap, z, Cur.to + 1)
    BY <1>6, <2>3, PlaceSame
  <2>5. Sane(e) /\ ~e.armed /\ Frames(e, z.loops) /\ ~e.rep
    BY <1>1, <2>2, <2>3 DEF AnnulFacts
  <2>. QED BY <1>1, <1>4, <2>1, <2>4, <2>5, ReachKeeps
<1>10. CASE ~t.armed /\ Cur.arg # 0
  <2>1. GoOn(t, d, m.pc + 2)
    BY <1>10 DEF InlineDo, b, d
  <2>2. /\ Append(blk.loops, Loop(m.pc + 2, Cur.to)) \in Seq(LoopRecords)
        /\ Frames(t, Append(blk.loops, Loop(m.pc + 2, Cur.to)))
    BY <1>1, <1>2, <1>6, <1>10, FramesPush
  <2>. HIDE DEF t
  <2>3. Sane(t) /\ ~t.rep
    BY <1>1, <1>7 DEF DoFacts
  <2>4. Frames(t, d.loops) /\ d \in Blocks
    BY <1>5, <2>2
  <2>. QED BY <1>1, <1>5, <1>6, <1>10, <2>1, <2>3, <2>4, GoOnKeeps
<1>. QED BY <1>8, <1>9, <1>10

\* The word behind an inlined REP.
LEMMA RepTarget ==
    ASSUME NEW c \in Codes, NEW p \in Addrs, InlinesRep(c, p)
    PROVE  /\ At(c, p).op = "rep" /\ At(c, p).len = 1 /\ p + 1 \in Addrs /\ p + 1 < Size
           /\ At(c, p + 1).op = "plain" /\ At(c, p + 1).len = 1 /\ Behind(c, p) = p + 2
<1>1. p \in Nat /\ p < Size /\ Size \in Nat
  BY LoopAssumption DEF Addrs
<1>2. At(c, p).op = "rep" /\ At(c, p + 1).op # "pop"
  BY DEF InlinesRep, MayArmStackFault
<1>3. /\ Behind(c, p) = p + 2 /\ p + 1 < Size /\ At(c, p).len = 1
      /\ At(c, p + 1).len = 1 /\ At(c, p + 1).op \in {"plain", "pop"}
  BY <1>1, <1>2, Instruction
<1>4. p + 1 \in Addrs
  BY <1>1, <1>3 DEF Addrs
<1>. QED BY <1>2, <1>3, <1>4

\* an inlined REP that enters its target or passes it by,
LEMMA KeepInlineRep ==
    ASSUME Inv, InlineRep
    PROVE  Kept(code, cap)
<1>. DEFINE t == [m EXCEPT !.temp = m.lc, !.lc = Cur.arg]
            u == [t EXCEPT !.lc = t.temp]
            b == [blk EXCEPT !.rep = TRUE]
<1>1. /\ code \in Codes /\ cap \in Nat /\ Sane(m)
      /\ blk \in Blocks /\ ~m.armed /\ ~m.rep /\ Frames(m, blk.loops) /\ ~blk.rep
      /\ m.pc \in Addrs /\ m.pc \in Nat /\ m.pc < Size /\ IsInstruction(Cur)
      /\ Place(code, cap, blk, m.pc)
  BY InBlockFacts DEF InlineRep
<1>2. InlinesRep(code, m.pc) /\ Cur.arg \in Lcs
  BY <1>1 DEF InlineRep, IsInstruction
<1>3. m.pc + 1 \in Addrs /\ Behind(code, m.pc) = m.pc + 2
  BY <1>1, <1>2, RepTarget
<1>4. Arrives(code, cap, blk, Behind(code, m.pc))
  BY <1>1, <1>2, OrdinaryPlace
<1>5. /\ Sane(t) /\ t.pc = m.pc /\ t.lc = Cur.arg /\ t.temp = m.lc
      /\ t.rep = m.rep /\ t.armed = m.armed /\ t.stk = m.stk /\ t.la = m.la
      /\ t.lf = m.lf /\ t.fv = m.fv /\ t.temp \in Lcs
  BY <1>1, <1>2 DEF Sane, Machines
<1>. HIDE DEF t
<1>6. /\ Sane(u) /\ u.rep = t.rep /\ u.armed = t.armed /\ u.stk = t.stk /\ u.la = t.la
      /\ u.lf = t.lf /\ u.fv = t.fv
  BY <1>5, LcFields
<1>. HIDE DEF u
<1>7. CASE Cur.arg = 0
  <2>1. EndInstruction(u, blk, Behind(code, m.pc))
    BY <1>7 DEF InlineRep, t, u
  <2>2. Frames(u, blk.loops) /\ ~u.rep /\ ~u.armed
    BY <1>1, <1>5, <1>6, FramesSame
  <2>. QED BY <1>1, <1>4, <1>6, <2>1, <2>2, EndKeeps
<1>8. CASE Cur.arg # 0
  <2>. DEFINE w == [t EXCEPT !.pc = m.pc + 1]
  <2>1. m' = w /\ blk' = b
    BY <1>8 DEF InlineRep, GoOn, t
  <2>2. /\ b \in Blocks /\ b.rep /\ b.loops = blk.loops /\ b.stop = blk.stop /\ b.end = blk.end
    BY <1>1 DEF Blocks
  <2>3. /\ Sane(w) /\ w.pc = m.pc + 1 /\ w.lc = Cur.arg /\ ~w.rep /\ ~w.armed
        /\ w.stk = m.stk /\ w.la = m.la /\ w.lf = m.lf /\ w.fv = m.fv
    BY <1>1, <1>3, <1>5, PcFields
  <2>. HIDE DEF w, b
  <2>4. w.pc - 1 = m.pc
    BY <1>1, <2>3
  <2>5. Place(code, cap, b, m.pc) /\ Frames(w, b.loops)
    BY <1>1, <2>2, <2>3, PlaceSame, FramesSame
  <2>. QED BY <1>2, <1>8, <2>1, <2>2, <2>3, <2>4, <2>5 DEF Kept, BlockOk
<1>. QED BY <1>7, <1>8

\* one repetition of its target,
LEMMA KeepRepIteration ==
    ASSUME Inv, RepIteration
    PROVE  Kept(code, cap)
<1>. DEFINE t == [Exec(m, Cur, FALSE)[1] EXCEPT !.lc = Decremented(m.lc)]
            b == [blk EXCEPT !.il = Cur.len, !.rep = t.lc # 0]
            u == [t EXCEPT !.lc = t.temp]
            q == m.pc - 1
<1>1. /\ code \in Codes /\ cap \in Nat /\ Sane(m)
      /\ blk \in Blocks /\ ~m.armed /\ ~m.rep /\ Frames(m, blk.loops) /\ blk.rep
      /\ m.pc \in Addrs /\ m.pc \in Nat /\ m.pc < Size /\ IsInstruction(Cur)
      /\ Place(code, cap, blk, q) /\ InlinesRep(code, q) /\ q \in Addrs
  BY InBlockFacts DEF RepIteration
<1>2. /\ Cur.op = "plain" /\ Cur.len = 1 /\ Behind(code, q) = m.pc + 1
  <2>1. q + 1 = m.pc /\ q + 2 = m.pc + 1
    BY <1>1
  <2>. HIDE DEF q
  <2>. QED BY <1>1, <2>1, RepTarget DEF Cur
<1>3. t = [m EXCEPT !.lc = Decremented(m.lc)]
  <2>1. Exec(m, Cur, FALSE) = <<m, Cur.len>>
    BY <1>2 DEF Exec
  <2>2. <<m, Cur.len>>[1] = m
    OBVIOUS
  <2>. QED BY <2>1, <2>2, Zenon
<1>. HIDE DEF t
<1>4. /\ Sane(t) /\ t.pc = m.pc /\ t.rep = m.rep /\ t.armed = m.armed /\ t.stk = m.stk
      /\ t.la = m.la /\ t.lf = m.lf /\ t.fv = m.fv /\ t.temp \in Lcs
  <2>1. Decremented(m.lc) \in Lcs
    BY <1>1, Registers, DecrementedType
  <2>2. /\ Sane(t) /\ t.pc = m.pc /\ t.rep = m.rep /\ t.armed = m.armed /\ t.stk = m.stk
        /\ t.la = m.la /\ t.lf = m.lf /\ t.fv = m.fv
    BY <1>1, <1>3, <2>1, LcFields
  <2>3. t.temp \in Lcs
    BY <2>2, Registers
  <2>. QED BY <2>2, <2>3
<1>5. /\ Sane(u) /\ u.rep = t.rep /\ u.armed = t.armed /\ u.stk = t.stk /\ u.la = t.la
      /\ u.lf = t.lf /\ u.fv = t.fv
  BY <1>4, LcFields
<1>. HIDE DEF u
<1>6. /\ b \in Blocks /\ (b.rep <=> t.lc # 0) /\ b.loops = blk.loops /\ b.stop = blk.stop
      /\ b.end = blk.end
  <2>. DEFINE r == t.lc # 0
  <2>1. r \in BOOLEAN /\ 1 \in 0 .. 2
    OBVIOUS
  <2>2. b = [blk EXCEPT !.il = 1, !.rep = r]
    BY <1>2
  <2>. HIDE DEF r, b
  <2>3. b \in Blocks /\ b.rep = r /\ b.loops = blk.loops /\ b.stop = blk.stop /\ b.end = blk.end
    BY <1>1, <2>1, <2>2 DEF Blocks
  <2>. QED BY <2>1, <2>3 DEF r
<1>7. CASE b.rep
  <2>. DEFINE w == [t EXCEPT !.pc = m.pc]
  <2>1. m' = w /\ blk' = b
    BY <1>7 DEF RepIteration, GoOn, t
  <2>2. /\ Sane(w) /\ w.pc = m.pc /\ w.lc = t.lc /\ ~w.rep /\ ~w.armed
        /\ w.stk = m.stk /\ w.la = m.la /\ w.lf = m.lf /\ w.fv = m.fv
    BY <1>1, <1>4, PcFields
  <2>. HIDE DEF w, b
  <2>3. Place(code, cap, b, q) /\ Frames(w, b.loops)
    BY <1>1, <1>6, <2>2, PlaceSame, FramesSame
  <2>. QED BY <1>1, <1>6, <1>7, <2>1, <2>2, <2>3 DEF Kept, BlockOk
<1>8. CASE ~b.rep
  <2>1. EndInstruction(u, b, m.pc + Cur.len)
    BY <1>8 DEF RepIteration, t, u
  <2>. HIDE DEF b
  <2>2. Arrives(code, cap, b, m.pc + Cur.len)
    <3>1. Arrives(code, cap, blk, Behind(code, q))
      <4>. HIDE DEF q
      <4>. QED BY <1>1, OrdinaryPlace
    <3>. QED BY <1>2, <1>6, <3>1, PlaceSame
  <2>3. Frames(u, b.loops) /\ ~u.rep /\ ~u.armed
    BY <1>1, <1>4, <1>5, <1>6, FramesSame
  <2>. QED BY <1>1, <1>5, <1>6, <1>8, <2>1, <2>2, <2>3, EndKeeps
<1>. QED BY <1>7, <1>8

\* and a REP that ends the block.
LEMMA KeepLegacyRep ==
    ASSUME Inv, LegacyRep
    PROVE  Kept(code, cap)
<1>. DEFINE t == ExecRep(m, Cur)
            u == [t EXCEPT !.rep = FALSE, !.lc = t.temp, !.pc = mask_pc(@ + 2)]
            w == [t EXCEPT !.pc = mask_pc(@ + 1)]
<1>1. Sane(m) /\ IsInstruction(Cur) /\ m.pc \in Nat /\ m.lc \in Lcs
  BY InBlockFacts, Registers DEF LegacyRep
<1>2. Sane(t) /\ t.pc = m.pc /\ t.temp = m.lc
  <2>1. Cur.arg \in Lcs
    BY <1>1 DEF IsInstruction
  <2>. QED BY <1>1, <2>1 DEF ExecRep, Sane, Machines
<1>3. mask_pc(m.pc + 2) \in Addrs /\ mask_pc(m.pc + 1) \in Addrs
  <2>1. m.pc + 2 \in Nat /\ m.pc + 1 \in Nat
    BY <1>1
  <2>. QED BY <2>1, MaskPc
<1>. HIDE DEF t
<1>4. Sane(u) /\ Sane(w)
  BY <1>1, <1>2, <1>3 DEF Sane, Machines
<1>5. Return(u, 0) \/ Return(w, 0)
  BY DEF LegacyRep, t
<1>. QED BY <1>4, <1>5, ReturnKeeps

-------------------------------------------------------------------------------
(* Frames of inlined loops.                                                *)

\* The machine after reset.
LEMMA InitSane == Sane(Machine)
<1>1. 0 \in Addrs /\ 0 \in Lcs /\ 0 \in Slots /\ 0 \in 0 .. 2 * Depth - 1
  BY LoopAssumption, DepthAssumption DEF Addrs, Lcs, Slots
<1>. DEFINE k == EmptyStack(0)
<1>2. k \in Stacks /\ Coherent(k) /\ k.se = FALSE
  BY <1>1 DEF EmptyStack, Stacks, Coherent
<1>. HIDE DEF k
<1>3. Machine = [pc |-> 0, la |-> 0, lc |-> 0, temp |-> 0, lf |-> FALSE, fv |-> FALSE,
                 rep |-> FALSE, stk |-> k, armed |-> FALSE]
  BY DEF Machine, k
<1>. QED BY <1>1, <1>2, <1>3 DEF Sane, Machines

\* Init has no block running and a sane machine.
LEMMA InitInv == Init => Inv
<1>. SUFFICES ASSUME Init PROVE Inv
  OBVIOUS
<1>1. code \in Codes /\ Sane(m) /\ cap \in Caps /\ blk = NoBlk
  BY InitSane DEF Init, StepInit
<1>2. cache = [a \in Addrs |-> NoEntry]
  BY DEF Init
<1>3. cache = [a \in Addrs |-> cache[a]] /\ \A a \in Addrs : EntryOk(code, cap, a, cache[a])
  BY <1>2 DEF EntryOk
<1>. QED BY <1>1, <1>3 DEF Inv

\* A compiled block starts where it was looked up, and ends behind it.
LEMMA EntryGoesOn ==
    ASSUME NEW c \in Codes, NEW max \in Caps, NEW a \in Addrs, NEW stop \in Nat
    PROVE  LET end == EndPc(c, max, a, stop)
           IN  end \in 1 .. Size /\ end # a /\ GoesOn(c, max, stop, end, a)
<1>1. /\ max \in Nat /\ max > 0 /\ 0 \in Counts(max) /\ 0 < max /\ Size \in Nat
      /\ a \in 0 .. Size /\ a \in Nat /\ a < Size
  BY CapAssumption, LoopAssumption DEF Counts, Addrs
<1>. DEFINE end == EndPc(c, max, a, stop)
<1>2. end = EndFrom(c, max, stop)[a][0]
  BY DEF EndPc
<1>. HIDE DEF end
<1>3. end \in a .. Size /\ a < end
  BY <1>1, <1>2, EndBounds
<1>4. GoesOn(c, max, stop, end, a)
  BY <1>1, <1>2 DEF GoesOn
<1>5. end \in 1 .. Size /\ end # a
  BY <1>1, <1>3
<1>. QED BY <1>4, <1>5 DEF end

\* The boundary of the loop in progress.
LEMMA StopType ==
    ASSUME Sane(m)
    PROVE  StopPc \in Nat
<1>1. Size \in Nat /\ m.la \in Addrs
  BY LoopAssumption, Registers
<1>2. m.la + 1 \in Nat
  BY <1>1 DEF Addrs
<1>3. mask_pc(m.la + 1) \in Addrs
  BY <1>2, MaskPc
<1>. QED BY <1>1, <1>3 DEF StopPc, NoStop, Addrs

\* The run loop enters a block at its start, with no loop inlined yet.
LEMMA KeepDispatch ==
    ASSUME Inv, Dispatch
    PROVE  Inv'
<1>. DEFINE fresh == [stop |-> StopPc, end |-> EndPc(code, cap, m.pc, StopPc)]
            e == IF Usable(cache[m.pc], StopPc) THEN cache[m.pc] ELSE fresh
            b == [stop |-> e.stop, end |-> e.end, il |-> 0, rep |-> FALSE, loops |-> << >>]
<1>1. /\ code \in Codes /\ cap \in Caps /\ Sane(m) /\ ~m.armed /\ ~m.rep
      /\ cache = [a \in Addrs |-> cache[a]]
      /\ \A a \in Addrs : EntryOk(code, cap, a, cache[a])
  BY DEF Inv, Dispatch
<1>2. /\ cache' = [cache EXCEPT ![m.pc] = e] /\ blk' = b
      /\ code' = code /\ m' = m /\ cap' = cap
  BY DEF Dispatch
<1>3. m.pc \in Addrs /\ StopPc \in Nat
  BY <1>1, Registers, StopType
<1>4. \E stop \in Nat : e = [stop |-> stop, end |-> EndPc(code, cap, m.pc, stop)]
  <2>1. CASE Usable(cache[m.pc], StopPc)
    <3>1. cache[m.pc] # NoEntry
      BY <2>1 DEF Usable
    <3>2. \E stop \in Nat : cache[m.pc] = [stop |-> stop, end |-> EndPc(code, cap, m.pc, stop)]
      BY <1>1, <1>3, <3>1 DEF EntryOk
    <3>. QED BY <2>1, <3>2
  <2>2. CASE ~Usable(cache[m.pc], StopPc)
    <3>1. e = fresh
      BY <2>2
    <3>. QED BY <1>3, <3>1
  <2>. QED BY <2>1, <2>2
<1>. HIDE DEF e
<1>5. PICK stop \in Nat : e = [stop |-> stop, end |-> EndPc(code, cap, m.pc, stop)]
  BY <1>4
<1>. DEFINE end == EndPc(code, cap, m.pc, stop)
<1>6. end \in 1 .. Size /\ end # m.pc /\ GoesOn(code, cap, stop, end, m.pc)
  BY <1>1, <1>3, EntryGoesOn
<1>. HIDE DEF end
<1>7. b \in Blocks /\ b.stop = stop /\ b.end = end /\ b.loops = << >> /\ ~b.rep
  <2>1. e.stop = stop /\ e.end = end
    BY <1>5 DEF end
  <2>2. << >> \in Seq(LoopRecords) /\ 0 \in 0 .. 2
    OBVIOUS
  <2>. QED BY <1>6, <2>1, <2>2 DEF Blocks
<1>. HIDE DEF b
<1>8. Place(code, cap, b, m.pc)
  BY <1>6, <1>7 DEF Place
<1>9. Frames(m, b.loops)
  <2>1. Len(b.loops) = 0 /\ m.stk.ptr \in Nat
    BY <1>1, <1>7, StackOf
  <2>. QED BY <2>1 DEF Frames
<1>10. BlockOk(code, cap, m, b)
  BY <1>1, <1>7, <1>8, <1>9 DEF BlockOk
<1>11. /\ cache' = [a \in Addrs |-> cache'[a]]
       /\ \A a \in Addrs : EntryOk(code, cap, a, cache'[a])
  <2>1. EntryOk(code, cap, m.pc, e)
    BY <1>5 DEF EntryOk
  <2>2. \A a \in Addrs : cache'[a] = IF a = m.pc THEN e ELSE cache[a]
    BY <1>1, <1>2
  <2>3. cache' = [a \in Addrs |-> cache'[a]]
    BY <1>1, <1>2
  <2>. QED BY <1>1, <2>1, <2>2, <2>3
<1>. QED BY <1>1, <1>2, <1>10, <1>11 DEF Inv

\* Every step keeps the invariant, if LA is kept.
LEMMA NextInv == Inv /\ LaKept /\ [Next]_vars => Inv'
<1>. SUFFICES ASSUME Inv, LaKept, [Next]_vars PROVE Inv'
  OBVIOUS
<1>1. CASE Dispatch
  BY <1>1, KeepDispatch
<1>2. CASE StepInRun
  <2>1. PICK taken \in BOOLEAN : m' = ExecuteOne(m, taken) /\ UNCHANGED code
    BY <1>2 DEF StepInRun, Step
  <2>2. Sane(m) /\ code \in Codes
    BY DEF Inv
  <2>3. Sane(m')
    BY <2>1, <2>2, StepSane
  <2>4. code' = code /\ cap' = cap /\ cache' = cache /\ blk' = NoBlk
    BY <1>2, <2>1 DEF StepInRun
  <2>. QED BY <2>3, <2>4 DEF Inv
<1>3. ASSUME Kept(code, cap), UNCHANGED <<code, cap, cache>> PROVE Inv'
  BY <1>3 DEF Kept, Inv
<1>4. CASE InBlock
  <2>1. UNCHANGED <<code, cap, cache>>
    BY <1>4 DEF InBlock, RepIteration, InlineRep, LegacyRep, InlineDo, Skip, Terminator,
                Ordinary, Running
  <2>2. Kept(code, cap)
    BY <1>4, KeepRepIteration, KeepInlineRep, KeepLegacyRep, KeepInlineDo, KeepSkip,
       KeepTerminator, KeepOrdinary DEF InBlock
  <2>. QED BY <1>3, <2>1, <2>2
<1>5. CASE UNCHANGED vars
  BY <1>5 DEF vars, Inv
<1>. QED BY <1>1, <1>2, <1>4, <1>5 DEF Next

\* The invariant says what InlinedLoopsOnStack does.
LEMMA InvOnStack == Inv => InlinedLoopsOnStack
<1>. SUFFICES ASSUME Inv PROVE InlinedLoopsOnStack
  OBVIOUS
<1>1. Addrs \subseteq Words /\ Lcs \subseteq Words
  BY WidthAssumption DEF Lcs
<1>2. m \in [pc : Addrs, la : Addrs, lc : 0 .. LcMod - 1, temp : 0 .. LcMod - 1,
             lf : BOOLEAN, fv : BOOLEAN, rep : BOOLEAN, stk : StackRecords, armed : BOOLEAN]
  <2>1. m \in Machines /\ m.stk \in Stacks
    BY DEF Inv, Sane, Machines
  <2>2. m.stk \in StackRecords
    BY <1>1, <2>1 DEF Stacks, StackRecords
  <2>. QED BY <2>1, <2>2 DEF Machines, Lcs
<1>3. ASSUME NEW a \in Addrs PROVE cache[a] = NoEntry \/ cache[a].end \in 1 .. Size
  <2>1. code \in Codes /\ cap \in Caps /\ EntryOk(code, cap, a, cache[a])
    BY DEF Inv
  <2>2. CASE cache[a] # NoEntry
    <3>1. PICK stop \in Nat : cache[a] = [stop |-> stop, end |-> EndPc(code, cap, a, stop)]
      BY <2>1, <2>2 DEF EntryOk
    <3>2. EndPc(code, cap, a, stop) \in 1 .. Size
      BY <2>1, EntryGoesOn
    <3>. QED BY <3>1, <3>2
  <2>. QED BY <2>2
<1>4. blk # NoBlk => blk \in Blocks /\ Frames(m, blk.loops)
  BY DEF Inv, BlockOk
<1>5. TypeOK
  BY <1>2, <1>3, <1>4 DEF TypeOK, Blocks
<1>. QED BY <1>4, <1>5 DEF InlinedLoopsOnStack, Frames

\* emit_do_inline and emit_loop_preemption_check: as long as the guest does not
\* move LA while a loop is running, the loops a block is inside of are exactly
\* the frames on top of the hardware stack, whatever the program, the caps and
\* the sizes.
THEOREM LoopsOnStack == Spec /\ []LaKept => []InlinedLoopsOnStack
<1>. QED BY InitInv, NextInv, InvOnStack, PTL DEF Spec

-------------------------------------------------------------------------------
(* The refinement.  The loop around the inlined ones must not end inside   *)
(* the block without the block noticing: its end is behind the place, or   *)
(* not before the end of the block, or the boundary of the block.          *)

Clear(s, b, p) ==
    LET L == b.loops
        e == OuterLa(s, L) + 1
        r == IF L = << >> THEN p ELSE L[1].la + 1
    IN  /\ OuterLf(s, L) => /\ e <= r \/ e >= b.end \/ b.stop = e
                            /\ L # << >> => e # r
        /\ \A k \in 1 .. Len(L) : L[k].start > 0

RefInv == Inv /\ (blk # NoBlk => Clear(m, blk, IF blk.rep THEN m.pc - 1 ELSE m.pc))

\* The step leaves the machine t, between instructions.
Follow(t) == m' = t /\ (blk' = NoBlk \/ (~blk'.rep /\ Clear(m', blk', m'.pc)))

\* Addresses behind an instruction are told apart after the mask.
LEMMA MaskEq ==
    ASSUME NEW p \in 1 .. Size, NEW a \in Addrs
    PROVE  mask_pc(p) = mask_pc(a + 1) <=> p = a + 1
<1>1. Size \in Nat /\ a + 1 \in 1 .. Size
  BY LoopAssumption DEF Addrs
<1>2. \A x \in 1 .. Size : (x \in Addrs /\ mask_pc(x) = x /\ x # 0) \/ (x = Size /\ mask_pc(x) = 0)
  <2>1. ASSUME NEW x \in 1 .. Size, x # Size PROVE x \in Addrs /\ x # 0
    BY <1>1, <2>1 DEF Addrs
  <2>. QED BY <2>1, MaskPc
<1>. QED BY <1>1, <1>2

\* Machines are equal when their fields are.
LEMMA MachineExtensionality ==
    ASSUME NEW s \in Machines, NEW t \in Machines,
           s.pc = t.pc, s.la = t.la, s.lc = t.lc, s.temp = t.temp, s.lf = t.lf, s.fv = t.fv,
           s.rep = t.rep, s.stk = t.stk, s.armed = t.armed
    PROVE  s = t
BY DEF Machines

\* The end of a loop does not depend on pc.
LEMMA CleanupPc ==
    ASSUME NEW s, Sane(s), NEW x \in Addrs
    PROVE  LoopExit([s EXCEPT !.pc = x]) = [enddo_cleanup(s) EXCEPT !.pc = x]
<1>. DEFINE t == [s EXCEPT !.pc = x]
            one == inline_pop(s.stk)
            two == inline_pop(one)
            top == inline_popped(one)
            w == inline_popped(s.stk)[2]
<1>1. /\ Sane(t) /\ t.stk = s.stk /\ t.armed = s.armed /\ t.pc = x /\ t.temp = s.temp
      /\ t.rep = s.rep
  BY PcFields
<1>2. LoopExit(t) = enddo_cleanup(t)
  BY <1>1, Cleanup DEF CleanupFacts
<1>3. enddo_cleanup(s) = [[s EXCEPT !.lf = w >= 2, !.fv = w % 2 = 1] EXCEPT
              !.stk = two, !.la = top[1], !.lc = top[2],
              !.armed = @ \/ PopFaults(s.stk) \/ PopFaults(one)]
  BY DEF enddo_cleanup, WithSr
<1>4. enddo_cleanup(t) = [[t EXCEPT !.lf = w >= 2, !.fv = w % 2 = 1] EXCEPT
              !.stk = two, !.la = top[1], !.lc = top[2],
              !.armed = @ \/ PopFaults(s.stk) \/ PopFaults(one)]
  BY <1>1, Zenon DEF enddo_cleanup, WithSr
<1>5. s \in Machines /\ t \in Machines
  BY <1>1 DEF Sane
<1>6. enddo_cleanup(s) \in Machines /\ enddo_cleanup(t) \in Machines
  BY <1>1, Cleanup DEF CleanupFacts, Sane
<1>. HIDE DEF one, two, top, w
<1>. DEFINE f == enddo_cleanup(s)
            g == enddo_cleanup(t)
            h == [f EXCEPT !.pc = x]
            u == [s EXCEPT !.lf = w >= 2, !.fv = w % 2 = 1]
            v == [t EXCEPT !.lf = w >= 2, !.fv = w % 2 = 1]
<1>7. /\ u \in Machines /\ v \in Machines /\ (u.lf <=> v.lf) /\ (u.fv <=> v.fv)
      /\ u.armed = s.armed /\ v.armed = s.armed
      /\ u.temp = s.temp /\ v.temp = s.temp /\ u.rep = s.rep /\ v.rep = s.rep /\ v.pc = x
  <2>1. (w >= 2) \in BOOLEAN /\ (w % 2 = 1) \in BOOLEAN
    OBVIOUS
  <2>. HIDE DEF t
  <2>2. /\ u \in Machines /\ u.armed = s.armed /\ u.temp = s.temp /\ u.rep = s.rep
        /\ (u.lf <=> w >= 2) /\ (u.fv <=> w % 2 = 1)
    BY <1>5, <2>1 DEF Machines
  <2>3. /\ v \in Machines /\ v.armed = t.armed /\ v.temp = t.temp /\ v.rep = t.rep
        /\ (v.lf <=> w >= 2) /\ (v.fv <=> w % 2 = 1) /\ v.pc = t.pc
    BY <1>5, <2>1 DEF Machines
  <2>. HIDE DEF u, v
  <2>. QED BY <1>1, <2>2, <2>3
<1>8. f = [u EXCEPT !.stk = two, !.la = top[1], !.lc = top[2],
                    !.armed = @ \/ PopFaults(s.stk) \/ PopFaults(one)]
  BY <1>3
<1>9. g = [v EXCEPT !.stk = two, !.la = top[1], !.lc = top[2],
                    !.armed = @ \/ PopFaults(s.stk) \/ PopFaults(one)]
  BY <1>4
<1>. HIDE DEF u, v, f, g, t
<1>10. /\ f.stk = two /\ f.la = top[1] /\ f.lc = top[2] /\ f.temp = u.temp /\ f.rep = u.rep
       /\ (f.lf <=> u.lf) /\ (f.fv <=> u.fv)
       /\ (f.armed <=> u.armed \/ PopFaults(s.stk) \/ PopFaults(one))
  BY <1>7, <1>8 DEF Machines
<1>11. /\ g.stk = two /\ g.la = top[1] /\ g.lc = top[2] /\ g.temp = v.temp /\ g.rep = v.rep
       /\ (g.lf <=> v.lf) /\ (g.fv <=> v.fv) /\ g.pc = v.pc
       /\ (g.armed <=> v.armed \/ PopFaults(s.stk) \/ PopFaults(one))
  BY <1>7, <1>9 DEF Machines
<1>12. f \in Machines /\ g \in Machines
  BY <1>6 DEF f, g
<1>13. /\ h \in Machines /\ h.pc = x /\ h.la = f.la /\ h.lc = f.lc /\ h.temp = f.temp
       /\ h.lf = f.lf /\ h.fv = f.fv /\ h.rep = f.rep /\ h.stk = f.stk /\ h.armed = f.armed
  BY <1>12 DEF Machines
<1>. HIDE DEF h
<1>14. h.lf \in BOOLEAN /\ h.fv \in BOOLEAN /\ h.armed \in BOOLEAN /\ g.lf \in BOOLEAN
       /\ g.fv \in BOOLEAN /\ g.armed \in BOOLEAN
  BY <1>12, <1>13 DEF Machines
<1>15. h.lf = g.lf /\ h.fv = g.fv /\ h.armed = g.armed
  BY <1>7, <1>10, <1>11, <1>13, <1>14
<1>16. h = g
  BY <1>7, <1>10, <1>11, <1>12, <1>13, <1>15, MachineExtensionality
<1>. QED BY <1>2, <1>16 DEF f, g, h, t

\* No loop ends here.
LEMMA NoLoopEnd ==
    ASSUME NEW s, NEW adv, ~(s.lf /\ adv # 0 /\ s.pc = mask_pc(s.la + 1))
    PROVE  LoopBack(s, adv) = s
BY DEF LoopBack

\* Only whether pc has advanced matters.
LEMMA SomeAdvance ==
    ASSUME NEW s, NEW a, NEW b, a # 0, b # 0
    PROVE  LoopBack(s, a) = LoopBack(s, b)
BY DEF LoopBack

\* Clear depends on the loop registers, the stack and the block's bounds.
LEMMA ClearSame ==
    ASSUME NEW s, NEW t, NEW b, NEW d, NEW p, Clear(s, b, p),
           OuterLf(t, d.loops) <=> OuterLf(s, b.loops), OuterLa(t, d.loops) = OuterLa(s, b.loops),
           d.stop = b.stop, d.end = b.end, d.loops = b.loops
    PROVE  Clear(t, d, p)
BY Zenon DEF Clear

\* On in the block.
LEMMA GoOnFollows ==
    ASSUME NEW s, Sane(s), NEW b, ~b.rep, NEW p \in Addrs, Clear(s, b, p), GoOn(s, b, p)
    PROVE  Follow([s EXCEPT !.pc = mask_pc(p)])
<1>1. mask_pc(p) = p
  BY MaskPc
<1>. DEFINE t == [s EXCEPT !.pc = p]
<1>2. m' = t /\ blk' = b
  BY DEF GoOn
<1>3. t.pc = p /\ t.la = s.la /\ t.lf = s.lf /\ t.fv = s.fv /\ t.stk = s.stk
  BY PcFields
<1>. HIDE DEF t
<1>4. Clear(t, b, p)
  BY <1>3, FramesSame, ClearSame
<1>. QED BY <1>1, <1>2, <1>3, <1>4 DEF Follow, t

\* The top level reaches p, where the loop in progress does not end.
LEMMA ReachFollows ==
    ASSUME NEW c \in Codes, NEW max \in Nat, NEW s, Sane(s), NEW b \in Blocks, ~b.rep,
           NEW p, Arrives(c, max, b, p), b.loops # << >> => Place(c, max, b, p),
           Clear(s, b, p), Reach(s, b, p),
           s.lf /\ b.il # 0 => mask_pc(p) # mask_pc(s.la + 1)
    PROVE  Follow([s EXCEPT !.pc = mask_pc(p)])
<1>1. CASE b.loops = << >> /\ p = b.end
  <2>. DEFINE t == [s EXCEPT !.pc = mask_pc(p)]
  <2>1. m' = LoopBack(t, b.il) /\ blk' = NoBlk
    BY <1>1 DEF Reach, Return
  <2>2. t.pc = mask_pc(p) /\ t.la = s.la /\ t.lf = s.lf
    BY PcFields
  <2>. HIDE DEF t
  <2>3. LoopBack(t, b.il) = t
    BY <2>2, NoLoopEnd
  <2>. QED BY <2>1, <2>3 DEF Follow, t
<1>2. CASE ~(b.loops = << >> /\ p = b.end)
  <2>1. GoOn(s, b, p)
    BY <1>2 DEF Reach
  <2>2. Place(c, max, b, p)
    BY <1>2 DEF Place, Arrives
  <2>3. p \in Addrs
    BY <2>2, PlaceAddr
  <2>. QED BY <2>1, <2>3, GoOnFollows
<1>. QED BY <1>1, <1>2

\* The innermost loop is the one in the registers.
LEMMA InnermostFrame ==
    ASSUME NEW s, Sane(s), NEW L \in Seq(LoopRecords), L # << >>, Frames(s, L)
    PROVE  s.lf /\ ~s.fv /\ s.la = L[Len(L)].la /\ s.stk.ssh = L[Len(L)].start
<1>1. Len(L) \in Nat /\ Len(L) > 0 /\ Len(L) \in 1 .. Len(L)
  OBVIOUS
<1>2. s.stk.ptr \in Nat /\ s.stk.ssh = s.stk.hi[s.stk.ptr]
  BY StackOf DEF Sane, Coherent
<1>3. s.lf /\ ~s.fv /\ s.la = L[Len(L)].la
  BY <1>1 DEF Frames
<1>4. s.stk.ptr - 2 * (Len(L) - Len(L)) = s.stk.ptr
  BY <1>1, <1>2
<1>5. s.stk.hi[s.stk.ptr - 2 * (Len(L) - Len(L))] = L[Len(L)].start
  BY <1>1 DEF Frames
<1>. QED BY <1>2, <1>3, <1>4, <1>5

\* An instruction ends where no loop does.
LEMMA QuietEnd ==
    ASSUME NEW c \in Codes, NEW max \in Nat, NEW s, Sane(s), NEW b \in Blocks, ~b.rep,
           Frames(s, b.loops), NEW p \in 1 .. Size, Arrives(c, max, b, p),
           Clear(s, b, p), EndInstruction(s, b, p), s.lf => s.la + 1 # p
    PROVE  Follow([s EXCEPT !.pc = mask_pc(p)])
<1>. DEFINE L == b.loops
            n == Len(L)
<1>1. L \in Seq(LoopRecords) /\ s.la \in Addrs
  BY Registers DEF Blocks
<1>2. L # << >> => p # L[n].la + 1
  BY <1>1, InnermostFrame
<1>3. Reach(s, b, p)
  BY <1>2 DEF EndInstruction
<1>4. L # << >> => Place(c, max, b, p)
  BY <1>2 DEF Place, Arrives
<1>5. s.lf => mask_pc(p) # mask_pc(s.la + 1)
  BY <1>1, MaskEq
<1>. QED BY <1>3, <1>4, <1>5, ReachFollows

\* On the way through the block the end of the loop around is not jumped
\* over: the block reaches it only where the block ends.
LEMMA OnwardClear ==
    ASSUME NEW c \in Codes, NEW max \in Nat, NEW s, Sane(s), NEW b \in Blocks,
           NEW q \in Addrs, NEW p, Clear(s, b, q), Arrives(c, max, b, p), Onward(b, q, p)
    PROVE  /\ Clear(s, b, p)
           /\ b.loops = << >> /\ s.lf /\ s.la + 1 = p => p = b.end
<1>1. CASE b.loops # << >>
  BY <1>1, Zenon DEF Clear
<1>2. CASE b.loops = << >>
  <2>1. q < p /\ p \in Nat /\ (p = b.end \/ p < b.stop)
    BY <1>2 DEF Onward
  <2>2. p = b.end \/ Place(c, max, b, p)
    BY <1>2 DEF Arrives, Place
  <2>3. p <= b.end
    BY <1>2, <2>1, <2>2, PlaceAddr DEF Blocks
  <2>4. s.lf => s.la + 1 <= q \/ s.la + 1 >= b.end \/ b.stop = s.la + 1
    BY <1>2 DEF Clear, OuterLf, OuterLa
  <2>5. Size \in Nat /\ s.la \in Nat /\ q \in Nat /\ b.end \in Nat /\ b.stop \in Nat
    <3>1. s.la \in Addrs
      BY Registers
    <3>. QED BY <3>1, LoopAssumption DEF Addrs, Blocks
  <2>6. s.lf => s.la + 1 <= p \/ s.la + 1 >= b.end \/ b.stop = s.la + 1
    BY <2>1, <2>4, <2>5
  <2>7. Len(b.loops) = 0
    BY <1>2
  <2>8. \A k \in 1 .. Len(b.loops) : b.loops[k].start > 0
    BY <2>7
  <2>9. Clear(s, b, p)
    BY <1>2, <2>6, <2>8 DEF Clear, OuterLf, OuterLa
  <2>10. s.lf /\ s.la + 1 = p => p = b.end
    BY <2>1, <2>3, <2>4, <2>5
  <2>. QED BY <2>9, <2>10
<1>. QED BY <1>1, <1>2

\* An inlined loop goes around again, inside the block or through the run
\* loop, where the architecture goes back to the start of the body.
LEMMA BackFollows ==
    ASSUME NEW s, Sane(s), NEW b \in Blocks, ~b.rep, b.loops # << >>,
           NEW l \in LoopRecords, l = b.loops[Len(b.loops)], l.start > 0, l.start <= l.la,
           s.la = l.la, NEW p, Clear(s, b, p),
           GoOn(s, b, l.start) \/ Return([s EXCEPT !.pc = l.start], b.il)
    PROVE  Follow([s EXCEPT !.pc = l.start])
<1>1. l.start \in Addrs /\ l.la \in Addrs /\ Size \in Nat /\ l.start \in 1 .. Size
  BY LoopAssumption DEF LoopRecords, Addrs
<1>2. mask_pc(l.start) = l.start
  BY <1>1, MaskPc
<1>3. CASE GoOn(s, b, l.start)
  <2>1. Clear(s, b, l.start)
    BY Zenon DEF Clear
  <2>2. Follow([s EXCEPT !.pc = mask_pc(l.start)])
    BY <1>1, <1>3, <2>1, GoOnFollows
  <2>. QED BY <1>2, <2>2
<1>4. CASE Return([s EXCEPT !.pc = l.start], b.il)
  <2>. DEFINE t == [s EXCEPT !.pc = l.start]
  <2>1. t.pc = l.start /\ t.la = s.la /\ t.lf = s.lf
    BY PcFields
  <2>2. l.start # l.la + 1
    BY <1>1 DEF Addrs
  <2>3. mask_pc(l.start) # mask_pc(l.la + 1)
    BY <1>1, <2>2, MaskEq
  <2>4. m' = LoopBack(t, b.il) /\ blk' = NoBlk
    BY <1>4 DEF Return
  <2>. HIDE DEF t
  <2>5. LoopBack(t, b.il) = t
    BY <1>2, <2>1, <2>3, NoLoopEnd
  <2>. QED BY <2>4, <2>5 DEF Follow, t
<1>. QED BY <1>3, <1>4

\* What the architecture does at the end of the innermost loop: out of it or
\* around again, t being the machine with LC counted down.
LoopEnds(s, t, p, x) ==
    /\ t.lc = 0 => x = [enddo_cleanup(t) EXCEPT !.pc = mask_pc(p)]
    /\ t.lc # 0 => x = [t EXCEPT !.pc = s.stk.ssh]

\* The run loop's test behind LA decrements LC and goes back, or cleans the loop up.
LEMMA LoopEndAt ==
    ASSUME NEW s, Sane(s), s.lf, ~s.fv, NEW adv, adv # 0, NEW p, mask_pc(p) \in Addrs,
           p = s.la + 1, NEW t, t = [s EXCEPT !.lc = Decremented(s.lc)]
    PROVE  LoopEnds(s, t, p, LoopBack([s EXCEPT !.pc = mask_pc(p)], adv))
<1>. DEFINE x == [s EXCEPT !.pc = mask_pc(p)]
            y == [x EXCEPT !.lc = Decremented(@)]
<1>1. /\ x.pc = mask_pc(p) /\ x.la = s.la /\ x.lf = s.lf /\ x.fv = s.fv /\ x.lc = s.lc
      /\ x.stk = s.stk /\ Sane(x)
  BY PcFields
<1>2. s \in Machines /\ s.lc \in Lcs
  BY Registers DEF Sane
<1>3. Sane(t)
  BY <1>2, LcFields, DecrementedType
<1>4. y = [t EXCEPT !.pc = mask_pc(p)] /\ y.lc = t.lc
  BY <1>2 DEF Machines
<1>5. [y EXCEPT !.pc = s.stk.ssh] = [t EXCEPT !.pc = s.stk.ssh]
  BY <1>2 DEF Machines
<1>. HIDE DEF x
<1>6. LoopBack(x, adv) = IF y.lc = 0 THEN LoopExit(y) ELSE [y EXCEPT !.pc = s.stk.ssh]
  BY <1>1 DEF LoopBack
<1>. HIDE DEF y
<1>7. LoopExit(y) = [enddo_cleanup(t) EXCEPT !.pc = mask_pc(p)]
  BY <1>3, <1>4, CleanupPc
<1>8. LoopEnds(s, t, p, LoopBack(x, adv))
  BY <1>4, <1>5, <1>6, <1>7, Zenon DEF LoopEnds
<1>. QED BY <1>8 DEF x

\* The end of the innermost inlined loop: LF and LA of the one around are not
\* at their end there.
LEMMA ExitFollows ==
    ASSUME NEW c \in Codes, NEW max \in Nat, NEW s, Sane(s), ~s.armed, NEW b \in Blocks, ~b.rep,
           b.loops # << >>, Frames(s, b.loops), Nested(c, max, b),
           NEW p \in 1 .. Size, p = b.loops[Len(b.loops)].la + 1, Clear(s, b, p),
           Reach(enddo_cleanup(s), [b EXCEPT !.loops = SubSeq(@, 1, Len(@) - 1)], p)
    PROVE  Follow([enddo_cleanup(s) EXCEPT !.pc = mask_pc(p)])
<1>. DEFINE L == b.loops
            n == Len(L)
            K == SubSeq(L, 1, n - 1)
            d == [b EXCEPT !.loops = SubSeq(@, 1, Len(@) - 1)]
            e == enddo_cleanup(s)
<1>1. L \in Seq(LoopRecords) /\ n \in Nat /\ n >= 1
  BY DEF Blocks
<1>2. /\ K \in Seq(LoopRecords) /\ Len(K) = n - 1 /\ \A k \in 1 .. n - 1 : K[k] = L[k]
      /\ Sane(e) /\ ~e.armed /\ e.rep = s.rep /\ Frames(e, K)
      /\ (OuterLf(e, K) <=> OuterLf(s, L)) /\ OuterLa(e, K) = OuterLa(s, L)
  BY <1>1, FramesPop
<1>3. /\ d \in Blocks /\ d.loops = K /\ d.stop = b.stop /\ d.end = b.end /\ ~d.rep
  BY <1>2, OutOfLoop
<1>. HIDE DEF d, e
<1>4. /\ Arrives(c, max, d, p) /\ (d.loops # << >> => Place(c, max, d, p))
  <2>. HIDE DEF K
  <2>1. /\ Arrives(c, max, d, L[n].la + 1)
        /\ (d.loops # << >> => Place(c, max, d, L[n].la + 1))
    BY <1>2, <1>3, LoopPlace
  <2>. QED BY <2>1
<1>. HIDE DEF K
<1>5. OuterLf(s, L) => OuterLa(s, L) + 1 # L[1].la + 1
  BY DEF Clear
<1>6. e.la \in Addrs
  BY <1>2, Registers
<1>7. e.lf => e.la + 1 # p
  <2>1. CASE K = << >>
    <3>1. n = 1
      BY <1>1, <1>2, <2>1
    <3>2. OuterLf(e, K) = e.lf /\ OuterLa(e, K) = e.la
      BY <2>1 DEF OuterLf, OuterLa
    <3>. QED BY <1>2, <1>5, <3>1, <3>2
  <2>2. CASE K # << >>
    <3>1. n - 1 \in 1 .. n - 1 /\ n \in 2 .. n
      BY <1>1, <1>2, <2>2
    <3>2. L[n].la < L[n - 1].la
      BY <3>1 DEF Nested
    <3>3. e.la = K[n - 1].la
      BY <1>2, <2>2, InnermostFrame
    <3>4. L[n - 1] \in LoopRecords /\ L[n] \in LoopRecords
      BY <1>1, <3>1
    <3>5. L[n - 1].la \in Nat /\ L[n].la \in Nat
      <4>1. L[n - 1].la \in Addrs /\ L[n].la \in Addrs
        <5>. HIDE DEF L, n
        <5>. QED BY <3>4 DEF LoopRecords
      <4>. HIDE DEF L, n
      <4>. QED BY <4>1, LoopAssumption DEF Addrs
    <3>6. K[n - 1] = L[n - 1] /\ p = L[n].la + 1
      BY <1>1, <1>2, <3>1
    <3>. DEFINE x == L[n - 1].la
                y == L[n].la
    <3>7. e.la = x /\ p = y + 1 /\ y < x /\ x \in Nat /\ y \in Nat
      BY <3>2, <3>3, <3>5, <3>6
    <3>. HIDE DEF x, y
    <3>. QED BY <3>7
  <2>. QED BY <2>1, <2>2
<1>8. e.lf => mask_pc(p) # mask_pc(e.la + 1)
  BY <1>6, <1>7, MaskEq
<1>9. Clear(e, d, p)
  <2>1. \A k \in 1 .. Len(K) : K[k].start > 0
    BY <1>1, <1>2 DEF Clear
  <2>2. K # << >> => K[1] = L[1]
    BY <1>1, <1>2
  <2>3. K = << >> => n = 1
    BY <1>1, <1>2
  <2>4. OuterLf(s, L) => \/ OuterLa(s, L) + 1 <= L[1].la + 1 \/ OuterLa(s, L) + 1 >= b.end
                         \/ b.stop = OuterLa(s, L) + 1
    BY DEF Clear
  <2>. HIDE DEF L, n
  <2>5. (IF K = << >> THEN p ELSE K[1].la + 1) = L[1].la + 1
    BY <2>2, <2>3 DEF n, L
  <2>. QED BY <1>2, <1>3, <1>5, <2>1, <2>4, <2>5 DEF Clear
<1>10. Reach(e, d, p)
  BY DEF e, d
<1>11. Follow([e EXCEPT !.pc = mask_pc(p)])
  BY <1>2, <1>3, <1>4, <1>8, <1>9, <1>10, ReachFollows
<1>. QED BY <1>11 DEF e

\* An instruction that has advanced pc ends in the block as advance_pc says.
LEMMA EndFollows ==
    ASSUME NEW c \in Codes, NEW max \in Nat, NEW s, Sane(s), ~s.armed, NEW b \in Blocks, ~b.rep,
           b.il # 0, Frames(s, b.loops), NEW p \in 1 .. Size, Arrives(c, max, b, p),
           Clear(s, b, p), EndInstruction(s, b, p), NEW adv, adv # 0,
           b.loops = << >> /\ s.lf /\ s.la + 1 = p => p = b.end
    PROVE  Follow(LoopBack([s EXCEPT !.pc = mask_pc(p)], adv))
<1>. DEFINE L == b.loops
            n == Len(L)
            x == [s EXCEPT !.pc = mask_pc(p)]
<1>1. x.pc = mask_pc(p) /\ x.la = s.la /\ x.lf = s.lf /\ s.la \in Addrs
  <2>1. s.la \in Addrs
    BY Registers
  <2>. QED BY <2>1, PcFields
<1>. HIDE DEF x
<1>2. CASE ~(s.lf /\ s.la + 1 = p)
  <2>1. s.lf => mask_pc(p) # mask_pc(s.la + 1)
    BY <1>1, <1>2, MaskEq
  <2>2. LoopBack(x, adv) = x
    BY <1>1, <2>1, NoLoopEnd
  <2>3. Follow(x)
    BY <1>2, QuietEnd DEF x
  <2>. QED BY <2>2, <2>3 DEF x
<1>3. CASE s.lf /\ s.la + 1 = p /\ L = << >>
  <2>1. p = b.end
    BY <1>3
  <2>2. m' = LoopBack(x, b.il) /\ blk' = NoBlk
    BY <1>3, <2>1 DEF EndInstruction, Reach, Return, x
  <2>3. LoopBack(x, b.il) = LoopBack(x, adv)
    BY SomeAdvance
  <2>. QED BY <2>2, <2>3 DEF Follow, x
<1>4. CASE s.lf /\ s.la + 1 = p /\ L # << >>
  <2>. DEFINE t == [s EXCEPT !.lc = Decremented(s.lc)]
  <2>1. /\ L \in Seq(LoopRecords) /\ n \in Nat /\ n >= 1 /\ Nested(c, max, b)
        /\ L[n] \in LoopRecords
    BY <1>4 DEF Blocks, Arrives
  <2>2. /\ ~s.fv /\ s.la = L[n].la /\ s.stk.ssh = L[n].start
    BY <1>4, <2>1, InnermostFrame
  <2>3. p = L[n].la + 1
    BY <1>4, <2>2
  <2>4. s \in Machines /\ s.lc \in Lcs /\ t = [s EXCEPT !.lc = Decremented(@)]
    BY Registers DEF Sane, Machines
  <2>5. /\ Sane(t) /\ ~t.armed /\ t.stk = s.stk /\ t.la = s.la /\ t.lf = s.lf /\ t.fv = s.fv
    BY <2>4, LcFields, DecrementedType
  <2>6. Frames(t, L) /\ Clear(t, b, p)
    <3>. HIDE DEF t
    <3>1. Frames(t, L) /\ (OuterLf(t, L) <=> OuterLf(s, L)) /\ OuterLa(t, L) = OuterLa(s, L)
      BY <2>5, FramesSame
    <3>. QED BY <3>1, ClearSame
  <2>7. mask_pc(p) \in Addrs
    BY MaskPc
  <2>8. /\ t.lc = 0 => LoopBack(x, adv) = [enddo_cleanup(t) EXCEPT !.pc = mask_pc(p)]
        /\ t.lc # 0 => LoopBack(x, adv) = [t EXCEPT !.pc = L[n].start]
    <3>. HIDE DEF t
    <3>1. /\ t.lc = 0 => LoopBack(x, adv) = [enddo_cleanup(t) EXCEPT !.pc = mask_pc(p)]
          /\ t.lc # 0 => LoopBack(x, adv) = [t EXCEPT !.pc = s.stk.ssh]
      <4>1. s.lf /\ ~s.fv /\ p = s.la + 1 /\ t = [s EXCEPT !.lc = Decremented(s.lc)]
        BY <1>4, <2>2 DEF t
      <4>2. LoopEnds(s, t, p, LoopBack([s EXCEPT !.pc = mask_pc(p)], adv))
        BY <2>7, <4>1, LoopEndAt, Zenon
      <4>3. LoopEnds(s, t, p, LoopBack(x, adv))
        BY <4>2 DEF x
      <4>. QED BY <4>3 DEF LoopEnds
    <3>. QED BY <2>2, <3>1
  <2>9. CASE t.lc = 0
    <3>1. Reach(enddo_cleanup(t), [b EXCEPT !.loops = SubSeq(@, 1, Len(@) - 1)], p)
      BY <1>4, <2>3, <2>4, <2>9 DEF EndInstruction
    <3>. HIDE DEF t
    <3>2. Follow([enddo_cleanup(t) EXCEPT !.pc = mask_pc(p)])
      BY <1>4, <2>1, <2>3, <2>5, <2>6, <3>1, ExitFollows
    <3>. QED BY <2>8, <2>9, <3>2 DEF x
  <2>10. CASE t.lc # 0
    <3>1. GoOn(t, b, L[n].start) \/ Return([t EXCEPT !.pc = L[n].start], b.il)
      BY <1>4, <2>3, <2>4, <2>10 DEF EndInstruction
    <3>. HIDE DEF t
    <3>2. L[n].start > 0
      BY <2>1 DEF Clear
    <3>3. L[n].start <= L[n].la
      BY <1>4, <2>1, Innermost
    <3>4. Follow([t EXCEPT !.pc = L[n].start])
      BY <1>4, <2>1, <2>2, <2>5, <2>6, <3>1, <3>2, <3>3, BackFollows
    <3>. QED BY <2>8, <2>10, <3>4 DEF x
  <2>. QED BY <2>9, <2>10
<1>. QED BY <1>2, <1>3, <1>4

-------------------------------------------------------------------------------
(* The operators of the reference are those of the machine.                *)

\* The operators of the reference instance are those of LoopStep.
LEMMA SameFrames ==
    ASSUME NEW x
    PROVE  /\ \A a, n, f : Reference!do_setup(x, a, n, f) = do_setup(x, a, n, f)
           /\ Reference!enddo_cleanup(x) = enddo_cleanup(x)
           /\ Reference!ExecPop(x) = ExecPop(x)
           /\ \A a : Reference!LoopBack(x, a) = LoopBack(x, a)
           /\ \A a, f : Reference!RepAdvance(x, a, f) = RepAdvance(x, a, f)
           /\ \A a : Reference!Jump(x, a) = Jump(x, a)
           /\ \A i : Reference!ExecRep(x, i) = ExecRep(x, i)
<1>. USE DEF Up, Reference!Up, Down, Reference!Down, ScUp, Reference!ScUp, ScDown, Reference!ScDown,
         PushFaults, Reference!PushFaults, PopFaults, Reference!PopFaults,
         stack_pop, Reference!stack_pop, popped, Reference!popped,
         inline_push, Reference!inline_push, inline_pop, Reference!inline_pop,
         inline_popped, Reference!inline_popped, mask_pc, Reference!mask_pc,
         SrWord, Reference!SrWord, WithSr, Reference!WithSr, Decremented, Reference!Decremented
<1>1. \A a, n, f : Reference!do_setup(x, a, n, f) = do_setup(x, a, n, f)
  BY DEF do_setup, Reference!do_setup
<1>2. Reference!enddo_cleanup(x) = enddo_cleanup(x)
  BY DEF enddo_cleanup, Reference!enddo_cleanup
<1>3. Reference!ExecPop(x) = ExecPop(x)
  BY DEF ExecPop, Reference!ExecPop
<1>4. \A a : Reference!LoopBack(x, a) = LoopBack(x, a)
  BY DEF LoopBack, Reference!LoopBack, LoopExit, Reference!LoopExit
<1>5. \A a, f : Reference!RepAdvance(x, a, f) = RepAdvance(x, a, f)
  BY DEF RepAdvance, Reference!RepAdvance
<1>6. \A a : Reference!Jump(x, a) = Jump(x, a)
  BY DEF Jump, Reference!Jump
<1>7. \A i : Reference!ExecRep(x, i) = ExecRep(x, i)
  BY DEF ExecRep, Reference!ExecRep
<1>. QED BY <1>1, <1>2, <1>3, <1>4, <1>5, <1>6, <1>7

\* So is its execute_one.
LEMMA SameExecuteOne ==
    ASSUME NEW s, NEW taken
    PROVE  Reference!ExecuteOne(s, taken) = ExecuteOne(s, taken)
<1>1. \A x, a, f : Reference!AdvancePc(x, a, f) = AdvancePc(x, a, f)
  <2>. TAKE x, a, f
  <2>. DEFINE r == RepAdvance(x, a, f)
              y == [r[1] EXCEPT !.pc = mask_pc(@ + r[2])]
  <2>1. Reference!RepAdvance(x, a, f) = r
    BY SameFrames
  <2>. HIDE DEF r
  <2>2. [r[1] EXCEPT !.pc = Reference!mask_pc(@ + r[2])] = y
    BY DEF mask_pc, Reference!mask_pc
  <2>3. Reference!AdvancePc(x, a, f) = Reference!LoopBack(y, r[2])
    BY <2>1, <2>2 DEF Reference!AdvancePc
  <2>4. AdvancePc(x, a, f) = LoopBack(y, r[2])
    BY DEF AdvancePc, r
  <2>. HIDE DEF y
  <2>. QED BY <2>3, <2>4, SameFrames
<1>2. \A x, i : Reference!ExecDo(x, i) = ExecDo(x, i)
  <2>. TAKE x, i
  <2>. DEFINE t == do_setup(x, i.to, i.arg, FALSE)
  <2>1. Reference!do_setup(x, i.to, i.arg, FALSE) = t
    BY SameFrames
  <2>. HIDE DEF t
  <2>2. Reference!enddo_cleanup(t) = enddo_cleanup(t)
    BY SameFrames
  <2>3. Reference!Jump(enddo_cleanup(t), i.to + 1) = Jump(enddo_cleanup(t), i.to + 1)
    BY SameFrames
  <2>. QED BY <2>1, <2>2, <2>3 DEF ExecDo, Reference!ExecDo, t
<1>3. \A x, i, f : Reference!Exec(x, i, f) = Exec(x, i, f)
  <2>. TAKE x, i, f
  <2>1. /\ Reference!do_setup(x, i.to, x.lc, TRUE) = do_setup(x, i.to, x.lc, TRUE)
        /\ Reference!enddo_cleanup(x) = enddo_cleanup(x)
        /\ Reference!ExecPop(x) = ExecPop(x)
        /\ Reference!Jump(x, i.to) = Jump(x, i.to)
        /\ Reference!Jump(enddo_cleanup(x), x.la + 1) = Jump(enddo_cleanup(x), x.la + 1)
        /\ Reference!ExecRep(x, i) = ExecRep(x, i)
        /\ Reference!ExecDo(x, i) = ExecDo(x, i)
    BY <1>2, SameFrames
  <2>. QED BY <2>1 DEF Exec, Reference!Exec
<1>. QED BY <1>1, <1>3, Zenon DEF ExecuteOne, Reference!ExecuteOne

-------------------------------------------------------------------------------
(* Each step of a block executes the instruction as execute_one does.      *)

\* The step is one of the reference, and the end of the loop around stays clear.
Matches ==
    /\ \E taken \in BOOLEAN : Arch' = ExecuteOne(Arch, taken)
    /\ blk' = NoBlk \/ Clear(m', blk', IF blk'.rep THEN m'.pc - 1 ELSE m'.pc)

\* Outside an inlined REP the architecture sees the machine.
LEMMA ArchIs ==
    ASSUME m \in Machines, blk = NoBlk \/ blk.rep = FALSE
    PROVE  Arch = m
<1>1. m.rep \in BOOLEAN
  BY DEF Machines
<1>2. (m.rep \/ (blk # NoBlk /\ blk.rep)) = m.rep
  BY <1>1
<1>. QED BY <1>2 DEF Arch, Machines

\* Outside an inlined REP the next architectural machine is the next machine.
LEMMA ArchWillBe ==
    ASSUME m' \in Machines, blk' = NoBlk \/ blk'.rep = FALSE
    PROVE  Arch' = m'
<1>1. m'.rep \in BOOLEAN
  BY DEF Machines
<1>2. (m'.rep \/ (blk' # NoBlk /\ blk'.rep)) = m'.rep
  BY <1>1
<1>. QED BY <1>2 DEF Arch, Machines

\* A block step that follows execute_one is a step of the reference.
LEMMA FollowMatches ==
    ASSUME Inv, Running, blk.rep = FALSE, Kept(code, cap), NEW taken \in BOOLEAN,
           Follow(ExecuteOne(m, taken))
    PROVE  Matches
<1>1. m \in Machines /\ m' \in Machines
  BY InBlockFacts DEF Kept, Sane
<1>2. Arch = m
  BY <1>1, ArchIs
<1>3. blk' = NoBlk \/ blk'.rep = FALSE
  BY DEF Follow, Kept, BlockOk, Blocks
<1>4. Arch' = m'
  BY <1>1, <1>3, ArchWillBe
<1>. QED BY <1>2, <1>3, <1>4 DEF Follow, Matches

\* An instruction other than REP, outside of REP.
LEMMA OneStep ==
    ASSUME Inv, Running, NEW taken \in BOOLEAN, NEW s, NEW adv,
           Exec(m, Cur, taken) = <<s, adv>>, s \in Machines, ~s.rep
    PROVE  ExecuteOne(m, taken) = LoopBack([s EXCEPT !.pc = mask_pc(s.pc + adv)], adv)
<1>1. Cur = code[m.pc]
  <2>1. m.pc \in Addrs
    BY InBlockFacts
  <2>2. mask_pc(m.pc) = m.pc
    BY <2>1, MaskPc
  <2>. QED BY <2>2 DEF Cur, At
<1>2. <<s, adv>>[1] = s /\ <<s, adv>>[2] = adv
  OBVIOUS
<1>3. ExecuteOne(m, taken) = AdvancePc(s, adv, code[m.pc].op = "rep")
  BY <1>1, <1>2, Zenon DEF ExecuteOne
<1>4. RepAdvance(s, adv, code[m.pc].op = "rep") = <<s, adv>>
  BY DEF RepAdvance
<1>5. AdvancePc(s, adv, code[m.pc].op = "rep") = LoopBack([s EXCEPT !.pc = mask_pc(@ + adv)], adv)
  BY <1>2, <1>4, Zenon DEF AdvancePc
<1>6. [s EXCEPT !.pc = mask_pc(@ + adv)] = [s EXCEPT !.pc = mask_pc(s.pc + adv)]
  BY DEF Machines
<1>. QED BY <1>3, <1>5, <1>6

\* Only REP sets loop_rep.
LEMMA ExecNoRep ==
    ASSUME NEW s, Sane(s), ~s.rep, NEW i, IsInstruction(i), i.op # "rep", NEW taken \in BOOLEAN
    PROVE  ~Exec(s, i, taken)[1].rep
<1>1. i.op \in Ops /\ i.arg \in Lcs /\ i.to \in Addrs /\ s.lc \in Lcs
  BY Registers DEF IsInstruction
<1>2. ASSUME NEW a, NEW t, Sane(t), ~t.rep
      PROVE  ~Jump(t, a)[1].rep
  <2>1. ~[t EXCEPT !.pc = mask_pc(a)].rep
    BY <1>2, PcFields
  <2>. QED BY <2>1 DEF Jump
<1>. DEFINE d == do_setup(s, i.to, i.arg, FALSE)
            e == do_setup(s, i.to, s.lc, TRUE)
<1>3. Sane(d) /\ ~d.rep /\ ~e.rep
  <2>1. Sane(d)
    <3>1. DoFacts(s, i.to, i.arg, d)
      BY <1>1, CountedDo
    <3>. HIDE DEF d
    <3>. QED BY <3>1 DEF DoFacts
  <2>2. s \in Machines
    BY DEF Sane
  <2>3. \A n, f : do_setup(s, i.to, n, f).rep = s.rep
    <3>. TAKE n, f
    <3>. DEFINE one == inline_push(s.stk, s.la, s.lc)
                two == inline_push(one, mask_pc(s.pc + 2), SrWord(s))
    <3>1. do_setup(s, i.to, n, f)
            = [s EXCEPT !.stk = two, !.la = i.to, !.lc = n, !.lf = TRUE, !.fv = f,
                        !.armed = @ \/ PushFaults(s.stk) \/ PushFaults(one)]
      BY DEF do_setup
    <3>. HIDE DEF one, two
    <3>. QED BY <2>2, <3>1 DEF Machines
  <2>4. d.rep = s.rep /\ e.rep = s.rep
    BY <2>3
  <2>. HIDE DEF d, e
  <2>. QED BY <2>1, <2>4
<1>. HIDE DEF d, e
<1>4. /\ Sane(enddo_cleanup(s)) /\ ~enddo_cleanup(s).rep
      /\ Sane(enddo_cleanup(d)) /\ ~enddo_cleanup(d).rep
  BY <1>3, Cleanup DEF CleanupFacts
<1>5. CASE i.op = "do"
  <2>1. Exec(s, i, taken) = ExecDo(s, i)
    BY <1>5 DEF Exec
  <2>2. ExecDo(s, i) = Jump(enddo_cleanup(d), i.to + 1) \/ ExecDo(s, i) = <<d, i.len>>
    BY DEF ExecDo, d
  <2>. QED BY <1>2, <1>3, <1>4, <2>1, <2>2
<1>6. CASE i.op = "forever"
  <2>1. Exec(s, i, taken) = <<e, i.len>>
    BY <1>6 DEF Exec, e
  <2>. QED BY <1>3, <2>1
<1>7. CASE i.op = "enddo"
  <2>1. Exec(s, i, taken) = <<enddo_cleanup(s), i.len>>
    BY <1>7 DEF Exec
  <2>. QED BY <1>4, <2>1
<1>8. CASE i.op = "brk" /\ taken
  <2>1. Exec(s, i, taken) = Jump(enddo_cleanup(s), s.la + 1)
    BY <1>8 DEF Exec
  <2>. QED BY <1>2, <1>4, <2>1
<1>9. CASE i.op = "jmp" \/ (i.op = "bcc" /\ taken)
  <2>1. Exec(s, i, taken) = Jump(s, i.to)
    BY <1>9 DEF Exec
  <2>. QED BY <1>2, <2>1
<1>10. CASE i.op = "pop"
  <2>1. Exec(s, i, taken) = <<ExecPop(s), i.len>>
    BY <1>10 DEF Exec
  <2>2. ~ExecPop(s).rep
    BY DEF ExecPop, Sane, Machines
  <2>. QED BY <2>1, <2>2
<1>11. CASE i.op = "setla"
  <2>1. Exec(s, i, taken) = <<[s EXCEPT !.la = i.to], i.len>>
    BY <1>11 DEF Exec
  <2>2. ~[s EXCEPT !.la = i.to].rep
    BY DEF Sane, Machines
  <2>3. <<[s EXCEPT !.la = i.to], i.len>>[1] = [s EXCEPT !.la = i.to]
    OBVIOUS
  <2>. QED BY <2>1, <2>2, <2>3, Zenon
<1>12. CASE i.op \in {"plain", "exit"} \/ (i.op \in {"brk", "bcc"} /\ ~taken)
  <2>1. Exec(s, i, taken) = <<s, i.len>>
    BY <1>12 DEF Exec
  <2>2. <<s, i.len>>[1] = s
    OBVIOUS
  <2>. QED BY <2>1, <2>2, Zenon
<1>. QED BY <1>1, <1>5, <1>6, <1>7, <1>8, <1>9, <1>10, <1>11, <1>12 DEF Ops

\* The instructions compiled alone.
LEMMA MatchTerminator ==
    ASSUME RefInv, Terminator
    PROVE  Matches
<1>1. /\ Inv /\ Running /\ Sane(m) /\ IsInstruction(Cur) /\ ~m.rep /\ blk.rep = FALSE
      /\ Cur.op # "rep"
  <2>1. Inv /\ Running /\ ~blk.rep /\ Cur.op # "rep"
    BY DEF RefInv, Terminator, IsTerminator, Terminators
  <2>2. blk \in Blocks /\ Sane(m) /\ IsInstruction(Cur) /\ ~m.rep
    BY <2>1, InBlockFacts
  <2>. QED BY <2>1, <2>2 DEF Blocks
<1>2. PICK taken \in BOOLEAN : LET e == Exec(m, Cur, taken)
                               IN  Return([e[1] EXCEPT !.pc = mask_pc(@ + e[2])], e[2])
  BY DEF Terminator
<1>. DEFINE e == Exec(m, Cur, taken)
            s == e[1]
            adv == e[2]
<1>3. Sane(s) /\ ~s.rep
  BY <1>1, ExecSane, ExecNoRep
<1>4. Return([s EXCEPT !.pc = mask_pc(@ + adv)], adv)
  BY <1>2
<1>5. e = <<s, adv>>
  <2>1. \A x, y : <<x, y>> = <<<<x, y>>[1], <<x, y>>[2]>>
    OBVIOUS
  <2>2. \E x, y : e = <<x, y>>
    BY DEF Exec, ExecDo, Jump
  <2>. HIDE DEF e
  <2>. QED BY <2>1, <2>2
<1>. HIDE DEF e, s, adv
<1>6. s \in Machines
  BY <1>3 DEF Sane
<1>7. [s EXCEPT !.pc = mask_pc(@ + adv)] = [s EXCEPT !.pc = mask_pc(s.pc + adv)]
  BY <1>6 DEF Machines
<1>8. ExecuteOne(m, taken) = LoopBack([s EXCEPT !.pc = mask_pc(s.pc + adv)], adv)
  BY <1>1, <1>3, <1>5, <1>6, OneStep DEF e
<1>9. Follow(ExecuteOne(m, taken))
  BY <1>4, <1>7, <1>8 DEF Return, Follow
<1>10. Kept(code, cap)
  BY <1>1, KeepTerminator
<1>. QED BY <1>1, <1>9, <1>10, FollowMatches

\* Instructions with no effect on control.
LEMMA MatchOrdinary ==
    ASSUME RefInv, Ordinary, Orderly
    PROVE  Matches
<1>. DEFINE t == Exec(m, Cur, FALSE)[1]
            b == [blk EXCEPT !.il = Cur.len]
            next == m.pc + Cur.len
<1>0. Inv /\ Running /\ LaKept
  BY DEF RefInv, Ordinary, Orderly
<1>1. /\ code \in Codes /\ cap \in Nat /\ Sane(m)
      /\ blk \in Blocks /\ ~m.armed /\ ~m.rep /\ Frames(m, blk.loops) /\ ~blk.rep
      /\ m.pc \in Addrs /\ m.pc \in Nat /\ m.pc < Size /\ IsInstruction(Cur)
      /\ Place(code, cap, blk, m.pc)
  BY <1>0, InBlockFacts DEF Ordinary
<1>2. Cur.op \in {"plain", "exit", "setla"} /\ Cur.len \in {1, 2} /\ Cur.to \in Addrs
  BY <1>1 DEF Ordinary, IsInstruction
<1>3. Cur = At(code, m.pc) /\ Behind(code, m.pc) = next /\ next \in 1 .. Size
  <2>1. Cur = At(code, m.pc) /\ Behind(code, m.pc) = next /\ next <= Size
    BY <1>1, <1>2, Instruction DEF Cur
  <2>. QED BY <1>1, <1>2, <2>1, LoopAssumption
<1>4. /\ \/ t = m /\ Cur.op \in {"plain", "exit"}
         \/ t = [m EXCEPT !.la = Cur.to] /\ Cur.op = "setla"
      /\ Exec(m, Cur, FALSE) = <<t, Cur.len>>
  BY <1>2 DEF Exec
<1>. HIDE DEF t, next
<1>5. /\ Sane(t) /\ ~t.armed /\ ~t.rep /\ Frames(t, blk.loops) /\ t.pc = m.pc
      /\ OuterLf(t, blk.loops) <=> OuterLf(m, blk.loops)
      /\ OuterLf(m, blk.loops) => OuterLa(t, blk.loops) = OuterLa(m, blk.loops)
  BY <1>0, <1>1, <1>4, LaFrames
<1>6. /\ b \in Blocks /\ b.stop = blk.stop /\ b.end = blk.end /\ ~b.rep /\ b.loops = blk.loops
      /\ b.il # 0
  <2>1. Cur.len \in 0 .. 2 /\ Cur.len # 0
    BY <1>2
  <2>. QED BY <1>1, <2>1, IlFields
<1>. HIDE DEF b
<1>7. Arrives(code, cap, b, next) /\ Onward(b, m.pc, next)
  <2>1. Arrives(code, cap, blk, next) /\ Onward(blk, m.pc, next)
    BY <1>1, <1>2, <1>3, OrdinaryPlace
  <2>. QED BY <1>6, <2>1, PlaceSame DEF Onward
<1>8. Clear(t, b, m.pc) /\ Frames(t, b.loops)
  <2>1. Clear(m, blk, m.pc)
    BY <1>1, <1>0 DEF RefInv, Running
  <2>. QED BY <1>5, <1>6, <2>1 DEF Clear
<1>9. Clear(t, b, next) /\ (b.loops = << >> /\ t.lf /\ t.la + 1 = next => next = b.end)
  BY <1>1, <1>5, <1>6, <1>7, <1>8, OnwardClear
<1>10. ExecuteOne(m, FALSE) = LoopBack([t EXCEPT !.pc = mask_pc(next)], Cur.len)
  <2>1. t \in Machines
    BY <1>5 DEF Sane
  <2>2. ExecuteOne(m, FALSE) = LoopBack([t EXCEPT !.pc = mask_pc(t.pc + Cur.len)], Cur.len)
    BY <1>0, <1>4, <1>5, <2>1, OneStep
  <2>. QED BY <1>5, <2>2 DEF next
<1>11. Cur.len # 0
  BY <1>2
<1>12. ASSUME EndInstruction(t, b, next)
       PROVE  Follow(LoopBack([t EXCEPT !.pc = mask_pc(next)], Cur.len))
  BY <1>1, <1>3, <1>5, <1>6, <1>7, <1>8, <1>9, <1>11, <1>12, EndFollows
<1>13. ASSUME Return([t EXCEPT !.pc = mask_pc(next)], Cur.len)
       PROVE  Follow(LoopBack([t EXCEPT !.pc = mask_pc(next)], Cur.len))
  BY <1>13, Zenon DEF Return, Follow
<1>14. Follow(LoopBack([t EXCEPT !.pc = mask_pc(next)], Cur.len))
  <2>1. EndInstruction(t, b, next) \/ Return([t EXCEPT !.pc = mask_pc(next)], Cur.len)
    BY DEF Ordinary, t, b, next
  <2>. QED BY <1>12, <1>13, <2>1
<1>15. blk.rep = FALSE
  BY <1>1 DEF Blocks
<1>16. Kept(code, cap)
  BY <1>0, KeepOrdinary
<1>. QED BY <1>0, <1>10, <1>14, <1>15, <1>16, FollowMatches

\* A forward skip, taken or not.
LEMMA MatchSkip ==
    ASSUME RefInv, Skip, Orderly
    PROVE  Matches
<1>. DEFINE b == [blk EXCEPT !.il = Cur.len]
            next == m.pc + Cur.len
<1>0. Inv /\ Running
  BY DEF RefInv, Skip
<1>1. /\ code \in Codes /\ cap \in Nat /\ Sane(m)
      /\ blk \in Blocks /\ ~m.armed /\ ~m.rep /\ Frames(m, blk.loops) /\ ~blk.rep
      /\ m.pc \in Addrs /\ m.pc \in Nat /\ m.pc < Size /\ IsInstruction(Cur)
      /\ Place(code, cap, blk, m.pc)
  BY <1>0, InBlockFacts DEF Skip
<1>2. /\ Cur.op = "bcc" /\ Cur.len \in {1, 2} /\ Cur.to \in Addrs
      /\ \/ blk.loops # << >>
         \/ IsSkipInlineable(code, m.pc, blk.stop) /\ Cur.to <= blk.end
  BY <1>1 DEF Skip, IsSkip, InLoop, IsInstruction
<1>3. Cur = At(code, m.pc) /\ Cur = code[m.pc] /\ Behind(code, m.pc) = next /\ next \in 1 .. Size
  <2>1. Cur = At(code, m.pc) /\ Behind(code, m.pc) = next /\ next <= Size /\ At(code, m.pc) = code[m.pc]
    BY <1>1, <1>2, Instruction DEF Cur
  <2>. QED BY <1>1, <1>2, <2>1, LoopAssumption
<1>. HIDE DEF next
<1>4. /\ b \in Blocks /\ b.stop = blk.stop /\ b.end = blk.end /\ ~b.rep /\ b.loops = blk.loops
      /\ b.il # 0
  <2>1. Cur.len \in 0 .. 2 /\ Cur.len # 0
    BY <1>2
  <2>. QED BY <1>1, <2>1, IlFields
<1>. HIDE DEF b
<1>5. /\ Arrives(code, cap, blk, next) /\ Arrives(code, cap, blk, Cur.to)
      /\ Onward(blk, m.pc, next) /\ Onward(blk, m.pc, Cur.to)
      /\ blk.loops # << >> => Place(code, cap, blk, Cur.to)
  BY <1>1, <1>2, <1>3, SkipPlace
<1>6. /\ Arrives(code, cap, b, next) /\ Arrives(code, cap, b, Cur.to)
      /\ Onward(b, m.pc, next) /\ Onward(b, m.pc, Cur.to)
      /\ b.loops # << >> => Place(code, cap, b, Cur.to)
  BY <1>4, <1>5, PlaceSame DEF Onward
<1>7. Clear(m, b, m.pc) /\ Frames(m, b.loops)
  <2>1. Clear(m, blk, m.pc)
    BY <1>1, <1>0 DEF RefInv, Running
  <2>. QED BY <1>1, <1>4, <2>1, ClearSame
<1>8. /\ Clear(m, b, next) /\ (b.loops = << >> /\ m.lf /\ m.la + 1 = next => next = b.end)
      /\ Clear(m, b, Cur.to)
  BY <1>1, <1>4, <1>6, <1>7, OnwardClear
<1>9. m \in Machines
  BY <1>1 DEF Sane
<1>10. blk.rep = FALSE /\ Kept(code, cap)
  BY <1>0, <1>1, KeepSkip DEF Blocks
<1>11. CASE Reach(m, b, Cur.to)
  <2>1. m.lf => Cur.to # mask_pc(m.la + 1)
    BY <1>1, <1>2, <1>3 DEF Orderly
  <2>2. mask_pc(Cur.to) = Cur.to
    BY <1>2, MaskPc
  <2>3. Follow([m EXCEPT !.pc = mask_pc(Cur.to)])
    BY <1>1, <1>4, <1>6, <1>8, <1>11, <2>1, <2>2, ReachFollows
  <2>. DEFINE s == [m EXCEPT !.pc = mask_pc(Cur.to)]
  <2>4. Exec(m, Cur, TRUE) = <<s, 0>>
    BY <1>2 DEF Exec, Jump
  <2>5. Sane(s) /\ s.pc = Cur.to /\ s.rep = m.rep
    BY <1>1, <1>2, <2>2, PcFields
  <2>. HIDE DEF s
  <2>6. s \in Machines
    BY <2>5 DEF Sane
  <2>7. ExecuteOne(m, TRUE) = LoopBack([s EXCEPT !.pc = mask_pc(s.pc + 0)], 0)
    BY <1>0, <1>1, <2>4, <2>5, <2>6, OneStep
  <2>8. Cur.to + 0 = Cur.to
    BY <1>2, LoopAssumption DEF Addrs
  <2>9. [s EXCEPT !.pc = mask_pc(s.pc + 0)] = s
    BY <2>2, <2>5, <2>6, <2>8 DEF Machines
  <2>10. LoopBack(s, 0) = s
    BY NoLoopEnd
  <2>11. Follow(ExecuteOne(m, TRUE))
    BY <2>3, <2>7, <2>9, <2>10 DEF s
  <2>. QED BY <1>0, <1>10, <2>11, FollowMatches
<1>12. CASE EndInstruction(m, b, next)
  <2>1. Exec(m, Cur, FALSE) = <<m, Cur.len>>
    BY <1>2 DEF Exec
  <2>2. ExecuteOne(m, FALSE) = LoopBack([m EXCEPT !.pc = mask_pc(m.pc + Cur.len)], Cur.len)
    BY <1>0, <1>1, <1>9, <2>1, OneStep
  <2>3. Cur.len # 0
    BY <1>2
  <2>4. Follow(LoopBack([m EXCEPT !.pc = mask_pc(next)], Cur.len))
    BY <1>1, <1>3, <1>4, <1>6, <1>7, <1>8, <1>12, <2>3, EndFollows
  <2>. QED BY <1>0, <1>10, <2>2, <2>4, FollowMatches DEF next
<1>. QED BY <1>11, <1>12 DEF Skip, b, next

\* Entering a loop that has an end of its own.
LEMMA EnterClear ==
    ASSUME NEW s, Sane(s), NEW t, NEW b \in Blocks, NEW d, Clear(s, b, s.pc),
           NEW l \in LoopRecords, s.pc < l.start, l.start <= l.la, s.pc \in Nat,
           b.loops = << >> /\ s.lf => l.la # s.la,
           d.loops = Append(b.loops, l), d.stop = b.stop, d.end = b.end,
           OuterLf(t, d.loops) <=> OuterLf(s, b.loops), OuterLa(t, d.loops) = OuterLa(s, b.loops),
           NEW p
    PROVE  Clear(t, d, p)
<1>. DEFINE L == b.loops
            K == d.loops
            e == OuterLa(s, L) + 1
<1>1. L \in Seq(LoopRecords) /\ Len(L) \in Nat
  BY DEF Blocks
<1>2. /\ Len(K) = Len(L) + 1 /\ K # << >> /\ \A k \in 1 .. Len(L) : K[k] = L[k]
      /\ K[Len(L) + 1] = l
  BY <1>1
<1>3. l.start \in Nat /\ l.la \in Nat
  BY LoopAssumption DEF LoopRecords, Addrs
<1>4. \A k \in 1 .. Len(K) : K[k].start > 0
  <2>1. l.start > 0
    BY <1>3
  <2>2. \A k \in 1 .. Len(L) : L[k].start > 0
    BY DEF Clear
  <2>3. \A k \in 1 .. Len(K) : k = Len(L) + 1 \/ k \in 1 .. Len(L)
    BY <1>1, <1>2
  <2>. HIDE DEF L, K
  <2>. QED BY <1>2, <2>1, <2>2, <2>3
<1>5. OuterLf(s, L) => e # K[1].la + 1 /\ (e <= K[1].la + 1 \/ e >= b.end \/ b.stop = e)
  <2>1. CASE L = << >>
    <3>1. K[1] = l
      BY <1>2, <2>1
    <3>2. (OuterLf(s, L) <=> s.lf) /\ OuterLa(s, L) = s.la
      BY <2>1 DEF OuterLf, OuterLa
    <3>3. OuterLf(s, L) => e <= s.pc \/ e >= b.end \/ b.stop = e
      BY <2>1 DEF Clear
    <3>4. s.la \in Nat
      <4>1. s.la \in Addrs
        BY Registers
      <4>. QED BY <4>1, LoopAssumption DEF Addrs
    <3>5. e = s.la + 1
      BY <3>2
    <3>6. s.lf => l.la # s.la
      BY <2>1
    <3>. HIDE DEF e, K, L
    <3>. QED BY <1>3, <3>1, <3>2, <3>3, <3>4, <3>5, <3>6
  <2>2. CASE L # << >>
    <3>1. K[1] = L[1]
      BY <1>1, <1>2, <2>2
    <3>2. OuterLf(s, L) => e # L[1].la + 1 /\ (e <= L[1].la + 1 \/ e >= b.end \/ b.stop = e)
      BY <2>2 DEF Clear
    <3>. HIDE DEF e, K, L
    <3>. QED BY <3>1, <3>2
  <2>. QED BY <2>1, <2>2
<1>. QED BY <1>2, <1>4, <1>5 DEF Clear

\* A DO whose body is compiled into the block.
LEMMA MatchInlineDo ==
    ASSUME RefInv, InlineDo, Orderly
    PROVE  Matches
<1>. DEFINE t == do_setup(m, Cur.to, Cur.arg, FALSE)
            b == [blk EXCEPT !.il = 2]
            z == [b EXCEPT !.il = 0]
            d == [b EXCEPT !.loops = Append(@, [start |-> m.pc + 2, la |-> Cur.to])]
            e == enddo_cleanup(t)
<1>0. Inv /\ Running
  BY DEF RefInv, InlineDo
<1>1. /\ code \in Codes /\ cap \in Nat /\ Sane(m)
      /\ blk \in Blocks /\ ~m.armed /\ ~m.rep /\ Frames(m, blk.loops) /\ ~blk.rep
      /\ m.pc \in Addrs /\ m.pc \in Nat /\ m.pc < Size /\ IsInstruction(Cur)
      /\ Place(code, cap, blk, m.pc) /\ blk.loops \in Seq(LoopRecords)
  BY <1>0, InBlockFacts DEF InlineDo, Blocks
<1>2. /\ Cur.op = "do" /\ Cur.to \in Addrs /\ Cur.arg \in Lcs /\ Cur = At(code, m.pc)
      /\ blk.loops # << >> \/ InlinesDo(code, m.pc, blk.stop)
  BY <1>1 DEF InlineDo, IsInlineDo, InLoop, IsInstruction, Cur
<1>3. Cur = code[m.pc] /\ Cur.len = 2
  BY <1>1, <1>2, Instruction
<1>4. /\ b \in Blocks /\ b.stop = blk.stop /\ b.end = blk.end /\ ~b.rep /\ b.loops = blk.loops
      /\ b.il = 2
  <2>1. 2 \in 0 .. 2
    OBVIOUS
  <2>. QED BY <1>1, <2>1, IlFields
<1>. HIDE DEF b
<1>5. /\ z \in Blocks /\ z.stop = blk.stop /\ z.end = blk.end /\ ~z.rep /\ z.loops = blk.loops
      /\ z.il = 0
  <2>1. 0 \in 0 .. 2
    OBVIOUS
  <2>. QED BY <1>4, <2>1, IlFields
<1>. HIDE DEF z
<1>6. /\ d.stop = blk.stop /\ d.end = blk.end
      /\ d.loops = Append(blk.loops, Loop(m.pc + 2, Cur.to)) /\ ~d.rep
  BY <1>4 DEF Blocks, Loop
<1>. HIDE DEF d
<1>7. /\ m.pc + 2 \in Addrs /\ m.pc + 2 <= Cur.to
      /\ Arrives(code, cap, blk, Cur.to + 1) /\ Onward(blk, m.pc, Cur.to + 1)
      /\ blk.loops # << >> => Place(code, cap, blk, Cur.to + 1)
  BY <1>1, <1>2, <1>6, DoPlace
<1>8. DoFacts(m, Cur.to, Cur.arg, t)
  BY <1>1, <1>2, CountedDo
<1>9. Clear(m, blk, m.pc)
  BY <1>0, <1>1 DEF RefInv, Running
<1>10. blk.rep = FALSE /\ Kept(code, cap)
  BY <1>0, <1>1, KeepInlineDo DEF Blocks
<1>11. IF t.armed THEN Return([t EXCEPT !.pc = m.pc + 2], b.il)
       ELSE IF Cur.arg = 0 THEN Reach(e, z, Cur.to + 1)
       ELSE GoOn(t, d, m.pc + 2)
  BY Zenon DEF InlineDo, b, z, d
<1>12. Exec(m, Cur, FALSE) = IF Cur.arg = 0 THEN Jump(e, Cur.to + 1) ELSE <<t, 2>>
  <2>1. Exec(m, Cur, FALSE) = ExecDo(m, Cur)
    BY <1>2 DEF Exec
  <2>. QED BY <1>3, <2>1, Zenon DEF ExecDo
<1>13. Cur.arg = 0 => ~t.armed
  <2>1. Cur.arg = 0 => ~do_setup(m, Cur.to, 0, FALSE).armed
    BY <1>1, <1>2, <1>3, Zenon DEF Orderly
  <2>. QED BY <2>1
<1>14. ~t.armed => AnnulFacts(m, blk.loops, e)
  BY <1>1, <1>2, FramesAnnul
<1>15. ~t.armed => /\ OuterLf(t, d.loops) <=> OuterLf(m, blk.loops)
                   /\ OuterLa(t, d.loops) = OuterLa(m, blk.loops)
  <2>. SUFFICES ASSUME ~t.armed PROVE /\ OuterLf(t, d.loops) <=> OuterLf(m, blk.loops)
                                      /\ OuterLa(t, d.loops) = OuterLa(m, blk.loops)
    OBVIOUS
  <2>. DEFINE K == Append(blk.loops, Loop(m.pc + 2, Cur.to))
  <2>1. (OuterLf(t, K) <=> OuterLf(m, blk.loops)) /\ OuterLa(t, K) = OuterLa(m, blk.loops)
    BY <1>1, <1>2, <1>7, FramesPush
  <2>. HIDE DEF K
  <2>2. d.loops = K
    BY <1>6 DEF K
  <2>. HIDE DEF t
  <2>. QED BY <2>1, <2>2
<1>. HIDE DEF t, e
<1>16. Sane(t) /\ t \in Machines /\ ~t.rep /\ t.pc = m.pc /\ t.la = Cur.to /\ t.lf
  BY <1>1, <1>8 DEF DoFacts, Sane
<1>17. mask_pc(m.pc + 2) = m.pc + 2
  BY <1>7, MaskPc
<1>18. Cur.arg # 0 => ExecuteOne(m, FALSE) = LoopBack([t EXCEPT !.pc = m.pc + 2], 2)
  <2>. SUFFICES ASSUME Cur.arg # 0 PROVE ExecuteOne(m, FALSE) = LoopBack([t EXCEPT !.pc = m.pc + 2], 2)
    OBVIOUS
  <2>1. Exec(m, Cur, FALSE) = <<t, 2>>
    BY <1>12
  <2>2. ExecuteOne(m, FALSE) = LoopBack([t EXCEPT !.pc = mask_pc(t.pc + 2)], 2)
    BY <1>0, <1>16, <2>1, OneStep
  <2>. QED BY <1>16, <1>17, <2>2
<1>19. CASE t.armed
  <2>1. m' = LoopBack([t EXCEPT !.pc = m.pc + 2], 2) /\ blk' = NoBlk
    BY <1>4, <1>11, <1>19 DEF Return
  <2>2. Follow(ExecuteOne(m, FALSE))
    BY <1>13, <1>18, <1>19, <2>1 DEF Follow
  <2>. QED BY <1>0, <1>10, <2>2, FollowMatches
<1>20. CASE ~t.armed /\ Cur.arg = 0
  <2>. DEFINE x == mask_pc(Cur.to + 1)
              s == [e EXCEPT !.pc = x]
  <2>1. /\ Sane(e) /\ ~e.rep /\ Frames(e, z.loops)
        /\ OuterLf(e, z.loops) <=> OuterLf(m, blk.loops)
        /\ OuterLa(e, z.loops) = OuterLa(m, blk.loops)
    BY <1>1, <1>5, <1>14, <1>20 DEF AnnulFacts
  <2>2. /\ Arrives(code, cap, z, Cur.to + 1) /\ Onward(z, m.pc, Cur.to + 1)
        /\ z.loops # << >> => Place(code, cap, z, Cur.to + 1)
    BY <1>5, <1>7, PlaceSame DEF Onward
  <2>3. Clear(e, z, m.pc)
    BY <1>5, <1>9, <2>1, ClearSame
  <2>4. Clear(e, z, Cur.to + 1)
    BY <1>1, <1>5, <2>1, <2>2, <2>3, OnwardClear
  <2>5. Reach(e, z, Cur.to + 1)
    BY <1>11, <1>20, Zenon
  <2>6. Follow(s)
    BY <1>1, <1>5, <2>1, <2>2, <2>4, <2>5, ReachFollows
  <2>7. Exec(m, Cur, FALSE) = <<s, 0>>
    BY <1>12, <1>20 DEF Jump
  <2>8. x \in Addrs /\ mask_pc(x + 0) = x
    <3>1. Cur.to + 1 \in Nat
      BY <1>2, LoopAssumption DEF Addrs
    <3>2. x \in Addrs
      BY <3>1, MaskPc
    <3>. HIDE DEF x
    <3>3. x + 0 = x
      BY <3>2, LoopAssumption DEF Addrs
    <3>. QED BY <3>2, <3>3, MaskPc
  <2>. HIDE DEF x
  <2>9. Sane(s) /\ s.pc = x /\ ~s.rep
    BY <2>1, <2>8, PcFields
  <2>. HIDE DEF s
  <2>10. s \in Machines
    BY <2>9 DEF Sane
  <2>11. ExecuteOne(m, FALSE) = LoopBack([s EXCEPT !.pc = mask_pc(s.pc + 0)], 0)
    BY <1>0, <2>7, <2>9, <2>10, OneStep
  <2>12. [s EXCEPT !.pc = mask_pc(s.pc + 0)] = s
    BY <2>8, <2>9, <2>10 DEF Machines
  <2>13. LoopBack(s, 0) = s
    BY NoLoopEnd
  <2>14. Follow(ExecuteOne(m, FALSE))
    BY <2>6, <2>11, <2>12, <2>13
  <2>. QED BY <1>0, <1>10, <2>14, FollowMatches
<1>21. CASE ~t.armed /\ Cur.arg # 0
  <2>. DEFINE s == [t EXCEPT !.pc = m.pc + 2]
  <2>1. GoOn(t, d, m.pc + 2)
    BY <1>11, <1>21, Zenon
  <2>2. Clear(t, d, m.pc + 2)
    <3>. DEFINE l == Loop(m.pc + 2, Cur.to)
    <3>1. l \in LoopRecords /\ m.pc < l.start /\ l.start <= l.la /\ l.la = Cur.to
      BY <1>1, <1>2, <1>7 DEF LoopRecords, Loop
    <3>2. m.lf => Cur.to # m.la
      BY <1>1, <1>2, <1>3 DEF Orderly
    <3>. HIDE DEF l
    <3>3. m.lf => l.la # m.la
      BY <3>1, <3>2
    <3>4. d.loops = Append(blk.loops, l)
      BY <1>6 DEF l
    <3>. QED BY <1>1, <1>6, <1>9, <1>15, <1>21, <3>1, <3>3, <3>4, EnterClear
  <2>3. Follow([t EXCEPT !.pc = mask_pc(m.pc + 2)])
    BY <1>6, <1>7, <1>16, <2>1, <2>2, GoOnFollows
  <2>4. s.pc = m.pc + 2 /\ s.la = Cur.to
    BY <1>16, PcFields
  <2>5. mask_pc(m.pc + 2) # mask_pc(Cur.to + 1)
    <3>1. m.pc + 2 \in 1 .. Size /\ m.pc + 2 # Cur.to + 1
      BY <1>1, <1>2, <1>7, LoopAssumption DEF Addrs
    <3>. QED BY <1>2, <3>1, MaskEq
  <2>. HIDE DEF s
  <2>6. LoopBack(s, 2) = s
    BY <1>17, <2>4, <2>5, NoLoopEnd
  <2>7. Follow(ExecuteOne(m, FALSE))
    BY <1>17, <1>18, <1>21, <2>3, <2>6 DEF s
  <2>. QED BY <1>0, <1>10, <2>7, FollowMatches
<1>. QED BY <1>19, <1>20, <1>21

\* REP: the count goes to LC, or the repeated word is passed.  With REP inside
\* the body of a loop, the loop does not end here.
LEMMA RepStep ==
    ASSUME Inv, Running, ~blk.rep, Orderly, Cur.op = "rep"
    PROVE  LET s == ExecRep(m, Cur)
           IN  /\ s \in Machines /\ s.pc = m.pc /\ s.temp = m.lc /\ s.lc = Cur.arg
               /\ m.pc + 1 \in Addrs /\ m.pc + 2 \in 1 .. Size
               /\ Cur.arg = 0 => /\ ExecuteOne(m, FALSE) = [s EXCEPT !.rep = FALSE, !.lc = s.temp,
                                                                     !.pc = mask_pc(m.pc + 2)]
                                 /\ m.lf => m.la + 1 # m.pc + 2
               /\ Cur.arg # 0 => ExecuteOne(m, FALSE) = [s EXCEPT !.pc = m.pc + 1]
<1>. DEFINE s == ExecRep(m, Cur)
            done == [s EXCEPT !.rep = FALSE, !.lc = s.temp]
            x == [done EXCEPT !.pc = mask_pc(m.pc + 2)]
            y == [s EXCEPT !.pc = m.pc + 1]
<1>1. /\ code \in Codes /\ Sane(m) /\ m \in Machines /\ ~m.armed /\ m.pc \in Addrs
      /\ m.pc \in Nat /\ m.pc < Size /\ IsInstruction(Cur)
  BY InBlockFacts DEF Sane
<1>2. m.la \in Addrs /\ Cur.arg \in Lcs
  BY <1>1, Registers DEF IsInstruction
<1>3. Cur = code[m.pc] /\ Cur.len = 1 /\ m.pc + 1 < Size
  BY <1>1, Instruction DEF Cur
<1>4. m.pc + 1 \in Addrs /\ m.pc + 1 \in 1 .. Size /\ m.pc + 2 \in 1 .. Size
  BY <1>1, <1>3, LoopAssumption DEF Addrs
<1>5. mask_pc(m.pc + 1) = m.pc + 1
  BY <1>4, MaskPc
<1>6. /\ s \in Machines /\ s.pc = m.pc /\ s.temp = m.lc /\ s.lc = Cur.arg /\ s.rep
      /\ s.la = m.la /\ s.lf = m.lf
  BY <1>1, <1>2 DEF ExecRep, Machines
<1>7. Exec(m, Cur, FALSE) = <<s, 1>>
  BY <1>3 DEF Exec
<1>8. <<s, 1>>[1] = s /\ <<s, 1>>[2] = 1
  OBVIOUS
<1>9. ExecuteOne(m, FALSE) = AdvancePc(s, 1, TRUE)
  <2>1. (code[m.pc].op = "rep") = TRUE
    BY <1>3
  <2>. HIDE DEF s
  <2>. QED BY <1>3, <1>7, <1>8, <2>1 DEF ExecuteOne
<1>. HIDE DEF s
<1>10. /\ done \in Machines /\ done.pc = m.pc /\ done.la = m.la /\ done.lf = m.lf
       /\ x.la = m.la /\ x.lf = m.lf /\ x.pc = mask_pc(m.pc + 2)
       /\ y.la = m.la /\ y.lf = m.lf /\ y.pc = m.pc + 1
       /\ x = [s EXCEPT !.rep = FALSE, !.lc = s.temp, !.pc = mask_pc(m.pc + 2)]
       /\ [done EXCEPT !.pc = mask_pc(@ + 2)] = x
       /\ [s EXCEPT !.pc = mask_pc(@ + 1)] = y
  BY <1>5, <1>6 DEF Machines
<1>11. CASE Cur.arg = 0
  <2>1. RepAdvance(s, 1, TRUE) = <<done, 2>>
    BY <1>6, <1>11 DEF RepAdvance
  <2>2. <<done, 2>>[1] = done /\ <<done, 2>>[2] = 2
    OBVIOUS
  <2>. HIDE DEF done, x
  <2>3. AdvancePc(s, 1, TRUE) = LoopBack([done EXCEPT !.pc = mask_pc(@ + 2)], 2)
    BY <2>1, <2>2, Zenon DEF AdvancePc
  <2>4. m.lf => mask_pc(m.pc + 2) # mask_pc(m.la + 1)
    BY <1>1, <1>3, <1>11 DEF Orderly
  <2>5. m.lf => m.la + 1 # m.pc + 2
    BY <2>4
  <2>6. x.pc = mask_pc(m.pc + 2) /\ x.la = m.la /\ x.lf = m.lf
    BY <1>10
  <2>7. LoopBack(x, 2) = x
    BY <2>4, <2>6, NoLoopEnd
  <2>8. ExecuteOne(m, FALSE) = x
    BY <1>9, <1>10, <2>3, <2>7
  <2>. QED BY <1>4, <1>6, <1>10, <1>11, <2>5, <2>8 DEF s
<1>12. CASE Cur.arg # 0
  <2>1. RepAdvance(s, 1, TRUE) = <<s, 1>>
    BY <1>6, <1>12 DEF RepAdvance
  <2>2. AdvancePc(s, 1, TRUE) = LoopBack([s EXCEPT !.pc = mask_pc(@ + 1)], 1)
    BY <1>8, <2>1, Zenon DEF AdvancePc
  <2>3. m.lf => m.pc # m.la
    BY <1>1, <1>3 DEF Orderly
  <2>4. m.lf => m.pc + 1 # m.la + 1
    BY <1>1, <1>2, <2>3, LoopAssumption, SMTT(40) DEF Addrs
  <2>5. m.lf => mask_pc(m.pc + 1) # mask_pc(m.la + 1)
    BY <1>2, <1>4, <2>4, MaskEq
  <2>. HIDE DEF y
  <2>6. LoopBack(y, 1) = y
    BY <1>5, <1>10, <2>5, NoLoopEnd
  <2>. QED BY <1>4, <1>6, <1>9, <1>10, <1>12, <2>2, <2>6 DEF s, y
<1>. QED BY <1>11, <1>12

\* A REP that ends its block.
LEMMA MatchLegacyRep ==
    ASSUME RefInv, LegacyRep, Orderly
    PROVE  Matches
<1>. DEFINE t == ExecRep(m, Cur)
            u == [t EXCEPT !.rep = FALSE, !.lc = t.temp, !.pc = mask_pc(@ + 2)]
            w == [t EXCEPT !.pc = mask_pc(@ + 1)]
<1>1. Inv /\ Running /\ ~blk.rep /\ Cur.op = "rep"
  BY DEF RefInv, LegacyRep
<1>2. blk.rep = FALSE /\ Kept(code, cap)
  BY <1>1, InBlockFacts, KeepLegacyRep DEF Blocks
<1>3. /\ t \in Machines /\ t.pc = m.pc /\ m.pc + 1 \in Addrs
      /\ Cur.arg = 0 => ExecuteOne(m, FALSE) = [t EXCEPT !.rep = FALSE, !.lc = t.temp,
                                                         !.pc = mask_pc(m.pc + 2)]
      /\ Cur.arg # 0 => ExecuteOne(m, FALSE) = [t EXCEPT !.pc = m.pc + 1]
  BY <1>1, RepStep
<1>4. mask_pc(m.pc + 1) = m.pc + 1
  BY <1>3, MaskPc
<1>5. IF Cur.arg = 0 THEN Return(u, 0) ELSE Return(w, 0)
  BY DEF LegacyRep
<1>. HIDE DEF t
<1>6. (Cur.arg = 0 => u = ExecuteOne(m, FALSE)) /\ (Cur.arg # 0 => w = ExecuteOne(m, FALSE))
  BY <1>3, <1>4 DEF Machines
<1>7. LoopBack(u, 0) = u /\ LoopBack(w, 0) = w
  BY NoLoopEnd
<1>. HIDE DEF u, w
<1>8. Follow(ExecuteOne(m, FALSE))
  BY <1>5, <1>6, <1>7 DEF Return, Follow
<1>. QED BY <1>1, <1>2, <1>8, FollowMatches

\* Inside an inlined REP the architecture sees loop_rep.
LEMMA ArchInRep ==
    /\ m \in Machines /\ blk # NoBlk /\ blk.rep => Arch = [m EXCEPT !.rep = TRUE]
    /\ m' \in Machines /\ blk' # NoBlk /\ blk'.rep => Arch' = [m' EXCEPT !.rep = TRUE]
<1>1. ASSUME m \in Machines, blk # NoBlk, blk.rep PROVE Arch = [m EXCEPT !.rep = TRUE]
  <2>1. (m.rep \/ (blk # NoBlk /\ blk.rep)) = TRUE
    BY <1>1
  <2>. QED BY <1>1, <2>1 DEF Arch, Machines
<1>2. ASSUME m' \in Machines, blk' # NoBlk, blk'.rep PROVE Arch' = [m' EXCEPT !.rep = TRUE]
  <2>1. (m'.rep \/ (blk' # NoBlk /\ blk'.rep)) = TRUE
    BY <1>2
  <2>. QED BY <1>2, <2>1 DEF Arch, Machines
<1>. QED BY <1>1, <1>2

\* A running block is not the value that stands for none.
LEMMA BlockIsOne ==
    ASSUME NEW b \in Blocks
    PROVE  b # NoBlk
<1>1. b.end # 0 /\ NoBlk.end = 0
  BY LoopAssumption DEF Blocks, NoBlk
<1>. QED BY <1>1

\* A REP whose target is compiled in place.
LEMMA MatchInlineRep ==
    ASSUME RefInv, InlineRep, Orderly
    PROVE  Matches
<1>. DEFINE t == [m EXCEPT !.temp = m.lc, !.lc = Cur.arg]
            u == [t EXCEPT !.lc = t.temp]
            b == [blk EXCEPT !.rep = TRUE]
            x == ExecRep(m, Cur)
            p == m.pc + 2
<1>0. Inv /\ Running
  BY DEF RefInv, InlineRep
<1>1. /\ code \in Codes /\ cap \in Nat /\ Sane(m)
      /\ blk \in Blocks /\ ~m.armed /\ ~m.rep /\ Frames(m, blk.loops) /\ ~blk.rep
      /\ m.pc \in Addrs /\ m.pc \in Nat /\ m.pc < Size /\ IsInstruction(Cur)
      /\ Place(code, cap, blk, m.pc)
  BY <1>0, InBlockFacts DEF InlineRep
<1>2. InlinesRep(code, m.pc) /\ Cur.arg \in Lcs /\ Cur.op = "rep"
  BY <1>1 DEF InlineRep, IsInstruction, InlinesRep, Cur
<1>3. m.pc + 1 \in Addrs /\ Behind(code, m.pc) = p
  BY <1>1, <1>2, RepTarget
<1>4. Arrives(code, cap, blk, p) /\ Onward(blk, m.pc, p)
  <2>1. Arrives(code, cap, blk, Behind(code, m.pc)) /\ Onward(blk, m.pc, Behind(code, m.pc))
    BY <1>1, <1>2, OrdinaryPlace
  <2>. QED BY <1>3, <2>1
<1>5. /\ x \in Machines /\ p \in 1 .. Size
      /\ Cur.arg = 0 => /\ ExecuteOne(m, FALSE) = [x EXCEPT !.rep = FALSE, !.lc = x.temp,
                                                            !.pc = mask_pc(p)]
                        /\ m.lf => m.la + 1 # p
      /\ Cur.arg # 0 => ExecuteOne(m, FALSE) = [x EXCEPT !.pc = m.pc + 1]
  BY <1>0, <1>1, <1>2, RepStep
<1>6. x = [t EXCEPT !.rep = TRUE] /\ m \in Machines /\ m.rep = FALSE
  BY <1>1 DEF ExecRep, Sane, Machines
<1>. HIDE DEF x, p
<1>7. /\ Sane(t) /\ t.pc = m.pc /\ t.lc = Cur.arg /\ t.temp = m.lc
      /\ t.rep = m.rep /\ t.armed = m.armed /\ t.stk = m.stk /\ t.la = m.la
      /\ t.lf = m.lf /\ t.fv = m.fv /\ t.temp \in Lcs
  BY <1>1, <1>2 DEF Sane, Machines
<1>. HIDE DEF t
<1>8. /\ Sane(u) /\ u.rep = t.rep /\ u.armed = t.armed /\ u.stk = t.stk /\ u.la = t.la
      /\ u.lf = t.lf /\ u.fv = t.fv
  BY <1>7, LcFields
<1>. HIDE DEF u
<1>9. Clear(m, blk, m.pc)
  BY <1>0, <1>1 DEF RefInv, Running
<1>10. blk.rep = FALSE /\ Kept(code, cap)
  BY <1>0, <1>1, KeepInlineRep DEF Blocks
<1>11. CASE Cur.arg = 0
  <2>1. EndInstruction(u, blk, p)
    BY <1>3, <1>11 DEF InlineRep, t, u
  <2>2. /\ Frames(u, blk.loops) /\ (OuterLf(u, blk.loops) <=> OuterLf(m, blk.loops))
        /\ OuterLa(u, blk.loops) = OuterLa(m, blk.loops)
    BY <1>1, <1>7, <1>8, FramesSame
  <2>3. Clear(u, blk, m.pc)
    BY <1>9, <2>2, ClearSame
  <2>4. Clear(u, blk, p)
    BY <1>1, <1>4, <1>8, <2>3, OnwardClear
  <2>5. u.lf => u.la + 1 # p
    BY <1>5, <1>7, <1>8, <1>11
  <2>6. Follow([u EXCEPT !.pc = mask_pc(p)])
    BY <1>1, <1>4, <1>5, <1>8, <2>1, <2>2, <2>4, <2>5, QuietEnd
  <2>7. [u EXCEPT !.pc = mask_pc(p)] = [x EXCEPT !.rep = FALSE, !.lc = x.temp, !.pc = mask_pc(p)]
    <3>1. t \in Machines /\ t.rep = FALSE
      BY <1>6, <1>7 DEF Sane
    <3>. QED BY <1>6, <3>1 DEF u, Machines
  <2>8. Follow(ExecuteOne(m, FALSE))
    BY <1>5, <1>11, <2>6, <2>7
  <2>. QED BY <1>0, <1>10, <2>8, FollowMatches
<1>12. CASE Cur.arg # 0
  <2>. DEFINE w == [t EXCEPT !.pc = m.pc + 1]
  <2>1. m' = w /\ blk' = b
    BY <1>12 DEF InlineRep, GoOn, t
  <2>2. /\ b \in Blocks /\ b.rep /\ b.loops = blk.loops /\ b.stop = blk.stop /\ b.end = blk.end
    BY <1>1 DEF Blocks
  <2>3. /\ Sane(w) /\ w.pc = m.pc + 1 /\ w.stk = m.stk /\ w.la = m.la /\ w.lf = m.lf
        /\ w.fv = m.fv
    BY <1>1, <1>3, <1>7, PcFields
  <2>4. [w EXCEPT !.rep = TRUE] = [x EXCEPT !.pc = m.pc + 1]
    <3>1. t \in Machines
      BY <1>7 DEF Sane
    <3>. QED BY <1>6, <3>1 DEF Machines
  <2>. HIDE DEF w, b
  <2>5. w.pc - 1 = m.pc
    BY <1>1, <2>3
  <2>6. Clear(w, b, m.pc)
    <3>1. /\ OuterLf(w, blk.loops) <=> OuterLf(m, blk.loops)
          /\ OuterLa(w, blk.loops) = OuterLa(m, blk.loops)
      BY <2>3, FramesSame
    <3>. QED BY <1>9, <2>2, <3>1, ClearSame
  <2>7. Arch' = [w EXCEPT !.rep = TRUE]
    <3>1. w \in Machines /\ b # NoBlk
      BY <2>2, <2>3, BlockIsOne DEF Sane
    <3>. QED BY <2>1, <2>2, <3>1, ArchInRep
  <2>8. Arch = m
    BY <1>6, <1>10, ArchIs
  <2>9. Arch' = ExecuteOne(Arch, FALSE)
    BY <1>5, <1>12, <2>4, <2>7, <2>8
  <2>. QED BY <2>1, <2>2, <2>5, <2>6, <2>9 DEF Matches
<1>. QED BY <1>11, <1>12

\* One iteration of REP: LC counts down, and at the end comes back from TEMP.
LEMMA RepeatStep ==
    ASSUME Inv, Running, blk.rep, Cur.op = "plain", Cur.len = 1,
           NEW t, t = [m EXCEPT !.lc = Decremented(m.lc)],
           NEW u, u = [t EXCEPT !.lc = t.temp]
    PROVE  /\ t.lc # 0 => ExecuteOne(Arch, FALSE) = [t EXCEPT !.rep = TRUE]
           /\ t.lc = 0 => ExecuteOne(Arch, FALSE) = LoopBack([u EXCEPT !.pc = mask_pc(m.pc + 1)], 1)
<1>. DEFINE a == [m EXCEPT !.rep = TRUE]
            left == Decremented(m.lc)
            done == [a EXCEPT !.rep = FALSE, !.lc = a.temp]
            x == [a EXCEPT !.lc = left]
<1>1. /\ code \in Codes /\ Sane(m) /\ m \in Machines /\ ~m.rep /\ m.pc \in Addrs
      /\ m.pc \in Nat /\ blk \in Blocks
  BY InBlockFacts DEF Sane
<1>2. Arch = a
  BY <1>1, BlockIsOne, ArchInRep
<1>3. Cur = code[m.pc] /\ mask_pc(m.pc) = m.pc
  BY <1>1, MaskPc DEF Cur, At
<1>4. left \in Nat
  <2>1. m.lc \in Lcs
    BY <1>1, Registers
  <2>2. left \in Lcs
    BY <2>1, DecrementedType
  <2>. QED BY <2>2, LoopAssumption DEF Lcs
<1>. HIDE DEF left
<1>5. /\ a \in Machines /\ a.pc = m.pc /\ a.lc = m.lc /\ a.rep = TRUE /\ t.lc = left
      /\ done = u /\ x = [t EXCEPT !.rep = TRUE]
      /\ [x EXCEPT !.pc = mask_pc(@ + 0)] = x
      /\ [u EXCEPT !.pc = mask_pc(@ + 1)] = [u EXCEPT !.pc = mask_pc(m.pc + 1)]
  <2>1. m.rep = FALSE /\ m.pc + 0 = m.pc
    BY <1>1 DEF Machines
  <2>. QED BY <1>1, <1>3, <2>1 DEF Machines, left
<1>6. Exec(a, Cur, FALSE) = <<a, 1>>
  BY DEF Exec
<1>7. <<a, 1>>[1] = a /\ <<a, 1>>[2] = 1
  OBVIOUS
<1>. HIDE DEF a
<1>8. ExecuteOne(a, FALSE) = AdvancePc(a, 1, FALSE)
  <2>1. (code[a.pc].op = "rep") = FALSE
    BY <1>3, <1>5
  <2>. QED BY <1>3, <1>5, <1>6, <1>7, <2>1, ZenonT(60) DEF ExecuteOne
<1>9. CASE t.lc # 0
  <2>1. left > 0
    BY <1>4, <1>5, <1>9
  <2>2. RepAdvance(a, 1, FALSE) = <<x, 0>>
    BY <1>5, <2>1 DEF RepAdvance, left
  <2>3. <<x, 0>>[1] = x /\ <<x, 0>>[2] = 0
    OBVIOUS
  <2>. HIDE DEF x
  <2>4. AdvancePc(a, 1, FALSE) = LoopBack([x EXCEPT !.pc = mask_pc(@ + 0)], 0)
    BY <2>2, <2>3, Zenon DEF AdvancePc
  <2>5. LoopBack(x, 0) = x
    BY NoLoopEnd
  <2>. QED BY <1>2, <1>5, <1>8, <1>9, <2>4, <2>5
<1>10. CASE t.lc = 0
  <2>1. ~(left > 0)
    BY <1>4, <1>5, <1>10
  <2>2. RepAdvance(a, 1, FALSE) = <<u, 1>>
    BY <1>5, <2>1 DEF RepAdvance, left
  <2>3. <<u, 1>>[1] = u /\ <<u, 1>>[2] = 1
    OBVIOUS
  <2>4. AdvancePc(a, 1, FALSE) = LoopBack([u EXCEPT !.pc = mask_pc(@ + 1)], 1)
    BY <2>2, <2>3, Zenon DEF AdvancePc
  <2>. QED BY <1>2, <1>5, <1>8, <1>10, <2>4
<1>. QED BY <1>9, <1>10

\* One repetition of an inlined REP is one repetition of the step machine.
LEMMA MatchRepIteration ==
    ASSUME RefInv, RepIteration
    PROVE  Matches
<1>. DEFINE t == [Exec(m, Cur, FALSE)[1] EXCEPT !.lc = Decremented(m.lc)]
            b == [blk EXCEPT !.il = Cur.len, !.rep = t.lc # 0]
            u == [t EXCEPT !.lc = t.temp]
            q == m.pc - 1
            p == m.pc + 1
<1>0. Inv /\ Running /\ blk.rep
  BY DEF RefInv, RepIteration
<1>1. /\ code \in Codes /\ cap \in Nat /\ Sane(m)
      /\ blk \in Blocks /\ ~m.armed /\ ~m.rep /\ Frames(m, blk.loops)
      /\ m.pc \in Addrs /\ m.pc \in Nat /\ m.pc < Size /\ IsInstruction(Cur)
      /\ Place(code, cap, blk, q) /\ InlinesRep(code, q) /\ q \in Addrs
  BY <1>0, InBlockFacts
<1>2. /\ Cur.op = "plain" /\ Cur.len = 1 /\ Behind(code, q) = p /\ p \in 1 .. Size
  <2>1. q + 1 = m.pc /\ q + 2 = p
    BY <1>1
  <2>2. p \in 1 .. Size
    BY <1>1, LoopAssumption
  <2>. HIDE DEF q, p
  <2>. QED BY <1>1, <2>1, <2>2, RepTarget DEF Cur
<1>3. t = [m EXCEPT !.lc = Decremented(m.lc)]
  <2>1. Exec(m, Cur, FALSE) = <<m, Cur.len>>
    BY <1>2 DEF Exec
  <2>2. <<m, Cur.len>>[1] = m
    OBVIOUS
  <2>. QED BY <2>1, <2>2, Zenon
<1>4. /\ t.lc # 0 => ExecuteOne(Arch, FALSE) = [t EXCEPT !.rep = TRUE]
      /\ t.lc = 0 => ExecuteOne(Arch, FALSE) = LoopBack([u EXCEPT !.pc = mask_pc(p)], 1)
  BY <1>0, <1>2, <1>3, RepeatStep
<1>. HIDE DEF t
<1>5. /\ Sane(t) /\ t.pc = m.pc /\ t.rep = m.rep /\ t.armed = m.armed /\ t.stk = m.stk
      /\ t.la = m.la /\ t.lf = m.lf /\ t.fv = m.fv /\ t.temp \in Lcs
  <2>1. Decremented(m.lc) \in Lcs
    BY <1>1, Registers, DecrementedType
  <2>2. /\ Sane(t) /\ t.pc = m.pc /\ t.rep = m.rep /\ t.armed = m.armed /\ t.stk = m.stk
        /\ t.la = m.la /\ t.lf = m.lf /\ t.fv = m.fv
    BY <1>1, <1>3, <2>1, LcFields
  <2>3. t.temp \in Lcs
    BY <2>2, Registers
  <2>. QED BY <2>2, <2>3
<1>6. /\ Sane(u) /\ u.rep = t.rep /\ u.armed = t.armed /\ u.stk = t.stk /\ u.la = t.la
      /\ u.lf = t.lf /\ u.fv = t.fv
  BY <1>5, LcFields
<1>. HIDE DEF u
<1>7. /\ b \in Blocks /\ (b.rep <=> t.lc # 0) /\ b.loops = blk.loops /\ b.stop = blk.stop
      /\ b.end = blk.end /\ b.il # 0
  <2>. DEFINE r == t.lc # 0
  <2>1. r \in BOOLEAN /\ 1 \in 0 .. 2
    OBVIOUS
  <2>2. b = [blk EXCEPT !.il = 1, !.rep = r]
    BY <1>2
  <2>. HIDE DEF r, b
  <2>3. /\ b \in Blocks /\ b.rep = r /\ b.loops = blk.loops /\ b.stop = blk.stop
        /\ b.end = blk.end /\ b.il = 1
    BY <1>1, <2>1, <2>2 DEF Blocks
  <2>4. b.rep <=> t.lc # 0
    BY <2>1, <2>3 DEF r
  <2>5. b.il # 0
    BY <2>3
  <2>. QED BY <2>3, <2>4, <2>5
<1>8. Clear(m, blk, q)
  BY <1>0 DEF RefInv, Running
<1>9. Kept(code, cap)
  BY <1>0, KeepRepIteration
<1>10. CASE b.rep
  <2>. DEFINE w == [t EXCEPT !.pc = m.pc]
  <2>1. m' = w /\ blk' = b
    BY <1>10 DEF RepIteration, GoOn, t
  <2>2. w = t
    <3>1. t \in Machines
      BY <1>5 DEF Sane
    <3>. QED BY <1>5, <3>1 DEF Machines
  <2>. HIDE DEF w, b
  <2>3. Clear(t, b, q)
    <3>1. /\ OuterLf(t, blk.loops) <=> OuterLf(m, blk.loops)
          /\ OuterLa(t, blk.loops) = OuterLa(m, blk.loops)
      BY <1>5, FramesSame
    <3>. QED BY <1>7, <1>8, <3>1, ClearSame
  <2>4. Arch' = [t EXCEPT !.rep = TRUE]
    <3>1. t \in Machines /\ b # NoBlk
      BY <1>5, <1>7, BlockIsOne DEF Sane
    <3>. QED BY <1>10, <2>1, <2>2, <3>1, ArchInRep
  <2>5. Arch' = ExecuteOne(Arch, FALSE)
    BY <1>4, <1>7, <1>10, <2>4
  <2>. QED BY <1>5, <1>10, <2>1, <2>2, <2>3, <2>5 DEF Matches
<1>11. CASE ~b.rep
  <2>1. EndInstruction(u, b, p)
    BY <1>2, <1>11 DEF RepIteration, t, u
  <2>. HIDE DEF b
  <2>2. Arrives(code, cap, b, p) /\ Onward(b, q, p)
    <3>1. Arrives(code, cap, blk, Behind(code, q)) /\ Onward(blk, q, Behind(code, q))
      <4>. HIDE DEF q
      <4>. QED BY <1>1, OrdinaryPlace
    <3>. HIDE DEF q, p
    <3>. QED BY <1>2, <1>7, <3>1, PlaceSame DEF Onward
  <2>. HIDE DEF q, p
  <2>3. /\ Frames(u, b.loops) /\ (OuterLf(u, b.loops) <=> OuterLf(m, blk.loops))
        /\ OuterLa(u, b.loops) = OuterLa(m, blk.loops)
    BY <1>1, <1>5, <1>6, <1>7, FramesSame
  <2>4. Clear(u, b, q)
    BY <1>7, <1>8, <2>3, ClearSame
  <2>5. Clear(u, b, p) /\ (b.loops = << >> /\ u.lf /\ u.la + 1 = p => p = b.end)
    BY <1>1, <1>6, <1>7, <2>2, <2>4, OnwardClear
  <2>6. ~u.armed
    BY <1>1, <1>5, <1>6
  <2>7. 1 # 0
    OBVIOUS
  <2>8. Follow(LoopBack([u EXCEPT !.pc = mask_pc(p)], 1))
    BY <1>1, <1>2, <1>6, <1>7, <1>11, <2>1, <2>2, <2>3, <2>5, <2>6, <2>7, EndFollows
  <2>9. t.lc = 0
    BY <1>7, <1>11
  <2>10. m' = ExecuteOne(Arch, FALSE)
    BY <1>4, <2>8, <2>9 DEF Follow
  <2>11. blk' = NoBlk \/ blk'.rep = FALSE
    BY <1>9, <2>8 DEF Follow, Kept, BlockOk, Blocks
  <2>12. Arch' = m'
    BY <1>9, <2>11, ArchWillBe DEF Kept, Sane
  <2>. QED BY <2>8, <2>10, <2>11, <2>12 DEF Follow, Matches
<1>. QED BY <1>10, <1>11

\* The run loop enters a block only if the loop in progress does not end
\* inside of it.
LEMMA DispatchClear ==
    ASSUME Inv, Dispatch
    PROVE  blk'.rep = FALSE /\ Clear(m', blk', m'.pc)
<1>. DEFINE fresh == [stop |-> StopPc, end |-> EndPc(code, cap, m.pc, StopPc)]
            e == IF Usable(cache[m.pc], StopPc) THEN cache[m.pc] ELSE fresh
<1>1. /\ Sane(m) /\ m.pc \in Addrs /\ m.la \in Addrs
  BY Registers DEF Inv
<1>2. /\ blk' = [stop |-> e.stop, end |-> e.end, il |-> 0, rep |-> FALSE, loops |-> << >>]
      /\ m' = m
  BY DEF Dispatch
<1>3. blk' \in Blocks
  <2>1. Inv'
    BY KeepDispatch
  <2>2. blk'.rep = FALSE /\ blk'.loops = << >> /\ blk'.il = 0
    BY <1>2
  <2>3. blk' # NoBlk
    BY <2>2 DEF Dispatch, NoBlk
  <2>. QED BY <2>1, <2>3 DEF Inv, BlockOk
<1>4. /\ blk'.stop = e.stop /\ blk'.end = e.end /\ blk'.loops = << >> /\ blk'.rep = FALSE
      /\ e.end \in 1 .. Size
  BY <1>2, <1>3 DEF Blocks
<1>5. m.lf => m.la + 1 <= m.pc \/ m.la + 1 >= e.end \/ e.stop = m.la + 1
  <2>. SUFFICES ASSUME m.lf
                PROVE  m.la + 1 <= m.pc \/ m.la + 1 >= e.end \/ e.stop = m.la + 1
    OBVIOUS
  <2>1. m.la \in Nat /\ m.pc \in Nat /\ Size \in Nat /\ m.la + 1 <= Size
    BY <1>1, LoopAssumption DEF Addrs
  <2>2. CASE m.la + 1 = Size
    BY <1>4, <2>2
  <2>3. CASE m.la + 1 # Size
    <3>1. m.la + 1 \in Addrs
      BY <2>1, <2>3 DEF Addrs
    <3>2. StopPc = m.la + 1
      BY <3>1, MaskPc DEF StopPc
    <3>3. CASE Usable(cache[m.pc], StopPc)
      <4>1. ~(m.la + 1 > m.pc /\ m.la + 1 < e.end)
        BY <3>2, <3>3 DEF Usable
      <4>. HIDE DEF e
      <4>. QED BY <1>4, <2>1, <4>1
    <3>4. CASE ~Usable(cache[m.pc], StopPc)
      <4>1. e.stop = StopPc
        BY <3>4
      <4>. QED BY <3>2, <4>1
    <3>. QED BY <3>3, <3>4
  <2>. QED BY <2>2, <2>3
<1>. HIDE DEF e
<1>6. OuterLf(m', blk'.loops) = m.lf /\ OuterLa(m', blk'.loops) = m.la
  BY <1>2, <1>4 DEF OuterLf, OuterLa
<1>7. \A k \in 1 .. Len(blk'.loops) : blk'.loops[k].start > 0
  <2>1. Len(blk'.loops) = 0
    BY <1>4
  <2>. QED BY <2>1
<1>. QED BY <1>2, <1>4, <1>5, <1>6, <1>7 DEF Clear

\* Every step is one of the reference, or none.
LEMMA NextRef ==
    ASSUME RefInv, Orderly, [Next]_vars
    PROVE  RefInv' /\ [Reference!Step]_<<code, Arch>>
<1>1. Inv /\ LaKept
  BY DEF RefInv, Orderly
<1>2. Inv'
  BY <1>1, NextInv
<1>3. m \in Machines /\ m' \in Machines /\ Sane(m) /\ code \in Codes
  BY <1>1, <1>2 DEF Inv, Sane
<1>4. ASSUME NEW taken \in BOOLEAN, Arch' = ExecuteOne(Arch, taken), code' = code
      PROVE  Reference!Step
  BY <1>4, SameExecuteOne DEF Reference!Step
<1>5. ASSUME Matches, code' = code PROVE RefInv' /\ Reference!Step
  BY <1>2, <1>4, <1>5 DEF Matches, RefInv
<1>6. CASE Dispatch
  <2>1. blk'.rep = FALSE /\ Clear(m', blk', m'.pc)
    BY <1>1, <1>6, DispatchClear
  <2>2. blk = NoBlk /\ m' = m /\ code' = code
    BY <1>6 DEF Dispatch
  <2>3. Arch = m
    BY <1>3, <2>2, ArchIs
  <2>4. Arch' = m'
    BY <1>3, <2>1, ArchWillBe
  <2>5. RefInv'
    BY <1>2, <2>1 DEF RefInv
  <2>. QED BY <2>2, <2>3, <2>4, <2>5
<1>7. CASE StepInRun
  <2>1. blk = NoBlk /\ blk' = NoBlk /\ code' = code
    BY <1>7 DEF StepInRun, Step
  <2>2. PICK taken \in BOOLEAN : m' = ExecuteOne(m, taken)
    BY <1>7 DEF StepInRun, Step
  <2>3. Arch = m /\ Arch' = m'
    BY <1>3, <2>1, ArchIs, ArchWillBe
  <2>4. RefInv'
    BY <1>2, <2>1 DEF RefInv
  <2>. QED BY <1>4, <2>1, <2>2, <2>3, <2>4
<1>8. CASE InBlock
  <2>1. code' = code
    BY <1>8 DEF InBlock, RepIteration, InlineRep, LegacyRep, InlineDo, Skip, Terminator,
                Ordinary, Running
  <2>2. Matches
    BY <1>8, MatchRepIteration, MatchInlineRep, MatchLegacyRep, MatchInlineDo, MatchSkip,
       MatchTerminator, MatchOrdinary DEF InBlock
  <2>. QED BY <1>5, <2>1, <2>2
<1>9. CASE UNCHANGED vars
  <2>1. m' = m /\ blk' = blk /\ code' = code
    BY <1>9 DEF vars
  <2>2. Arch' = Arch
    BY <2>1 DEF Arch
  <2>3. RefInv'
    BY <1>2, <2>1 DEF RefInv
  <2>. QED BY <2>1, <2>2, <2>3
<1>. QED BY <1>6, <1>7, <1>8, <1>9 DEF Next

\* The initial states are initial states of the reference.
LEMMA InitRef == Init => RefInv /\ Reference!StepInit
<1>. SUFFICES ASSUME Init PROVE RefInv /\ Reference!StepInit
  OBVIOUS
<1>1. Inv /\ blk = NoBlk /\ m = Machine /\ code \in Codes
  BY InitInv DEF Init, StepInit
<1>2. m \in Machines
  BY <1>1 DEF Inv, Sane
<1>3. Arch = Machine
  BY <1>1, <1>2, ArchIs
<1>4. Reference!Machine = Machine
  BY DEF Machine, Reference!Machine, EmptyStack, Reference!EmptyStack, Slots, Reference!Slots
<1>. QED BY <1>1, <1>3, <1>4 DEF RefInv, Reference!StepInit

\* emit_block, emit_do_inline, emit_rep_inline and the run loop: a program that
\* keeps to the manual's rules on loops (Orderly) executes in blocks, with its
\* loops inlined, preempted and resumed, the same instructions with the same
\* loop state as under execute_one, whatever the program, the caps and the
\* sizes.
THEOREM BlocksImplementStep == Spec /\ []Orderly => ImplementsStep
<1>1. Init => RefInv /\ Reference!StepInit
  BY InitRef
<1>2. RefInv /\ Orderly /\ [Next]_vars => RefInv' /\ [Reference!Step]_<<code, Arch>>
  BY NextRef
<1>. QED BY <1>1, <1>2, PTL DEF Spec, ImplementsStep, Reference!StepSpec

===============================================================================
