-------------------------- MODULE DirtyBitmapProofs ---------------------------
(***************************************************************************)
(* Proofs about the dirty bitmap for every size of P memory, every width   *)
(* of an array element and every bound on the addresses callers pass.  An  *)
(* address is a place, element and bit; the masks of is_range_dirty and    *)
(* clear_dirty_range are first shown to select exactly the places of a     *)
(* range, and everything else follows from that.                           *)
(***************************************************************************)
EXTENDS DirtyBitmap, TLAPS

USE BitmapAssumption

\* Division by the width of an element: an address is element * width + bit.
LEMMA DivMod ==
    ASSUME NEW a \in Nat
    PROVE  /\ a \div WordBits \in Nat
           /\ a % WordBits \in AllBits
           /\ a = (a \div WordBits) * WordBits + (a % WordBits)
BY Z3 DEF AllBits

\* Elements do not overlap.
LEMMA ElementOrder ==
    ASSUME NEW p \in Int, NEW q \in Int
    PROVE  /\ p * WordBits \in Int
           /\ p < q => p * WordBits + WordBits <= q * WordBits
           /\ p <= q => p * WordBits <= q * WordBits
BY Z3

\* The place of an address is unique.
LEMMA PlaceUnique ==
    ASSUME NEW w \in Nat, NEW b \in AllBits
    PROVE  /\ w * WordBits + b \in Nat
           /\ (w * WordBits + b) \div WordBits = w
           /\ (w * WordBits + b) % WordBits = b
BY Z3 DEF AllBits

\* The array has an element for every tracked word, and no more than needed.
LEMMA ArraySize ==
    /\ NumWords \in Nat
    /\ PramSize <= NumWords * WordBits
    /\ NumWords * WordBits < PramSize + WordBits
<1>. DEFINE n == PramSize + WordBits - 1
<1>1. n \in Nat
  BY DEF n
<1>2. n \div WordBits \in Nat /\ n % WordBits \in AllBits
      /\ n = (n \div WordBits) * WordBits + (n % WordBits)
  BY <1>1, DivMod
<1>3. NumWords = n \div WordBits
  BY DEF NumWords, n
<1>4. NumWords * WordBits \in Int
  BY <1>2, <1>3, ElementOrder
<1>. QED BY <1>2, <1>3, <1>4 DEF AllBits, n

\* An address lies in the array exactly when its element exists; every
\* tracked address does.
LEMMA ElementExists ==
    ASSUME NEW a \in Nat
    PROVE  /\ a \in 0 .. NumWords * WordBits - 1 <=> a \div WordBits \in 0 .. NumWords - 1
           /\ a < PramSize => a \in 0 .. NumWords * WordBits - 1
<1>. DEFINE q == a \div WordBits
<1>1. q \in Nat /\ a % WordBits \in AllBits /\ a = q * WordBits + (a % WordBits)
  BY DivMod DEF q
<1>2. /\ NumWords \in Nat /\ NumWords * WordBits \in Int /\ q * WordBits \in Int
      /\ PramSize <= NumWords * WordBits
      /\ q < NumWords => q * WordBits + WordBits <= NumWords * WordBits
      /\ NumWords <= q => NumWords * WordBits <= q * WordBits
  BY <1>1, ArraySize, ElementOrder
<1>3. a % WordBits \in Int /\ 0 <= a % WordBits /\ a % WordBits < WordBits
  BY <1>1 DEF AllBits
<1>. HIDE DEF q
<1>. QED BY <1>1, <1>2, <1>3 DEF q
-------------------------------------------------------------------------------
(* The masks.                                                              *)

\* The places the code's three cases select for the range [lo, h).
Selected(lo, h, w, b) ==
    LET first == lo \div WordBits
        last == (h - 1) \div WordBits
    IN  IF first = last
        THEN w = first /\ b \in RangeMask(lo % WordBits, Lesser(h - first * WordBits, WordBits))
        ELSE \/ w = first /\ b \in HighMask(lo % WordBits)
             \/ w \in first + 1 .. last - 1
             \/ w = last /\ b \in LowMask(h - last * WordBits)

\* Place <<w, b>> is selected exactly when its address is in [lo, h).
LEMMA MasksExact ==
    ASSUME NEW lo \in Nat, NEW h \in Nat, lo < h, NEW w \in Nat, NEW b \in AllBits
    PROVE  /\ Selected(lo, h, w, b) <=> w * WordBits + b \in lo .. h - 1
           /\ lo \div WordBits \in Nat /\ (h - 1) \div WordBits \in Nat
           /\ lo \div WordBits <= (h - 1) \div WordBits
<1>. DEFINE first == lo \div WordBits
            last == (h - 1) \div WordBits
            r == lo % WordBits
            s == (h - 1) % WordBits
<1>1. /\ first \in Nat /\ r \in 0 .. WordBits - 1 /\ lo = first * WordBits + r
      /\ last \in Nat /\ s \in 0 .. WordBits - 1 /\ h - 1 = last * WordBits + s
  <2>1. h - 1 \in Nat
    OBVIOUS
  <2>. QED BY <2>1, DivMod DEF AllBits, first, last, r, s
<1>2. /\ first * WordBits \in Int /\ last * WordBits \in Int /\ w * WordBits \in Int
      /\ last < first => last * WordBits + WordBits <= first * WordBits
      /\ w < first => w * WordBits + WordBits <= first * WordBits
      /\ first < w => first * WordBits + WordBits <= w * WordBits
      /\ w < last => w * WordBits + WordBits <= last * WordBits
      /\ last < w => last * WordBits + WordBits <= w * WordBits
  BY <1>1, ElementOrder
<1>3. b \in Int /\ 0 <= b /\ b < WordBits
  BY DEF AllBits
<1>4. Selected(lo, h, w, b) <=>
        IF first = last
        THEN w = first /\ b \in RangeMask(r, Lesser(h - first * WordBits, WordBits))
        ELSE \/ w = first /\ b \in HighMask(r)
             \/ w \in first + 1 .. last - 1
             \/ w = last /\ b \in LowMask(h - last * WordBits)
  BY DEF Selected, first, last, r
<1>. HIDE DEF first, last, r, s
<1>5. first <= last
  BY <1>1, <1>2
<1>. DEFINE A == first * WordBits  Z == last * WordBits  V == w * WordBits
<1>6. /\ A \in Int /\ Z \in Int /\ V \in Int
      /\ lo = A + r /\ h = Z + s + 1
      /\ w < first => V + WordBits <= A
      /\ first < w => A + WordBits <= V
      /\ w < last => V + WordBits <= Z
      /\ last < w => Z + WordBits <= V
      /\ w = first => V = A
      /\ w = last => V = Z
      /\ first = last => A = Z
  BY <1>1, <1>2
<1>7. /\ b \in HighMask(r) <=> r <= b
      /\ b \in LowMask(h - Z) <=> b <= s
      /\ first = last => (b \in RangeMask(r, Lesser(h - A, WordBits)) <=> r <= b /\ b <= s)
  <2>. HIDE DEF A, Z, V
  <2>. QED BY <1>1, <1>3, <1>6 DEF HighMask, LowMask, RangeMask, Lesser, AllBits
<1>8. Selected(lo, h, w, b) <=>
        IF first = last THEN w = first /\ r <= b /\ b <= s
        ELSE \/ w = first /\ r <= b
             \/ w \in first + 1 .. last - 1
             \/ w = last /\ b <= s
  BY <1>4, <1>7
<1>9. Selected(lo, h, w, b) <=> V + b \in lo .. h - 1
  <2>. HIDE DEF A, Z, V
  <2>1. CASE w < first
    BY <2>1, <1>1, <1>3, <1>5, <1>6, <1>8
  <2>2. CASE w = first
    BY <2>2, <1>1, <1>3, <1>5, <1>6, <1>8
  <2>3. CASE first < w /\ w < last
    BY <2>3, <1>1, <1>3, <1>5, <1>6, <1>8
  <2>4. CASE first < w /\ w = last
    BY <2>4, <1>1, <1>3, <1>5, <1>6, <1>8
  <2>5. CASE last < w
    BY <2>5, <1>1, <1>3, <1>5, <1>6, <1>8
  <2>. QED BY <2>1, <2>2, <2>3, <2>4, <2>5, <1>1, <1>5
<1>. QED BY <1>1, <1>5, <1>9 DEF first, last
-------------------------------------------------------------------------------
(* The state.                                                              *)

\* An address is marked exactly when its bit is set, and stays inside the
\* tracked words.
LEMMA MarkedPlace ==
    ASSUME NEW w \in 0 .. NumWords - 1, NEW b \in AllBits
    PROVE  w * WordBits + b \in Marked <=> b \in dirty[w]
<1>1. w \in Nat
  BY ArraySize
<1>2. /\ w * WordBits + b \in Nat
      /\ (w * WordBits + b) \div WordBits = w
      /\ (w * WordBits + b) % WordBits = b
  BY <1>1, PlaceUnique
<1>3. w * WordBits + b \in 0 .. NumWords * WordBits - 1
  BY <1>2, ElementExists
<1>. QED BY <1>2, <1>3 DEF Marked

\* Every marked address is a place of the array.
LEMMA MarkedAddress ==
    ASSUME NEW a \in Marked
    PROVE  /\ a \in Nat
           /\ a \div WordBits \in 0 .. NumWords - 1 /\ a % WordBits \in AllBits
           /\ a = (a \div WordBits) * WordBits + (a % WordBits)
           /\ a % WordBits \in dirty[a \div WordBits]
<1>1. a \in 0 .. NumWords * WordBits - 1 /\ a % WordBits \in dirty[a \div WordBits]
  BY DEF Marked
<1>2. a \in Nat
  BY <1>1
<1>. QED BY <1>1, <1>2, DivMod, ElementExists

\* mark_dirty keeps the array well typed and adds exactly its address.
LEMMA MarkExact ==
    ASSUME TypeOK, NEW addr \in Nat, MarkDirty(addr)
    PROVE  TypeOK' /\ Marked' = Marked \cup {addr}
<1>. DEFINE q == addr \div WordBits  r == addr % WordBits
<1>1. addr < PramSize /\ dirty' = [dirty EXCEPT ![q] = @ \cup {r}]
  BY DEF MarkDirty
<1>2. q \in 0 .. NumWords - 1 /\ r \in AllBits /\ addr = q * WordBits + r
      /\ addr \in 0 .. NumWords * WordBits - 1
  BY <1>1, DivMod, ElementExists
<1>3. dirty' \in [0 .. NumWords - 1 -> SUBSET AllBits]
  BY <1>1, <1>2 DEF TypeOK
<1>4. ASSUME NEW a \in 0 .. NumWords * WordBits - 1
      PROVE  a % WordBits \in dirty'[a \div WordBits]
               <=> a % WordBits \in dirty[a \div WordBits] \/ a = addr
  <2>1. a \in Nat
    BY ArraySize
  <2>2. a \div WordBits \in 0 .. NumWords - 1 /\ a % WordBits \in AllBits
        /\ a = (a \div WordBits) * WordBits + (a % WordBits)
    BY <2>1, DivMod, ElementExists
  <2>3. a = addr <=> a \div WordBits = q /\ a % WordBits = r
    BY <1>2, <2>2
  <2>. HIDE DEF q, r
  <2>. QED BY <1>1, <1>2, <2>2, <2>3 DEF TypeOK
<1>5. Marked' = Marked \cup {addr}
  <2>1. Marked' = {a \in 0 .. NumWords * WordBits - 1 :
                       a % WordBits \in dirty'[a \div WordBits]}
    BY DEF Marked, NumWords
  <2>. QED BY <1>2, <1>4, <2>1 DEF Marked
<1>. QED BY <1>1, <1>3, <1>5 DEF TypeOK, NumWords, AllBits

\* What clear_dirty_range leaves in each element.
LEMMA ClearedElements ==
    ASSUME TypeOK, NEW lo \in Nat, NEW hi \in Nat, ClearDirtyRange(lo, hi),
           NEW w \in 0 .. NumWords - 1
    PROVE  /\ lo < Lesser(hi, PramSize)
           /\ dirty' \in [0 .. NumWords - 1 -> SUBSET AllBits]
           /\ \A b \in AllBits : b \in dirty'[w] <=>
                 b \in dirty[w] /\ ~Selected(lo, Lesser(hi, PramSize), w, b)
<1>. DEFINE h == Lesser(hi, PramSize)
            first == lo \div WordBits
            last == (h - 1) \div WordBits
            mask == RangeMask(lo % WordBits, Lesser(h - first * WordBits, WordBits))
<1>1. /\ lo < h
      /\ dirty' = IF first = last
                  THEN [dirty EXCEPT ![first] = @ \ mask]
                  ELSE [v \in 0 .. NumWords - 1 |->
              CASE v = first -> dirty[v] \ HighMask(lo % WordBits)
                [] v \in first + 1 .. last - 1 -> {}
                [] v = last -> dirty[v] \ LowMask(h - last * WordBits)
                [] OTHER -> dirty[v]]
  BY DEF ClearDirtyRange
<1>2. h \in Nat /\ h <= PramSize
  BY DEF Lesser
<1>3. first \in Nat /\ last \in Nat /\ first <= last
  <2>1. 0 \in Nat /\ 0 \in AllBits
    BY DEF AllBits
  <2>. QED BY <1>1, <1>2, <2>1, MasksExact
<1>4. ASSUME NEW b \in AllBits
      PROVE  Selected(lo, h, w, b) <=>
               IF first = last THEN w = first /\ b \in mask
               ELSE \/ w = first /\ b \in HighMask(lo % WordBits)
                    \/ w \in first + 1 .. last - 1
                    \/ w = last /\ b \in LowMask(h - last * WordBits)
  BY DEF Selected
<1>5. dirty \in [0 .. NumWords - 1 -> SUBSET AllBits]
  BY DEF TypeOK
<1>. HIDE DEF h, first, last, mask
<1>6. CASE first = last
  <2>1. dirty' = [dirty EXCEPT ![first] = @ \ mask]
    BY <1>1, <1>6
  <2>. QED BY <1>1, <1>4, <1>5, <1>6, <2>1 DEF h
<1>7. CASE first # last
  <2>1. dirty' = [v \in 0 .. NumWords - 1 |->
              CASE v = first -> dirty[v] \ HighMask(lo % WordBits)
                [] v \in first + 1 .. last - 1 -> {}
                [] v = last -> dirty[v] \ LowMask(h - last * WordBits)
                [] OTHER -> dirty[v]]
    BY <1>1, <1>7
  <2>2. ASSUME NEW v \in 0 .. NumWords - 1
        PROVE  /\ v = first => dirty'[v] = dirty[v] \ HighMask(lo % WordBits)
               /\ v \in first + 1 .. last - 1 => dirty'[v] = {}
               /\ v = last => dirty'[v] = dirty[v] \ LowMask(h - last * WordBits)
               /\ v # first /\ v # last /\ v \notin first + 1 .. last - 1
                    => dirty'[v] = dirty[v]
    BY <1>3, <1>7, <2>1
  <2>3. \A v \in 0 .. NumWords - 1 : dirty'[v] \subseteq dirty[v]
    BY <2>2
  <2>4. dirty' \in [0 .. NumWords - 1 -> SUBSET AllBits]
    BY <1>5, <2>1, <2>3
  <2>5. ASSUME NEW b \in AllBits
        PROVE  b \in dirty'[w] <=> b \in dirty[w] /\ ~Selected(lo, h, w, b)
    BY <1>3, <1>4, <1>7, <2>2
  <2>. QED BY <1>1, <2>4, <2>5 DEF h
<1>. QED BY <1>6, <1>7

\* clear_dirty_range keeps the array well typed and removes exactly its range.
LEMMA ClearExact ==
    ASSUME TypeOK, NEW lo \in Nat, NEW hi \in Nat, ClearDirtyRange(lo, hi)
    PROVE  TypeOK' /\ Marked' = Marked \ (lo .. hi - 1)
<1>. DEFINE h == Lesser(hi, PramSize)
<1>1. lo < h
  BY DEF ClearDirtyRange
<1>2. h \in Nat /\ h <= hi /\ h <= PramSize /\ (h = hi \/ h = PramSize)
  BY DEF Lesser
<1>3. dirty' \in [0 .. NumWords - 1 -> SUBSET AllBits]
  <2>1. 0 \in 0 .. NumWords - 1
    <3>1. lo \div WordBits \in 0 .. NumWords - 1
      BY <1>1, <1>2, ElementExists
    <3>. QED BY <3>1, ArraySize
  <2>. QED BY <2>1, ClearedElements
<1>4. ASSUME NEW a \in 0 .. NumWords * WordBits - 1
      PROVE  a % WordBits \in dirty'[a \div WordBits]
               <=> a % WordBits \in dirty[a \div WordBits] /\ a \notin lo .. h - 1
  <2>1. a \in Nat
    BY ArraySize
  <2>2. a \div WordBits \in 0 .. NumWords - 1 /\ a % WordBits \in AllBits
        /\ a = (a \div WordBits) * WordBits + (a % WordBits)
        /\ a \div WordBits \in Nat
    BY <2>1, DivMod, ElementExists
  <2>3. Selected(lo, h, a \div WordBits, a % WordBits) <=> a \in lo .. h - 1
    <3>. DEFINE w == a \div WordBits  b == a % WordBits
    <3>. HIDE DEF w, b, h
    <3>1. w \in Nat /\ b \in AllBits /\ a = w * WordBits + b
      BY <2>2 DEF w, b
    <3>2. Selected(lo, h, w, b) <=> a \in lo .. h - 1
      BY <1>1, <1>2, <3>1, MasksExact
    <3>. QED BY <3>2 DEF w, b
  <2>. QED BY <2>2, <2>3, ClearedElements
<1>5. Marked' = Marked \ (lo .. h - 1)
  <2>1. Marked' = {a \in 0 .. NumWords * WordBits - 1 :
                       a % WordBits \in dirty'[a \div WordBits]}
    BY DEF Marked, NumWords
  <2>. QED BY <1>4, <2>1 DEF Marked
<1>6. Marked \ (lo .. h - 1) = Marked \ (lo .. hi - 1)
  <2>1. ASSUME NEW a \in Marked PROVE a \in Nat /\ a < PramSize
    BY <2>1 DEF TypeOK
  <2>2. ASSUME NEW a \in Marked PROVE a \in lo .. h - 1 <=> a \in lo .. hi - 1
    BY <1>2, <2>1
  <2>. QED BY <2>2
<1>. QED BY <1>3, <1>5, <1>6 DEF TypeOK, NumWords, AllBits

\* is_range_dirty answers exactly, in every well-typed state.
LEMMA QueryAnswers ==
    ASSUME TypeOK, NEW lo \in Nat, NEW hi \in Nat
    PROVE  IsRangeDirty(lo, hi) <=> \E a \in lo .. hi - 1 : a \in Marked
<1>. DEFINE h == Lesser(hi, PramSize)
            first == lo \div WordBits
            last == (h - 1) \div WordBits
<1>1. h \in Nat /\ h <= hi /\ h <= PramSize /\ (h = hi \/ h = PramSize)
  BY DEF Lesser
<1>2. ASSUME NEW a \in Marked
      PROVE  a \in Nat /\ (a \in lo .. hi - 1 <=> a \in lo .. h - 1)
  <2>1. a \in 0 .. PramSize - 1
    BY DEF TypeOK
  <2>. QED BY <1>1, <2>1
<1>3. CASE ~(lo < h)
  <2>1. ~IsRangeDirty(lo, hi)
    BY <1>3 DEF IsRangeDirty
  <2>2. ~\E a \in lo .. hi - 1 : a \in Marked
    BY <1>1, <1>2, <1>3
  <2>. QED BY <2>1, <2>2
<1>4. CASE lo < h
  <2>1. first \in Nat /\ last \in Nat /\ first <= last
    <3>1. 0 \in Nat /\ 0 \in AllBits
      BY DEF AllBits
    <3>. QED BY <1>1, <1>4, <3>1, MasksExact
  <2>2. last < NumWords
    <3>1. h - 1 \in Nat /\ h - 1 < PramSize
      BY <1>1, <1>4
    <3>2. last \in 0 .. NumWords - 1
      BY <3>1, ElementExists
    <3>. QED BY <3>2, ArraySize
  <2>3. dirty \in [0 .. NumWords - 1 -> SUBSET AllBits] /\ NumWords \in Nat
    BY ArraySize DEF TypeOK
  <2>4. IsRangeDirty(lo, hi) <=>
          \E w \in 0 .. NumWords - 1 : \E b \in dirty[w] : Selected(lo, h, w, b)
    <3>. DEFINE rm == RangeMask(lo % WordBits, Lesser(h - first * WordBits, WordBits))
                hm == HighMask(lo % WordBits)
                lm == LowMask(h - last * WordBits)
    <3>1. IsRangeDirty(lo, hi) <=>
            IF first = last THEN dirty[first] \cap rm # {}
            ELSE \/ dirty[first] \cap hm # {}
                 \/ \E w \in first + 1 .. last - 1 : dirty[w] # {}
                 \/ dirty[last] \cap lm # {}
      BY <1>4 DEF IsRangeDirty
    <3>2. ASSUME NEW w, NEW b
          PROVE  Selected(lo, h, w, b) <=>
                   IF first = last THEN w = first /\ b \in rm
                   ELSE \/ w = first /\ b \in hm
                        \/ w \in first + 1 .. last - 1
                        \/ w = last /\ b \in lm
      BY DEF Selected
    <3>3. first \in 0 .. NumWords - 1 /\ last \in 0 .. NumWords - 1
          /\ \A w \in first + 1 .. last - 1 : w \in 0 .. NumWords - 1
      BY <2>1, <2>2, <2>3
    <3>. HIDE DEF first, last, h, rm, hm, lm
    <3>4. CASE first = last
      BY <3>1, <3>2, <3>3, <3>4
    <3>5. CASE first # last
      <4>1. ASSUME IsRangeDirty(lo, hi)
            PROVE  \E w \in 0 .. NumWords - 1 : \E b \in dirty[w] : Selected(lo, h, w, b)
        BY <3>1, <3>2, <3>3, <3>5, <4>1
      <4>2. ASSUME NEW w \in 0 .. NumWords - 1, NEW b \in dirty[w], Selected(lo, h, w, b)
            PROVE  IsRangeDirty(lo, hi)
        BY <3>1, <3>2, <3>3, <3>5, <4>2
      <4>. QED BY <4>1, <4>2
    <3>. QED BY <3>4, <3>5
  <2>5. ASSUME NEW w \in 0 .. NumWords - 1, NEW b \in dirty[w], Selected(lo, h, w, b)
        PROVE  \E a \in lo .. h - 1 : a \in Marked
    <3>1. w \in Nat /\ b \in AllBits
      BY <2>3
    <3>2. w * WordBits + b \in lo .. h - 1
      BY <1>1, <1>4, <2>5, <3>1, MasksExact
    <3>3. w * WordBits + b \in Marked
      BY <2>5, <3>1, MarkedPlace
    <3>. QED BY <3>2, <3>3
  <2>6. ASSUME NEW a \in Marked, a \in lo .. h - 1
        PROVE  \E w \in 0 .. NumWords - 1 : \E b \in dirty[w] : Selected(lo, h, w, b)
    <3>. DEFINE w == a \div WordBits  b == a % WordBits
    <3>1. w \in 0 .. NumWords - 1 /\ b \in AllBits /\ b \in dirty[w] /\ a = w * WordBits + b
      BY MarkedAddress
    <3>2. w \in Nat
      BY <3>1, <2>3
    <3>3. Selected(lo, h, w, b)
      BY <1>1, <1>4, <2>6, <3>1, <3>2, MasksExact
    <3>. HIDE DEF w, b
    <3>. QED BY <3>1, <3>3
  <2>. HIDE DEF h
  <2>. QED BY <1>2, <2>4, <2>5, <2>6
<1>. QED BY <1>3, <1>4

\* The empty array is well typed.
LEMMA InitTypeOK == Init => TypeOK
<1>. SUFFICES ASSUME Init PROVE TypeOK
  OBVIOUS
<1>1. dirty \in [0 .. NumWords - 1 -> SUBSET AllBits]
  BY DEF Init
<1>2. ASSUME NEW a \in Marked PROVE FALSE
  BY <1>2, MarkedAddress DEF Init
<1>. QED BY <1>1, <1>2 DEF TypeOK

\* Every call keeps the array well typed and its padding clear.
LEMMA NextTypeOK == TypeOK /\ [Next]_dirty => TypeOK'
<1>. SUFFICES ASSUME TypeOK, [Next]_dirty PROVE TypeOK'
  OBVIOUS
<1>1. ASSUME NEW addr \in 0 .. AddrBound, MarkDirty(addr) PROVE TypeOK'
  <2>1. addr \in Nat
    OBVIOUS
  <2>. QED BY <1>1, <2>1, MarkExact
<1>2. ASSUME NEW lo \in 0 .. AddrBound, NEW hi \in 0 .. AddrBound, ClearDirtyRange(lo, hi)
      PROVE  TypeOK'
  <2>1. lo \in Nat /\ hi \in Nat
    OBVIOUS
  <2>. QED BY <1>2, <2>1, ClearExact
<1>3. CASE UNCHANGED dirty
  BY <1>3 DEF TypeOK, Marked, NumWords, AllBits
<1>. QED BY <1>1, <1>2, <1>3 DEF Next

\* In every reachable state is_range_dirty reports exactly the marked
\* addresses, and the padding bits of the last element are clear.
THEOREM AlwaysQueryExact == Spec => []QueryExact
<1>1. TypeOK => QueryExact
  <2>. SUFFICES ASSUME TypeOK, NEW lo \in 0 .. AddrBound, NEW hi \in 0 .. AddrBound
                PROVE  IsRangeDirty(lo, hi) <=> \E a \in lo .. hi - 1 : a \in Marked
    BY DEF QueryExact
  <2>1. lo \in Nat /\ hi \in Nat
    OBVIOUS
  <2>. QED BY <2>1, QueryAnswers
<1>. QED BY <1>1, InitTypeOK, NextTypeOK, PTL DEF Spec

\* Every step of mark_dirty adds its address and nothing else, and every
\* clear_dirty_range removes its range and nothing else.
THEOREM AlwaysStepsExact == Spec => StepsExact
<1>. DEFINE A == /\ \A a \in 0 .. AddrBound :
                       MarkDirty(a) => Marked' = Marked \cup {a}
                 /\ \A lo, hi \in 0 .. AddrBound :
                       ClearDirtyRange(lo, hi) => Marked' = Marked \ (lo .. hi - 1)
<1>1. TypeOK => A
  <2>. SUFFICES ASSUME TypeOK PROVE A
    OBVIOUS
  <2>1. ASSUME NEW a \in 0 .. AddrBound, MarkDirty(a) PROVE Marked' = Marked \cup {a}
    <3>1. a \in Nat
      OBVIOUS
    <3>. QED BY <2>1, <3>1, MarkExact
  <2>2. ASSUME NEW lo \in 0 .. AddrBound, NEW hi \in 0 .. AddrBound, ClearDirtyRange(lo, hi)
        PROVE  Marked' = Marked \ (lo .. hi - 1)
    <3>1. lo \in Nat /\ hi \in Nat
      OBVIOUS
    <3>. QED BY <2>2, <3>1, ClearExact
  <2>. QED BY <2>1, <2>2
<1>. HIDE DEF A
<1>2. Spec => [][A]_dirty
  BY <1>1, InitTypeOK, NextTypeOK, PTL DEF Spec
<1>. QED BY <1>2 DEF StepsExact, A

===============================================================================
