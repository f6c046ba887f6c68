------------------------------- MODULE Bitmaps -------------------------------
(***************************************************************************)
(* Bitmaps: lib/base/src/bitmap.c, find_bit.c, bitmap.h, and the cpumasks  *)
(* of include/rtochius/cpumask.h and lib/cpumask.c that are made of them.  *)
(* A word is the set of its one bits, a subset of 0 .. W - 1; a bitmap of  *)
(* n bits is the function from the BITS_TO_LONGS(n) word numbers to words, *)
(* so the bits of the last word that are past n exist, and the operations  *)
(* set them or leave them as the code does.  Beside each of the two maps   *)
(* stands the set of bits it is meant to hold.                             *)
(***************************************************************************)
EXTENDS Integers, Sequences, FiniteSets, TLC, SequencesExt

(* Bind(v, LAMBDA x : e) is LET x == v IN e, with v evaluated once.        *)
Bind(v, Op(_)) == Op(v)

CONSTANTS W,       \* BITS_PER_LONG, a power of two
          Sizes,   \* the numbers of bits, each the whole map of a run
          Chunk,   \* CHUNKSZ, the bits of one comma group; 2 * Chunk <= W
          Digit,   \* the bits of one digit of a group
          Parsed,  \* token sequences given to bitmap_parse
          Listed   \* item sequences given to bitmap_parselist

VARIABLE bm

Ones == 0 .. W - 1
Longs(n) == (n + W - 1) \div W
Words(n) == 0 .. Longs(n) - 1
Neg(x, m) == (-x) % m
Shl(w, k) == {i + k : i \in w} \cap Ones
Shr(w, k) == {i - k : i \in {j \in w : j >= k}}
Low(S) == CHOOSE i \in S : \A j \in S : i <= j     \* __ffs
Top(S) == CHOOSE i \in S : \A j \in S : i >= j    \* __fls
Lesser(x, y) == IF x < y THEN x ELSE y
FirstWordMask(start) == Shl(Ones, start % W)
LastWordMask(n) == Shr(Ones, Neg(n, W))
Zero(n) == [k \in Words(n) |-> {}]
Fill(n) == [k \in Words(n) |-> Ones]
SmallConst(n) == n <= W /\ n > 0

(* The result of the two-operand operations: whole words, then the last    *)
(* word under the mask, when there is one that is not whole.               *)
Masked(f, n) ==
    [k \in Words(n) |-> IF k < n \div W THEN f[k] ELSE f[k] \cap LastWordMask(n)]
SomeBit(f, n) == \E k \in Words(n) : Masked(f, n)[k] # {}

And(a, b, n)        == Masked([k \in Words(n) |-> a[k] \cap b[k]], n)
AndNot(a, b, n)     == Masked([k \in Words(n) |-> a[k] \ b[k]], n)
Or(a, b, n)         == [k \in Words(n) |-> a[k] \cup b[k]]
Xor(a, b, n)        == [k \in Words(n) |-> (a[k] \ b[k]) \cup (b[k] \ a[k])]
Complement(a, n)    == [k \in Words(n) |-> Ones \ a[k]]
Equal(a, b, n)      == ~SomeBit(Xor(a, b, n), n)
Intersects(a, b, n) == SomeBit([k \in Words(n) |-> a[k] \cap b[k]], n)
Subset(a, b, n)     == ~SomeBit([k \in Words(n) |-> a[k] \ b[k]], n)
Weight(a, n)        == FoldSet(LAMBDA k, s : s + Cardinality(Masked(a, n)[k]), 0, Words(n))

ShiftRight(a, shift, n) ==
    LET lim == Longs(n) off == shift \div W rem == shift % W
        word(k) == IF k = lim - 1 THEN a[k] \cap LastWordMask(n) ELSE a[k]
        upper(k) == IF rem = 0 \/ off + k + 1 >= lim THEN {} ELSE Shl(word(off + k + 1), W - rem)
    IN  IF SmallConst(n) THEN [k \in Words(n) |-> Shr(word(0), shift)]
        ELSE [k \in Words(n) |-> IF off + k < lim THEN Shr(word(off + k), rem) \cup upper(k) ELSE {}]

ShiftWords(a, shift, n) ==   \* __bitmap_shift_left
    LET off == shift \div W rem == shift % W
        lower(k) == IF rem > 0 /\ k > 0 THEN Shr(a[k - 1], W - rem) ELSE {}
    IN  [k \in Words(n) |-> IF k >= off THEN Shl(a[k - off], rem) \cup lower(k - off) ELSE {}]
ShiftLeft(a, shift, n) ==
    IF SmallConst(n) THEN [k \in Words(n) |-> Shl(a[0], shift) \cap LastWordMask(n)]
    ELSE ShiftWords(a, shift, n)

CopyClearTail(a, n) ==
    IF n % W = 0 THEN a ELSE [a EXCEPT ![n \div W] = @ \cap LastWordMask(n)]

(* __bitmap_set and __bitmap_clear: word by word while len lasts.          *)
RECURSIVE Span(_, _, _, _, _)
Span(p, len, bits, mask, size) ==   \* word -> the bits of it in the span
    IF len - bits >= 0 THEN (p :> mask) @@ Span(p + 1, len - bits, W, Ones, size)
    ELSE IF len # 0 THEN p :> (mask \cap LastWordMask(size)) ELSE <<>>
SpanOf(start, len) ==
    Span(start \div W, len, W - (start % W), FirstWordMask(start), start + len)
BitmapSet(a, start, len) ==
    LET s == SpanOf(start, len)
    IN  [k \in DOMAIN a |-> IF k \in DOMAIN s THEN a[k] \cup s[k] ELSE a[k]]
BitmapClear(a, start, len) ==
    LET s == SpanOf(start, len)
    IN  [k \in DOMAIN a |-> IF k \in DOMAIN s THEN a[k] \ s[k] ELSE a[k]]
SetBit(a, i)   == [a EXCEPT ![i \div W] = @ \cup {i % W}]
ClearBit(a, i) == [a EXCEPT ![i \div W] = @ \ {i % W}]
TestBit(a, i)  == i % W \in a[i \div W]
SetBits(a, S)  == FoldSet(LAMBDA i, m : SetBit(m, i), a, S)

-----------------------------------------------------------------------------
(* find_bit.c.                                                             *)
RECURSIVE NextFrom(_, _, _, _)
NextFrom(w, tmp, start, n) ==   \* the loop of _find_next_bit
    IF tmp # {} THEN Lesser(start + Low(tmp), n)
    ELSE IF start + W >= n THEN n
    ELSE NextFrom(w, w[(start + W) \div W], start + W, n)
(* A plausible slip: the first word is searched without the mask that      *)
(* hides the bits below start.                                             *)
FindNextUnmasked(w, n, start) ==
    IF start >= n THEN n ELSE NextFrom(w, w[start \div W], start - (start % W), n)
FindNext(w, n, start) ==
    IF start >= n THEN n
    ELSE NextFrom(w, w[start \div W] \cap FirstWordMask(start), start - (start % W), n)
FindNextBit(a, n, start)       == FindNext(a, n, start)
FindNextZeroBit(a, n, start)   == FindNext([k \in DOMAIN a |-> Ones \ a[k]], n, start)
FindNextAndBit(a, b, n, start) == FindNext([k \in DOMAIN a |-> a[k] \cap b[k]], n, start)
RECURSIVE FirstFrom(_, _, _)
FirstFrom(w, idx, n) ==
    IF idx * W >= n THEN n
    ELSE IF w[idx] # {} THEN Lesser(idx * W + Low(w[idx]), n)
    ELSE FirstFrom(w, idx + 1, n)
FindFirstBit(a, n)     == FirstFrom(a, 0, n)
FindFirstZeroBit(a, n) == FirstFrom([k \in DOMAIN a |-> Ones \ a[k]], 0, n)
RECURSIVE LastFrom(_, _, _, _)
LastFrom(a, idx, mask, n) ==
    IF a[idx] \cap mask # {} THEN idx * W + Top(a[idx] \cap mask)
    ELSE IF idx = 0 THEN n ELSE LastFrom(a, idx - 1, Ones, n)
FindLastBit(a, n) == IF n = 0 THEN n ELSE LastFrom(a, (n - 1) \div W, LastWordMask(n), n)

Empty(a, n) == IF SmallConst(n) THEN a[0] \cap LastWordMask(n) = {} ELSE FindFirstBit(a, n) = n
Full(a, n)  == IF SmallConst(n) THEN (Ones \ a[0]) \cap LastWordMask(n) = {}
               ELSE FindFirstZeroBit(a, n) = n

RECURSIVE EachFrom(_, _, _)
EachFrom(a, n, bit) ==   \* for_each_set_bit from here on
    IF bit >= n THEN <<>> ELSE <<bit>> \o EachFrom(a, n, FindNextBit(a, n, bit + 1))
EachSetBit(a, n) == EachFrom(a, n, FindFirstBit(a, n))

RECURSIVE ZeroArea(_, _, _, _, _, _)
ZeroArea(a, size, start, nr, align, off) ==   \* bitmap_find_next_zero_area_off
    LET free == FindNextZeroBit(a, size, start)
        index == ((free + off + align - 1) \div align) * align - off
        i == FindNextBit(a, index + nr, index)
    IN  IF index + nr > size THEN index + nr
        ELSE IF i < index + nr THEN ZeroArea(a, size, i + 1, nr, align, off) ELSE index

(* Positions and ordinals.                                                 *)
PosToOrd(a, pos, n) == IF pos >= n \/ ~TestBit(a, pos) THEN -1 ELSE Weight(a, pos)
RECURSIVE OrdFrom(_, _, _, _)
OrdFrom(a, ord, pos, n) ==
    IF pos < n /\ ord > 0 THEN OrdFrom(a, ord - 1, FindNextBit(a, n, pos + 1), n) ELSE pos
OrdToPos(a, ord, n) == OrdFrom(a, ord, FindFirstBit(a, n), n)
BitRemap(bit, old, new, n) ==
    LET w == Weight(new, n) ord == PosToOrd(old, bit, n)
    IN  IF ord < 0 \/ w = 0 THEN bit ELSE OrdToPos(new, ord % w, n)
Remap(src, old, new, n) ==
    SetBits(Zero(n), {BitRemap(bit, old, new, n) : bit \in ToSet(EachSetBit(src, n))})
Onto(orig, rel, n) ==
    LET s == EachSetBit(rel, n)
    IN  SetBits(Zero(n), {s[m] : m \in {j \in DOMAIN s : TestBit(orig, j - 1)}})
FoldMap(orig, sz, n) == SetBits(Zero(n), {bit % sz : bit \in ToSet(EachSetBit(orig, n))})

(* __reg_op and the regions of 2^order bits.                               *)
RegMask(pos, order) == Shl(0 .. Lesser(2^order, W) - 1, pos % W)
RegWords(pos, order) == {pos \div W + i : i \in 0 .. Longs(2^order) - 1}
RegFree(a, pos, order) == \A k \in RegWords(pos, order) : a[k] \cap RegMask(pos, order) = {}
RegAlloc(a, pos, order) ==
    [k \in DOMAIN a |-> IF k \in RegWords(pos, order) THEN a[k] \cup RegMask(pos, order) ELSE a[k]]
RegRelease(a, pos, order) ==
    [k \in DOMAIN a |-> IF k \in RegWords(pos, order) THEN a[k] \ RegMask(pos, order) ELSE a[k]]
RECURSIVE FreeRegion(_, _, _, _)
FreeRegion(a, n, order, pos) ==   \* -1: -ENOMEM
    IF pos + 2^order > n THEN -1
    ELSE IF RegFree(a, pos, order) THEN pos ELSE FreeRegion(a, n, order, pos + 2^order)

(* bitmap_to_arr32 and bitmap_from_arr32: half words.                      *)
H == W \div 2
ToArr(a, n) ==
    LET halves == (n + H - 1) \div H
        part(i) == IF i % 2 = 0 THEN a[i \div 2] \cap (0 .. H - 1) ELSE Shr(a[i \div 2], H)
    IN  [i \in 0 .. halves - 1 |->
            IF i = halves - 1 /\ n % W # 0 THEN part(i) \cap Shr(0 .. H - 1, Neg(n, H)) ELSE part(i)]
FromArr(buf, n) ==
    LET halves == (n + H - 1) \div H
        word(k) == buf[2 * k] \cup (IF 2 * k + 1 < halves THEN Shl(buf[2 * k + 1], H) ELSE {})
    IN  [k \in Words(n) |-> IF k = (halves - 1) \div 2 /\ n % W # 0
                            THEN word(k) \cap LastWordMask(n) ELSE word(k)]

-----------------------------------------------------------------------------
(* Characters are numbers: a digit is its value, the others are negative.  *)
Comma == -1
Space == -2
Nul == -3
Dash == -4
Colon == -5
Slash == -6
Other == -7
Err == [err |-> TRUE, m |-> <<>>]

RECURSIVE BitsOf(_, _)
BitsOf(v, i) == IF v = 0 THEN {} ELSE (IF v % 2 = 1 THEN {i} ELSE {}) \cup BitsOf(v \div 2, i + 1)
Fls(v) == IF v = 0 THEN 0 ELSE Top(BitsOf(v, 0)) + 1

(* __bitmap_parse.  ParseGroup reads one comma group: r is the rest of the *)
(* buffer, c the character before it, total the digits so far.             *)
RECURSIVE ParseGroup(_, _, _, _)
ParseGroup(r, c, total, chunk) ==
    IF r = <<>> THEN [err |-> FALSE, r |-> r, c |-> c, total |-> total, chunk |-> chunk]
    ELSE LET d == Head(r)
         IN  IF d = Space THEN ParseGroup(Tail(r), d, total, chunk)
             ELSE IF total > 0 /\ d # Nul /\ c = Space THEN Err
             ELSE IF d \in {Nul, Comma}
             THEN [err |-> FALSE, r |-> Tail(r), c |-> d, total |-> total, chunk |-> chunk]
             ELSE IF d < 0 \/ chunk >= 2^(Chunk - Digit) THEN Err
             ELSE ParseGroup(Tail(r), d, total + 1, chunk * 2^Digit + d)

RECURSIVE ParseFrom(_, _, _, _, _, _, _)
ParseFrom(m, r, c, total, nchunks, nbits, n) ==
    LET g == ParseGroup(r, c, total, 0)
    IN  IF g.err THEN Err
        ELSE IF g.total = total THEN Err
        ELSE LET skip == nchunks = 0 /\ g.chunk = 0
                 s == ShiftWords(m, Chunk, n)
                 m2 == IF skip THEN m ELSE [s EXCEPT ![0] = @ \cup BitsOf(g.chunk, 0)]
                 nb == IF skip THEN nbits
                       ELSE nbits + (IF nchunks = 0 THEN Fls(g.chunk) ELSE Chunk)
             IN  IF nb > n THEN Err
                 ELSE IF g.r # <<>> /\ g.c = Comma
                 THEN ParseFrom(m2, g.r, g.c, g.total, IF skip THEN 0 ELSE nchunks + 1, nb, n)
                 ELSE [err |-> FALSE, m |-> m2]
Parse(buf, n) == ParseFrom(Zero(n), buf, Nul, 0, 0, 0, n)

(* __bitmap_parselist: one range, [a, b, used, group] so far.              *)
RECURSIVE ListItem(_, _, _)
ListItem(r, c, i) ==
    IF r = <<>> THEN [i EXCEPT !.r = r, !.c = c]
    ELSE LET d == Head(r)
         IN  IF d = Space THEN ListItem(Tail(r), d, i)
             ELSE IF d \in {Nul, Comma} THEN [i EXCEPT !.r = Tail(r), !.c = d]
             ELSE IF i.digits > 0 /\ c = Space THEN [i EXCEPT !.err = TRUE]
             ELSE IF d = Slash
             THEN ListItem(Tail(r), d, [i EXCEPT !.used = i.a, !.start = TRUE, !.range = FALSE,
                                                 !.a = 0, !.b = 0])
             ELSE IF d = Colon
             THEN ListItem(Tail(r), d, [i EXCEPT !.olda = i.a, !.oldb = i.b, !.start = TRUE,
                                                 !.range = FALSE, !.part = TRUE, !.a = 0, !.b = 0])
             ELSE IF d = Dash
             THEN IF i.start \/ i.range THEN [i EXCEPT !.err = TRUE]
                  ELSE ListItem(Tail(r), d, [i EXCEPT !.b = 0, !.range = TRUE, !.start = TRUE])
             ELSE IF d < 0 THEN [i EXCEPT !.err = TRUE]
             ELSE LET b == i.b * 10 + d
                  IN  ListItem(Tail(r), d, [i EXCEPT !.b = b, !.a = IF i.range THEN @ ELSE b,
                                                     !.start = FALSE, !.digits = @ + 1])

RECURSIVE ListFill(_, _, _, _, _)
ListFill(m, a, b, used, group) ==
    IF a > b THEN m
    ELSE ListFill(BitmapSet(m, a, Lesser(b - a + 1, used)), a + group, b, used, group)

RECURSIVE ListFrom(_, _, _, _, _)
ListFrom(m, r, c, used0, n) ==
    Bind(ListItem(r, c, [r |-> r, c |-> c, err |-> FALSE, start |-> TRUE, range |-> FALSE,
                         part |-> FALSE, a |-> 0, b |-> 0, olda |-> 0, oldb |-> 0,
                         used |-> used0, digits |-> 0]), LAMBDA i :
    LET a == IF i.part THEN i.olda ELSE i.a
        b == IF i.part THEN i.oldb ELSE i.b
        group == IF i.part THEN i.a ELSE b - a + 1
        used == IF i.part THEN i.used ELSE b - a + 1
        more(m2, u) == IF i.r # <<>> /\ i.c = Comma THEN ListFrom(m2, i.r, i.c, u, n)
                       ELSE [err |-> FALSE, m |-> m2]
    IN  IF i.err THEN Err
        ELSE IF i.digits = 0 THEN more(m, i.used)
        ELSE IF i.start /\ i.range THEN Err
        ELSE IF a > b \/ group = 0 \/ used > group \/ b >= n THEN Err
        ELSE more(ListFill(m, a, b, used, group), used))
ParseList(buf, n) == ListFrom(Zero(n), buf, Nul, 0, n)

-----------------------------------------------------------------------------
(* Cpumasks: bitmaps of nr_cpumask_bits.                                   *)
CpumaskNext(a, n, i)       == FindNextBit(a, n, i + 1)
CpumaskNextZero(a, n, i)   == FindNextZeroBit(a, n, i + 1)
CpumaskNextAnd(a, b, n, i) == FindNextAndBit(a, b, n, i + 1)
RECURSIVE AnyButFrom(_, _, _, _)
AnyButFrom(a, n, cpu, i) == IF i < n /\ i = cpu THEN AnyButFrom(a, n, cpu, CpumaskNext(a, n, i)) ELSE i
CpumaskAnyBut(a, n, cpu) == AnyButFrom(a, n, cpu, CpumaskNext(a, n, -1))
RECURSIVE CpumaskNextWrap(_, _, _, _, _)
CpumaskNextWrap(a, n, i, start, wrap) ==
    LET next == CpumaskNext(a, n, i)
    IN  IF wrap /\ i < start /\ next >= start THEN n
        ELSE IF next >= n THEN CpumaskNextWrap(a, n, -1, start, TRUE) ELSE next
RECURSIVE WrapFrom(_, _, _, _)
WrapFrom(a, n, start, i) ==   \* for_each_cpu_wrap from here on
    IF i >= n THEN <<>> ELSE <<i>> \o WrapFrom(a, n, start, CpumaskNextWrap(a, n, i, start, TRUE))
EachCpuWrap(a, n, start) == WrapFrom(a, n, start, CpumaskNextWrap(a, n, start - 1, start, FALSE))

-----------------------------------------------------------------------------
(* The operations: the words by the code, the set by what it promises.     *)
All == 0 .. bm.n - 1
Put(m, S) == bm' = [bm EXCEPT !.a = m, !.A = S]

CpumaskLogic ==
    \/ Put(And(bm.a, bm.b, bm.n), bm.A \cap bm.B)
    \/ Put(AndNot(bm.a, bm.b, bm.n), bm.A \ bm.B)
    \/ Put(Or(bm.a, bm.b, bm.n), bm.A \cup bm.B)
    \/ Put(Xor(bm.a, bm.b, bm.n), (bm.A \ bm.B) \cup (bm.B \ bm.A))
    \/ Put(Complement(bm.a, bm.n), All \ bm.A)
CpumaskSetAll == Put(Fill(bm.n), All)
CpumaskClear == Put(Zero(bm.n), {})
CpumaskShift ==
    \E k \in All : \/ Put(ShiftRight(bm.a, k, bm.n), {i \in All : i + k \in bm.A})
                   \/ Put(ShiftLeft(bm.a, k, bm.n), {i \in All : i - k \in bm.A})
CpumaskCopy == \/ Put(bm.b, bm.B)
               \/ Put(CopyClearTail(bm.b, bm.n), bm.B)
               \/ Put(FromArr(ToArr(bm.b, bm.n), bm.n), bm.B)
CpumaskSetCpu   == \E i \in All : Put(SetBit(bm.a, i), bm.A \cup {i})
CpumaskClearCpu == \E i \in All : Put(ClearBit(bm.a, i), bm.A \ {i})
SetRange ==
    \E i \in All : \E len \in 0 .. bm.n - i :
        \/ Put(BitmapSet(bm.a, i, len), bm.A \cup (i .. i + len - 1))
        \/ Put(BitmapClear(bm.a, i, len), bm.A \ (i .. i + len - 1))
Nth(S, k) == CHOOSE i \in S : Cardinality({j \in S : j < i}) = k
MapBit(i, old, new) == IF i \in old /\ new # {}
                       THEN Nth(new, Cardinality({j \in old : j < i}) % Cardinality(new)) ELSE i
Move ==   \* bitmap_remap from the other map, its complement as the old places
    \/ Put(Remap(bm.b, bm.b, bm.a, bm.n), {MapBit(i, bm.B, bm.A) : i \in bm.B})
    \/ Put(Onto(bm.b, bm.a, bm.n), {i \in bm.A : Cardinality({j \in bm.A : j < i}) \in bm.B})
    \/ \E sz \in 1 .. bm.n : Put(FoldMap(bm.b, sz, bm.n), {i % sz : i \in bm.B})
Orders == {o \in 0 .. bm.n : 2^o <= bm.n}
FindFreeRegion ==
    \E o \in Orders : \E pos \in {FreeRegion(bm.a, bm.n, o, 0)} :
        pos # -1 /\ Put(RegAlloc(bm.a, pos, o), bm.A \cup (pos .. pos + 2^o - 1))
Region ==
    \E o \in Orders : \E pos \in {p \in All : p % 2^o = 0 /\ p + 2^o <= bm.n} :
        \/ RegFree(bm.a, pos, o) /\ Put(RegAlloc(bm.a, pos, o), bm.A \cup (pos .. pos + 2^o - 1))
        \/ Put(RegRelease(bm.a, pos, o), bm.A \ (pos .. pos + 2^o - 1))
Swap == bm' = [bm EXCEPT !.a = bm.b, !.b = bm.a, !.A = bm.B, !.B = bm.A]

(* What the two formats mean.  A group list: the digits of all groups, the *)
(* last group lowest.  A range list: items [a, b, used, group].            *)
Trim(s) == LET ix == {i \in DOMAIN s : s[i] \notin {Space, Nul}}
           IN  IF ix = {} THEN <<>> ELSE SubSeq(s, Low(ix), Top(ix))
Groups(s) == {i \in 1 .. Len(s) + 1 : i = Len(s) + 1 \/ s[i] = Comma}   \* group ends
GroupAt(s, e) == LET b == {j \in Groups(s) : j < e}
                 IN  SubSeq(s, IF b = {} THEN 1 ELSE Top(b) + 1, e - 1)
Value(g) == FoldLeft(LAMBDA v, d : v * 2^Digit + d, 0, g)
GroupOk(g) == g # <<>> /\ (\A i \in DOMAIN g : g[i] >= 0) /\ Value(g) < 2^Chunk
ParsedBits(s) ==
    UNION {{i + Chunk * Cardinality({f \in Groups(s) : f > e}) : i \in BitsOf(Value(GroupAt(s, e)), 0)} :
           e \in Groups(s)}
ParseOk(s) == (\A e \in Groups(s) : GroupOk(GroupAt(s, e))) /\ ParsedBits(s) \subseteq All

Decimal(v) == IF v < 10 THEN <<v>> ELSE <<v \div 10, v % 10>>
ItemText(i) == Decimal(i.a) \o (IF i.b = i.a THEN <<>> ELSE <<Dash>> \o Decimal(i.b))
               \o (IF i.group = -1 THEN <<>> ELSE <<Colon>> \o Decimal(i.used) \o <<Slash>> \o Decimal(i.group))
ListText(l) == Tail(FoldLeft(LAMBDA t, i : t \o <<Comma>> \o ItemText(i), <<>>, l))
ItemOk(i) == i.a <= i.b /\ i.b \in All /\ (i.group # -1 => i.group > 0 /\ i.used <= i.group)
ItemBits(i) == {x \in i.a .. i.b : i.group = -1 \/ (x - i.a) % i.group < i.used}

CpumaskParse ==
    /\ bm.A = {} /\ bm.B = {}
    /\ \E s \in Parsed : \E p \in {Parse(s, bm.n)} :
          bm' = [bm EXCEPT !.a = IF p.err THEN Zero(bm.n) ELSE p.m,
                           !.A = IF ParseOk(Trim(s)) THEN ParsedBits(Trim(s)) ELSE {},
                           !.ok = p.err = ~ParseOk(Trim(s))]
CpulistParse ==
    /\ bm.A = {} /\ bm.B = {}
    /\ \E l \in Listed : \E p \in {ParseList(ListText(l), bm.n)} :
          bm' = [bm EXCEPT !.a = IF p.err THEN Zero(bm.n) ELSE p.m,
                           !.A = IF \A j \in DOMAIN l : ItemOk(l[j])
                                 THEN UNION {ItemBits(l[j]) : j \in DOMAIN l} ELSE {},
                           !.ok = p.err = \E j \in DOMAIN l : ~ItemOk(l[j])]

Init == \E n \in Sizes : bm = [n |-> n, a |-> Zero(n), b |-> Zero(n), A |-> {}, B |-> {}, ok |-> TRUE]
Next == \/ CpumaskLogic \/ CpumaskSetAll \/ CpumaskClear \/ CpumaskShift \/ CpumaskCopy
        \/ CpumaskSetCpu \/ CpumaskClearCpu \/ SetRange \/ Move \/ FindFreeRegion \/ Region \/ Swap
        \/ CpumaskParse \/ CpulistParse

-----------------------------------------------------------------------------
(* bitmap.c and find_bit.c: whatever operations built the maps and         *)
(* whatever they left in the unused bits of the last word, each map holds  *)
(* exactly the bits it should, parsing accepts exactly the well-formed     *)
(* texts, and every comparison, count, search and iteration answers as the *)
(* sets do.                                                                *)
NextIn(S, i) == LET T == {j \in S : j >= i} IN IF T = {} THEN bm.n ELSE Low(T)
Ascending(S) == SetToSortSeq(S, LAMBDA x, y : x < y)
AreaAt(i, nr, align, off) == (i + off) % align = 0 /\ i + nr <= bm.n /\ (i .. i + nr - 1) \cap bm.A = {}
BitmapsExact ==
    LET n == bm.n a == bm.a b == bm.b A == bm.A B == bm.B
    IN  /\ bm.ok
        /\ \A i \in All : TestBit(a, i) = (i \in A)
        /\ Equal(a, b, n) = (A = B) /\ Intersects(a, b, n) = (A \cap B # {})
        /\ Subset(a, b, n) = (A \subseteq B)
        /\ Empty(a, n) = (A = {}) /\ Full(a, n) = (A = All) /\ Weight(a, n) = Cardinality(A)
        /\ FindFirstBit(a, n) = NextIn(A, 0) /\ FindFirstZeroBit(a, n) = NextIn(All \ A, 0)
        /\ FindLastBit(a, n) = IF A = {} THEN n ELSE Top(A)
        /\ EachSetBit(a, n) = Ascending(A)
        /\ \A i \in -1 .. n - 1 : /\ CpumaskNext(a, n, i) = NextIn(A, i + 1)
                                  /\ CpumaskNextZero(a, n, i) = NextIn(All \ A, i + 1)
                                  /\ CpumaskNextAnd(a, b, n, i) = NextIn(A \cap B, i + 1)
        /\ \A i \in All : /\ CpumaskAnyBut(a, n, i) = NextIn(A \ {i}, 0)
                          /\ EachCpuWrap(a, n, i) = Ascending(A \cap (i .. n)) \o Ascending(A \cap (0 .. i - 1))
                          /\ BitRemap(i, a, b, n) = MapBit(i, A, B)
                          /\ OrdToPos(a, i, n) = IF i < Cardinality(A) THEN Nth(A, i) ELSE n
        /\ \A i \in All, nr \in 1 .. 2, align \in {1, 2}, off \in {0, 1} :
              LET r == ZeroArea(a, n, i, nr, align, off)
                  at == {j \in i .. n : AreaAt(j, nr, align, off)}
              IN  IF at = {} THEN r > n ELSE r = Low(at)
        /\ \A o \in Orders : LET at == {p \in All : p % 2^o = 0 /\ AreaAt(p, 2^o, 1, 0)}
                             IN  FreeRegion(a, n, o, 0) = IF at = {} THEN -1 ELSE Low(at)
=============================================================================
