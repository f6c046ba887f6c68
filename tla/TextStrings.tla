---------------------------- MODULE TextStrings ----------------------------
(***************************************************************************)
(* string.c: the functions that write strings in place, and the searches.  *)
(*                                                                         *)
(* The memory is one array of bytes: a destination of DestSize bytes, a    *)
(* source behind it, guard bytes behind both.  A pointer is an index, NULL *)
(* is 0.  dest is what the destination should hold: its text, or Torn when *)
(* no terminator is left in it, after which nothing may read it as text.   *)
(***************************************************************************)
EXTENDS Integers, Sequences, FiniteSets, SequencesExt, FiniteSetsExt

CONSTANTS DestSize, SrcSize, Sources, Counts, Chars, Word, MaxCalls

VARIABLE sm

NULL == 0
Dest == 1
Src == DestSize + 2
Guard == 255
Torn == <<-1>>
Space == 32
isspace(c) == c \in {32, 9, 10, 11, 12, 13, 160}
tolower(c) == IF c \in 65..90 \/ c \in (192..222) \ {215} THEN c + 32 ELSE c

Byte(m, p) == IF p \in DOMAIN m THEN m[p] ELSE Guard

(* The loops of string.c, each up to the byte that ends it.                *)
First(m, p, P(_)) == Min({q \in p..Len(m) : P(m[q])})
strlen(m, p) == First(m, p, LAMBDA c : c = 0) - p
strnlen(m, p, count) == LET ends == {q \in p..(p + count - 1) : m[q] = 0}
                        IN IF ends = {} THEN count ELSE Min(ends) - p
Text(m, p) == SubSeq(m, p, p + strlen(m, p) - 1)
strchrnul(m, p, c) == First(m, p, LAMBDA x : x \in {0, c})
strchr(m, p, c) == LET q == strchrnul(m, p, c) IN IF m[q] = c THEN q ELSE NULL
strnchr(m, p, count, c) == LET n == strnlen(m, p, count)
                               hits == {q \in p..(p + n - 1) : m[q] = c}
                           IN IF hits = {} THEN NULL ELSE Min(hits)
strrchr(m, p, c) == LET hits == {q \in p..(p + strlen(m, p)) : m[q] = c} IN IF hits = {} THEN NULL ELSE Max(hits)
skip_spaces(m, p) == First(m, p, LAMBDA c : ~isspace(c))
strpbrk(m, p, set) == LET q == First(m, p, LAMBDA c : c = 0 \/ c \in set) IN IF m[q] = 0 THEN NULL ELSE q
strspn(m, p, set) == First(m, p, LAMBDA c : c \notin set) - p
strcspn(m, p, set) == First(m, p, LAMBDA c : c = 0 \/ c \in set) - p
memscan(m, p, c, size) == LET hits == {q \in p..(p + size - 1) : m[q] = c} IN IF hits = {} THEN p + size ELSE Min(hits)
memchr(m, p, c, n) == LET hits == {q \in p..(p + n - 1) : m[q] = c} IN IF hits = {} THEN NULL ELSE Min(hits)
memcmp(m, p, q, n) ==
    LET diff == {i \in 0..(n - 1) : Byte(m, p + i) # Byte(m, q + i)}
    IN IF diff = {} THEN 0 ELSE Byte(m, p + Min(diff)) - Byte(m, q + Min(diff))
strncmp(m, p, q, count) ==
    LET ends == {i \in 0..(count - 1) : Byte(m, p + i) # Byte(m, q + i) \/ Byte(m, p + i) = 0}
        i == Min(ends)
    IN IF ends = {} \/ Byte(m, p + i) = Byte(m, q + i) THEN 0 ELSE IF Byte(m, p + i) < Byte(m, q + i) THEN -1 ELSE 1
strcmp(m, p, q) == strncmp(m, p, q, Len(m))
(* A pair that differs in case only is passed over; the last pair looked   *)
(* at is the result, folded or not.                                        *)
strncasecmp(m, p, q, len) ==
    LET ends == {i \in 0..(len - 1) : \/ 0 \in {Byte(m, p + i), Byte(m, q + i)}
                                      \/ tolower(Byte(m, p + i)) # tolower(Byte(m, q + i))}
        i == IF ends = {} THEN len - 1 ELSE Min(ends)
        a == Byte(m, p + i)
        b == Byte(m, q + i)
    IN IF len = 0 THEN 0 ELSE IF 0 \in {a, b} \/ a = b THEN a - b ELSE tolower(a) - tolower(b)
strcasecmp(m, p, q) ==
    LET i == Min({k \in 0..Len(m) : Byte(m, p + k) = 0 \/ tolower(Byte(m, p + k)) # tolower(Byte(m, q + k))})
    IN tolower(Byte(m, p + i)) - tolower(Byte(m, q + i))
strstr(m, p, q) ==
    LET l2 == strlen(m, q)
        hits == {r \in p..(p + strlen(m, p) - l2) : memcmp(m, r, q, l2) = 0}
    IN IF l2 = 0 THEN p ELSE IF hits = {} THEN NULL ELSE Min(hits)
strnstr(m, p, q, len) ==
    LET l2 == strlen(m, q)
        hits == {r \in p..(p + len - l2) : memcmp(m, r, q, l2) = 0}
    IN IF l2 = 0 THEN p ELSE IF hits = {} THEN NULL ELSE Min(hits)
match_string(array, string) ==
    LET hits == {i \in DOMAIN array : array[i] = string /\ \A j \in 1..i : array[j] # Torn}
    IN IF hits = {} THEN -1 ELSE Min(hits) - 1
(* memchr_inv: bytes up to a word boundary, whole words, the bytes left.   *)
CheckBytes(m, p, value, bytes) == LET bad == {q \in p..(p + bytes - 1) : m[q] # value} IN IF bad = {} THEN NULL ELSE Min(bad)
memchr_inv(m, start, value, bytes) ==
    LET prefix == (Word - (start % Word)) % Word
        head == CheckBytes(m, start, value, prefix)
        words == (bytes - prefix) \div Word
        at(k) == start + prefix + k * Word
        odd == {k \in 0..(words - 1) : CheckBytes(m, at(k), value, Word) # NULL}
    IN  IF bytes <= 2 * Word THEN CheckBytes(m, start, value, bytes)
        ELSE IF head # NULL THEN head
        ELSE IF odd # {} THEN CheckBytes(m, at(Min(odd)), value, Word)
        ELSE CheckBytes(m, at(words), value, (bytes - prefix) % Word)

-----------------------------------------------------------------------------
(* The writers.                                                            *)
Write(m, p, bytes) == [q \in DOMAIN m |-> IF q - p + 1 \in DOMAIN bytes THEN bytes[q - p + 1] ELSE m[q]]
Zeros(n) == [i \in 1..n |-> 0]
strcpy(m, d, s) == Write(m, d, Append(Text(m, s), 0))
strncpy(m, d, s, count) ==
    LET n == strnlen(m, s, count) IN Write(m, d, SubSeq(m, s, s + n - 1) \o Zeros(count - n))
strlcpy(m, d, s, size) ==
    LET ret == strlen(m, s)
        len == IF ret >= size THEN size - 1 ELSE ret
    IN [ret |-> ret, m |-> IF size = 0 THEN m ELSE Write(m, d, Append(SubSeq(m, s, s + len - 1), 0))]
strcat(m, d, s) == strcpy(m, d + strlen(m, d), s)
strncat(m, d, s, count) ==
    LET n == strnlen(m, s, count)
    IN IF count = 0 THEN m ELSE Write(m, d + strlen(m, d), Append(SubSeq(m, s, s + n - 1), 0))
strlcat(m, d, s, count) ==
    LET dsize == strlen(m, d)
        len == strlen(m, s)
        n == IF len >= count - dsize THEN count - dsize - 1 ELSE len
    IN [ret |-> dsize + len, m |-> Write(m, d + dsize, Append(SubSeq(m, s, s + n - 1), 0))]
strim(m, s) ==
    LET size == strlen(m, s)
        keep == {q \in s..(s + size - 1) : ~isspace(m[q])}
        cut == IF size = 0 THEN m ELSE Write(m, IF keep = {} THEN s ELSE Max(keep) + 1, <<0>>)
    IN [at |-> IF size = 0 THEN s ELSE skip_spaces(cut, s), m |-> cut]
strsep(m, s, set) ==
    LET end == strpbrk(m, s, set)
    IN IF end = NULL THEN [rest |-> NULL, m |-> m] ELSE [rest |-> end + 1, m |-> Write(m, end, <<0>>)]
strreplace(m, s, old, new) ==
    [q \in DOMAIN m |-> IF q \in s..(s + strlen(m, s) - 1) /\ m[q] = old THEN new ELSE m[q]]
memset(m, s, c, count) == Write(m, s, [i \in 1..count |-> c])
(* memmove: forwards below the source, else backwards, byte by byte.       *)
RECURSIVE CopyUp(_, _, _, _)
CopyUp(m, d, s, n) == IF n = 0 THEN m ELSE CopyUp([m EXCEPT ![d] = m[s]], d + 1, s + 1, n - 1)
RECURSIVE CopyDown(_, _, _, _)
CopyDown(m, d, s, n) == IF n = 0 THEN m ELSE CopyDown([m EXCEPT ![d + n - 1] = m[s + n - 1]], d, s, n - 1)
memmove(m, d, s, n) == IF d <= s THEN CopyUp(m, d, s, n) ELSE CopyDown(m, d, s, n)

-----------------------------------------------------------------------------
Init == \E src \in Sources :
    sm = [m |-> Zeros(DestSize) \o <<Guard>> \o src \o Zeros(SrcSize - Len(src)) \o <<Guard>>,
          dest |-> <<>>, src |-> src, ret |-> 0, want |-> 0, n |-> 0]
Step(m, dest, ret, want) == sm' = [sm EXCEPT !.m = m, !.dest = dest, !.ret = ret, !.want = want, !.n = @ + 1]
Cut(t, n) == SubSeq(t, 1, Min({Len(t), n}))
TextThere == sm.n < MaxCalls /\ sm.dest # Torn
Room == DestSize - 1 - Len(sm.dest)

DoStrcpy == sm.n < MaxCalls /\ Len(sm.src) < DestSize /\ Step(strcpy(sm.m, Dest, Src), sm.src, 0, 0)
DoStrncpy(k) ==
    /\ sm.n < MaxCalls
    /\ Step(strncpy(sm.m, Dest, Src, k),
            IF k > Len(sm.src) THEN sm.src
            ELSE LET left == Cut(sm.src, k) \o SubSeq(sm.m, Dest + k, DestSize)
                 IN IF 0 \in Range(left) THEN Cut(left, Min({i \in DOMAIN left : left[i] = 0}) - 1) ELSE Torn, 0, 0)
DoStrlcpy(k) == sm.n < MaxCalls /\ LET r == strlcpy(sm.m, Dest, Src, k)
                                   IN Step(r.m, IF k = 0 THEN sm.dest ELSE Cut(sm.src, k - 1), r.ret, Len(sm.src))
DoStrcat == TextThere /\ Len(sm.src) <= Room /\ Step(strcat(sm.m, Dest, Src), sm.dest \o sm.src, 0, 0)
DoStrncat(k) == TextThere /\ Min({k, Len(sm.src)}) <= Room /\ Step(strncat(sm.m, Dest, Src, k), sm.dest \o Cut(sm.src, k), 0, 0)
DoStrlcat == TextThere /\ LET r == strlcat(sm.m, Dest, Src, DestSize)
                          IN Step(r.m, sm.dest \o Cut(sm.src, Room), r.ret, Len(sm.dest) + Len(sm.src))
DoStrim == TextThere /\ LET r == strim(sm.m, Dest)
                        IN Step(CopyUp(r.m, Dest, r.at, strlen(r.m, r.at) + 1),
                                LET t == sm.dest
                                    ink == {i \in DOMAIN t : ~isspace(t[i])}
                                IN IF ink = {} THEN <<>> ELSE SubSeq(t, Min(ink), Max(ink)), 0, 0)
DoStrsep == TextThere /\ LET r == strsep(sm.m, Dest, {Space})
                             spaces == {i \in DOMAIN sm.dest : sm.dest[i] = Space}
                         IN Step(r.m, IF spaces = {} THEN sm.dest ELSE Cut(sm.dest, Min(spaces) - 1),
                                 r.rest, IF spaces = {} THEN NULL ELSE Min(spaces) + 1)
DoStrreplace(a, b) == TextThere /\ Step(strreplace(sm.m, Dest, a, b), [i \in DOMAIN sm.dest |-> IF sm.dest[i] = a THEN b ELSE sm.dest[i]], 0, 0)
DoMemmove(d, s) ==
    /\ TextThere /\ d + Len(sm.dest) <= DestSize /\ s <= Len(sm.dest) + 1 /\ d <= Len(sm.dest) + 1
    /\ Step(memmove(sm.m, d, s, Len(sm.dest) + 2 - s), Cut(sm.dest, d - 1) \o SubSeq(sm.dest, s, Len(sm.dest)), 0, 0)
DoMemset(k) == TextThere /\ Step(memset(sm.m, Dest, 0, k), IF k = 0 THEN sm.dest ELSE <<>>, 0, 0)
Next == \/ DoStrcpy \/ DoStrcat \/ DoStrlcat \/ DoStrim \/ DoStrsep
        \/ \E k \in Counts : DoStrncpy(k) \/ DoStrlcpy(k) \/ DoStrncat(k) \/ DoMemset(k)
        \/ \E a, b \in Chars : DoStrreplace(a, b)
        \/ \E d, s \in 1..DestSize : DoMemmove(d, s)
Spec == Init /\ [][Next]_sm

-----------------------------------------------------------------------------
Sign(x) == IF x < 0 THEN -1 ELSE IF x > 0 THEN 1 ELSE 0
Lexical(a, b) ==
    LET diff == {i \in 1..Min({Len(a), Len(b)}) : a[i] # b[i]}
    IN IF diff = {} THEN Sign(Len(a) - Len(b)) ELSE Sign(a[Min(diff)] - b[Min(diff)])
Fold(t) == [i \in DOMAIN t |-> tolower(t[i])]

(* Whatever sequence of calls built it, the destination holds the text the *)
(* calls stand for, each call returned what it promises, no byte behind    *)
(* the destination was touched, and every search and comparison over the   *)
(* two strings agrees with its meaning on them.                            *)
StringsExact ==
    LET m == sm.m
        d == sm.dest
        s == sm.src
        at(i) == IF i = 0 THEN NULL ELSE i
        firstOf(P) == IF P = {} THEN 0 ELSE Min(P)
    IN  /\ m[DestSize + 1] = Guard /\ m[Len(m)] = Guard /\ Text(m, Src) = s /\ sm.ret = sm.want
        /\ d = Torn <=> \A q \in 1..DestSize : m[q] # 0
        /\ d # Torn =>
              /\ Text(m, Dest) = d
              /\ Sign(strcmp(m, Dest, Src)) = Lexical(d, s)
              /\ Sign(strcasecmp(m, Dest, Src)) = Lexical(Fold(d), Fold(s))
              /\ \A n \in 0..DestSize :
                    /\ strnlen(m, Dest, n) = Min({n, Len(d)})
                    /\ strncmp(m, Dest, Src, Min({n, SrcSize})) = Lexical(Cut(d, Min({n, SrcSize})), Cut(s, n))
                    /\ (strncasecmp(m, Dest, Src, Min({n, SrcSize})) = 0) = (Fold(Cut(d, Min({n, SrcSize}))) = Fold(Cut(s, n)))
              /\ \A c \in Chars :
                    LET hits == {i \in DOMAIN d : d[i] = c}
                    IN  /\ strchr(m, Dest, c) = at(firstOf(hits))
                        /\ strchrnul(m, Dest, c) = (IF hits = {} THEN Len(d) + 1 ELSE Min(hits))
                        /\ strrchr(m, Dest, c) = (IF hits = {} THEN NULL ELSE Max(hits))
                        /\ strnchr(m, Dest, 2, c) = at(firstOf(hits \intersect 1..2))
                        /\ memchr(m, Dest, c, Len(d)) = strchr(m, Dest, c)
                        /\ memscan(m, Dest, c, Len(d)) = strchrnul(m, Dest, c)
                        /\ strspn(m, Dest, {c}) + 1 = Min({i \in 1..(Len(d) + 1) : i > Len(d) \/ d[i] # c})
                        /\ strcspn(m, Dest, {c}) + 1 = strchrnul(m, Dest, c)
              /\ LET hits == {i \in 1..(Len(d) + 1) : i + Len(s) - 1 <= Len(d) /\ SubSeq(d, i, i + Len(s) - 1) = s}
                 IN strstr(m, Dest, Src) = at(firstOf(hits)) /\ strnstr(m, Dest, Src, Len(d)) = strstr(m, Dest, Src)
              /\ match_string(<<<<Space>>, d, s>>, s) = (IF s = <<Space>> THEN 0 ELSE IF s = d THEN 1 ELSE 2)
        /\ \A p \in 1..Len(m), c \in Chars \union {0} : \A n \in 0..(Len(m) - p + 1) :
              memchr_inv(m, p, c, n) = at(firstOf({q \in p..(p + n - 1) : m[q] # c}))

-----------------------------------------------------------------------------
(* string_helpers.c (escaping and back, sizes), hexdump.c (one line of a   *)
(* dump) and the command line: next_arg() and parse_option_str() of        *)
(* cmdline.c, parse_args() and parameq() of params.c.  Characters are      *)
(* their codes, a string is a sequence without its terminator.             *)
CONSTANTS RawTexts, FlagSets, Onlys, Dumps, Amounts, Commands, Results

VARIABLE tt

At(s, i) == IF i \in DOMAIN s THEN s[i] ELSE 0
From(s, i) == SubSeq(s, i, Len(s))
isprint(c) == c \in 32..126 \/ c \in 160..255
isodigit(c) == c \in 48..55
Hex(d) == IF d < 10 THEN 48 + d ELSE 87 + d
hex_to_bin(c) == CASE c \in 48..57 -> c - 48 [] c \in 97..102 -> c - 87 [] c \in 65..70 -> c - 55 [] OTHER -> -1
BackSlash == 92
Quote == 34

-----------------------------------------------------------------------------
(* Escaping.  The classes: what the letter behind the backslash stands for *)
Spaces == {<<10, 110>>, <<13, 114>>, <<9, 116>>, <<11, 118>>, <<12, 102>>}
Specials == {<<BackSlash, BackSlash>>, <<7, 97>>, <<27, 101>>}
Escaped(class, c) == {<<BackSlash, p[2]>> : p \in {q \in class : q[1] = c}}
escape_octal(c) == <<BackSlash, 48 + c \div 64, 48 + ((c \div 8) % 8), 48 + (c % 8)>>
escape_hex(c) == <<BackSlash, 120, Hex(c \div 16), Hex(c % 16)>>
EscapeChar(c, flags, only) ==
    IF ("np" \in flags /\ isprint(c)) \/ (only # {} /\ c \notin only \union {0}) THEN <<c>>
    ELSE IF "space" \in flags /\ Escaped(Spaces, c) # {} THEN CHOOSE e \in Escaped(Spaces, c) : TRUE
    ELSE IF "special" \in flags /\ Escaped(Specials, c) # {} THEN CHOOSE e \in Escaped(Specials, c) : TRUE
    ELSE IF "null" \in flags /\ c = 0 THEN <<BackSlash, 48>>
    ELSE IF "octal" \in flags THEN escape_octal(c) ELSE IF "hex" \in flags THEN escape_hex(c) ELSE <<c>>
string_escape_mem(src, flags, only) == FlattenSeq([i \in DOMAIN src |-> EscapeChar(src[i], flags, only)])
string_escape_mem_ascii(src) ==
    FlattenSeq([i \in DOMAIN src |-> IF src[i] \notin 32..126 \/ src[i] \in {Quote, BackSlash}
                                     THEN escape_hex(src[i]) ELSE <<src[i]>>])

(* unescape_*: what stands behind a backslash, and how long it is; none of *)
(* them matching gives length 0.                                           *)
Unescaped(class, s) == {[c |-> p[1], n |-> 1] : p \in {q \in class : q[2] = At(s, 1)}}
unescape_octal(s) ==
    LET a == At(s, 1) - 48
        b == a * 8 + At(s, 2) - 48
        c == b * 8 + At(s, 3) - 48
    IN  IF ~isodigit(At(s, 1)) THEN {}
        ELSE IF ~isodigit(At(s, 2)) THEN {[c |-> a, n |-> 1]}
        ELSE IF b >= 32 \/ ~isodigit(At(s, 3)) THEN {[c |-> b, n |-> 2]} ELSE {[c |-> c, n |-> 3]}
unescape_hex(s) ==
    LET hi == hex_to_bin(At(s, 2))
        lo == hex_to_bin(At(s, 3))
    IN  IF At(s, 1) # 120 \/ hi < 0 THEN {}
        ELSE IF lo < 0 THEN {[c |-> hi, n |-> 2]} ELSE {[c |-> hi * 16 + lo, n |-> 3]}
UnescapeOne(s, flags) ==
    LET try(f, r) == IF f \in flags THEN r ELSE {}
        all == <<try("space", Unescaped(Spaces, s)), try("octal", unescape_octal(s)), try("hex", unescape_hex(s)),
                 try("special", Unescaped(Specials \union {<<Quote, Quote>>}, s))>>
        hits == {i \in 1..4 : all[i] # {}}
    IN IF hits = {} THEN {} ELSE all[Min(hits)]
(* size 0 is no limit: it wraps.                                           *)
string_unescape(src, size, flags) ==
    LET RECURSIVE go(_, _, _)
        go(s, room, out) ==
            LET u == UnescapeOne(Tail(s), flags)
                x == CHOOSE r \in u : TRUE
            IN  IF s = <<>> \/ s[1] = 0 \/ room = 1 THEN out
                ELSE IF s[1] = BackSlash /\ At(s, 2) # 0 /\ (room = 0 \/ room > 2) THEN
                     LET left == IF room = 0 THEN 0 ELSE room - 2
                     IN IF u # {} THEN go(From(s, 2 + x.n), left, Append(out, x.c))
                        ELSE go(From(s, 3), left, out \o <<BackSlash, s[2]>>)
                ELSE go(Tail(s), IF room = 0 THEN 0 ELSE room - 1, Append(out, s[1]))
    IN go(src, size, <<>>)

-----------------------------------------------------------------------------
(* hex_dump_to_buffer(): ret, and the text in a buffer of size bytes.      *)
HexGroup(b) == FlattenSeq([i \in DOMAIN b |-> <<Hex(b[Len(b) + 1 - i] \div 16), Hex(b[Len(b) + 1 - i] % 16)>>])
Groups(b, g) == [k \in 1..(Len(b) \div g) |-> HexGroup(SubSeq(b, (k - 1) * g + 1, k * g))]
JoinSp(gs) == FlattenSeq([k \in DOMAIN gs |-> IF k = 1 THEN gs[k] ELSE <<32>> \o gs[k]])
Blank(n) == [i \in 1..(IF n < 0 THEN 0 ELSE n) |-> 32]
Ascii(b) == [i \in DOMAIN b |-> IF b[i] \in 32..126 THEN b[i] ELSE 46]
hex_dump_to_buffer(buf, rowsize, groupsize, size, ascii) ==
    LET row == IF rowsize \in {16, 32} THEN rowsize ELSE 16
        b == Cut(buf, row)
        g == IF groupsize \notin {1, 2, 4, 8} \/ Len(b) % groupsize # 0 THEN 1 ELSE groupsize
        n == Len(b) \div g
        column == row * 2 + row \div g + 1
        over == IF ascii THEN column + Len(b) ELSE (g * 2 + 1) * n - 1
        hex == JoinSp(Groups(b, g))
        (* bytes one by one: a blank behind each, the last taken back      *)
        fits == IF g = 1 THEN Len(hex) + 2 <= size ELSE Len(hex) < size
        line == hex \o Blank(column - Len(hex)) \o Ascii(b)
    IN  CASE size = 0 -> [ret |-> over, text |-> <<>>]
          [] size > 0 /\ b = <<>> -> [ret |-> 0, text |-> <<>>]
          [] size > 0 /\ b # <<>> /\ ~fits -> [ret |-> over, text |-> Cut(hex, size - 1)]
          [] size > 0 /\ b # <<>> /\ fits /\ ~ascii -> [ret |-> Len(hex), text |-> hex]
          [] OTHER -> [ret |-> IF Len(line) < size THEN Len(line) ELSE over, text |-> Cut(line, size - 1)]

-----------------------------------------------------------------------------
(* string_get_size(): size * blk_size in a unit, of three digits or so.    *)
(* The values stay below 32 bits: nothing is reduced before the product.   *)
RECURSIVE Reduce(_, _, _, _)
Reduce(size, rem, i, divisor) ==
    IF size < divisor THEN [size |-> size, rem |-> rem, i |-> i] ELSE Reduce(size \div divisor, size % divisor, i + 1, divisor)
Digits(n) == IF n >= 100 THEN 0 ELSE IF n >= 10 THEN 1 ELSE 2
string_get_size(size, blk, divisor) ==
    LET r == Reduce(size * blk, 0, 0, divisor)
        j == Digits(r.size)
        rem == (IF divisor = 1024 THEN (r.rem * 1000) \div 1024 ELSE r.rem) + (CASE j = 0 -> 500 [] j = 1 -> 50 [] j = 2 -> 5)
        whole == IF rem >= 1000 THEN r.size + 1 ELSE r.size
        shown == (rem % 1000) \div (CASE j = 0 -> 1000 [] j = 1 -> 100 [] j = 2 -> 10)
    IN  IF size = 0 \/ blk = 0 THEN [whole |-> 0, frac |-> 0, digits |-> 0, unit |-> 0]
        ELSE [whole |-> whole, frac |-> shown, digits |-> j, unit |-> r.i]

-----------------------------------------------------------------------------
(* The command line.                                                       *)
SkipSpaces(s) == From(s, Min({i \in 1..(Len(s) + 1) : i > Len(s) \/ ~isspace(s[i])}))
NoVal == <<-1>>
next_arg(s) ==
    LET quoted == At(s, 1) = Quote
        a == IF quoted THEN Tail(s) ELSE s
        inQuote(k) == (Cardinality({q \in 1..(k - 1) : a[q] = Quote}) % 2 = 1) # quoted
        i == Min({k \in 1..(Len(a) + 1) : k > Len(a) \/ (isspace(a[k]) /\ ~inQuote(k))}) - 1
        eqs == {k \in 2..i : a[k] = 61}
        equals == Min(eqs)
        qval == eqs # {} /\ At(a, equals + 1) = Quote
        end == IF (qval \/ quoted) /\ At(a, i) = Quote THEN i - 1 ELSE i
    IN  [param |-> SubSeq(a, 1, IF eqs = {} THEN end ELSE equals - 1),
         val |-> IF eqs = {} THEN NoVal ELSE SubSeq(a, IF qval THEN equals + 2 ELSE equals + 1, end),
         rest |-> SkipSpaces(From(a, i + 2))]
dash2underscore(c) == IF c = 45 THEN 95 ELSE c
parameq(a, b) == \A i \in 1..(Len(a) + 1) : dash2underscore(At(a, i)) = dash2underscore(At(b, i))
parse_option_str(str, option) ==
    LET RECURSIVE go(_)
        go(s) ==
            LET n == Len(option)
                hit == \A i \in 1..n : At(s, i) = option[i]
                t == IF hit THEN From(s, n + 1) ELSE s
                next == Min({i \in 1..(Len(t) + 1) : i > Len(t) \/ t[i] = 44})
            IN IF s = <<>> THEN FALSE ELSE IF hit /\ At(t, 1) \in {0, 44} THEN TRUE ELSE go(From(t, next + 1))
    IN go(str)

-----------------------------------------------------------------------------
Idle == [op |-> "idle"]
ToolsInit == tt = Idle
Escape(t, f, o) == tt = Idle /\ tt' = [op |-> "escape", text |-> t, flags |-> f, only |-> o]
Dump(d) == tt = Idle /\ tt' = [op |-> "dump", d |-> d]
GetSize(a) == tt = Idle /\ tt' = [op |-> "size", size |-> a[1], blk |-> a[2]]
(* parse_args(): one parameter after the other goes to the handler, which  *)
(* may reject it; the last rejection is what is returned.                  *)
ParseArgs(c) == tt = Idle /\ tt' = [op |-> "args", want |-> c.want, args |-> SkipSpaces(c.line), got |-> <<>>, err |-> "ok", fails |-> <<>>]
ParseOne(ret) ==
    /\ tt.op = "args"
    /\ tt.args # <<>>
    /\ \E r \in {next_arg(tt.args)} :
          IF r.val = NoVal /\ r.param = <<45, 45>>
          THEN tt' = [op |-> "stopped", want |-> tt.want, got |-> tt.got, err |-> tt.err, fails |-> tt.fails,
                      rest |-> IF tt.err = "ok" THEN r.rest ELSE <<>>]
          ELSE tt' = [tt EXCEPT !.args = r.rest, !.got = Append(@, <<r.param, r.val>>),
                                !.err = IF ret = "ok" THEN @ ELSE ret, !.fails = IF ret = "ok" THEN @ ELSE Append(@, ret)]
ToolsNext ==
    \/ \E t \in RawTexts, f \in FlagSets, o \in Onlys : Escape(t, f, o)
    \/ \E d \in Dumps : Dump(d)
    \/ \E a \in Amounts : GetSize(a)
    \/ \E c \in Commands : ParseArgs(c)
    \/ \E ret \in Results : ParseOne(ret)

-----------------------------------------------------------------------------
AllClasses == {"space", "octal", "hex", "special"}
(* What was escaped unambiguously (every backslash is, a terminator is     *)
(* too, and no digit stands raw behind a short escape) comes back; and a   *)
(* limit on the output is kept.                                            *)
EscapeExact ==
    LET f == tt.flags
        numeric == f \intersect {"octal", "hex"} # {}
        clear == /\ "np" \notin f /\ (numeric \/ "special" \in f)
                 /\ tt.only = {} \/ (BackSlash \in tt.only /\ "null" \notin f)
                 /\ "null" \in f => numeric
                 /\ 0 \in Range(tt.text) => numeric
        e == string_escape_mem(tt.text, f, tt.only)
    IN  /\ clear => string_unescape(e, 0, AllClasses) = tt.text
        /\ string_unescape(string_escape_mem_ascii(tt.text), 0, AllClasses) = tt.text
        /\ \A size \in 1..(Len(e) + 1) : Len(string_unescape(e, size, AllClasses)) < size
(* One line of a dump is cut to the buffer and its full length returned.   *)
DumpExact ==
    LET d == tt.d
        b == Cut(d.bytes, 16)
        g == IF Len(b) % d.group = 0 THEN d.group ELSE 1
        hex == JoinSp(Groups(b, g))
        line == IF d.ascii /\ b # <<>> THEN hex \o Blank(33 + 16 \div g - Len(hex)) \o Ascii(b) ELSE hex
    IN  \A size \in 1..60 : LET r == hex_dump_to_buffer(d.bytes, 16, d.group, size, d.ascii)
                            IN r.ret = Len(line) /\ r.text = Cut(line, size - 1)
(* The size shown is the true one, rounded in its last digit: half of that *)
(* digit and the thousandth the remainder was cut to are the most it is    *)
(* off.                                                                    *)
SizeExact ==
    \A divisor \in {1000, 1024} :
        LET r == string_get_size(tt.size, tt.blk, divisor)
            unit == divisor ^ r.unit
            scale == CASE r.digits = 0 -> 1000 [] r.digits = 1 -> 100 [] r.digits = 2 -> 10
            shown == r.whole * 1000 + r.frac * scale
            true == tt.size * tt.blk
            (* thousandths of the unit, from the two parts of the size     *)
            exact == (true \div unit) * 1000 + (IF unit = 1 THEN 0 ELSE (((true % unit) \div (unit \div divisor)) * 1000) \div divisor)
        IN shown - exact \in (-(scale \div 2) - 1)..(scale \div 2 + 1)
(* Each parameter of the line reaches the handler once, in order, with its *)
(* value, whichever the handler rejected before it; parsing stops at "--". *)
ArgsExact ==
    /\ tt.got = Cut(tt.want.params, Len(tt.got))
    /\ tt.err = (IF tt.fails = <<>> THEN "ok" ELSE Last(tt.fails))
    /\ tt.op = "args" /\ tt.args = <<>> => tt.got = tt.want.params /\ ~tt.want.stop
    /\ tt.op = "stopped" => tt.got = tt.want.params /\ tt.want.stop /\ (tt.err = "ok" => tt.rest = tt.want.rest)
    /\ \A i \in DOMAIN tt.got : \A p \in {tt.got[i][1]} :
          /\ parameq(p, [k \in DOMAIN p |-> IF p[k] = 95 THEN 45 ELSE p[k]])
          /\ ~parameq(p, Append(p, 97)) /\ ~parameq(Append(p, 97), p)
          /\ parse_option_str(<<97, 44>> \o p, p) /\ (p # <<97>> => ~parse_option_str(<<97, 44>> \o p \o <<97>>, p))
ToolsExact ==
    CASE tt.op = "escape" -> EscapeExact [] tt.op = "dump" -> DumpExact [] tt.op = "size" -> SizeExact
      [] tt.op \in {"args", "stopped"} -> ArgsExact [] OTHER -> TRUE
=============================================================================
