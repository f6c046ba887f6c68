---------------------------- MODULE TextFormat -----------------------------
(***************************************************************************)
(* vsprintf.c: format_decode(), vsnprintf() and its relatives, vsscanf().  *)
(*                                                                         *)
(* The text being produced is a record [out, buf]: every character the     *)
(* code steps over, and the buffer, into which it stores only in front of  *)
(* its end.  An argument is [t, v]: "int" a number, "str" a string or      *)
(* "null" / "bad" for a pointer that is none, "ptr" a pointer.             *)
(***************************************************************************)
EXTENDS Integers, Sequences, FiniteSets, SequencesExt, FiniteSetsExt

(* Bind(v, LAMBDA x : e) is LET x == v IN e, with v evaluated once.        *)
Bind(v, Op(_)) == Op(v)

-----------------------------------------------------------------------------
(* Numbers and their text: kstrtox.c, the digit generators and number() of *)
(* vsprintf.c, num_to_str(), simple_strto*(), memparse() and get_options() *)
(* of cmdline.c, hex_to_bin() and hex2bin() of hexdump.c.                  *)
(*                                                                         *)
(* A character is a string of length one, a string a sequence of them      *)
(* without its terminator; At(s, i) reads the terminator past the end.     *)
(* unsigned long long has UllBits bits, the narrower types are widths at   *)
(* most that: TLC's integers do not hold 64.  Only put_dec() runs at its   *)
(* real size, on a number cut into the 10^8 limbs do_div() cuts it into.   *)
CONSTANTS UllBits, LongBits, IntBits

Nul == ""
At(s, i) == IF i \in DOMAIN s THEN s[i] ELSE Nul
From(s, i) == SubSeq(s, i, Len(s))
Repeat(c, n) == [i \in 1..(IF n < 0 THEN 0 ELSE n) |-> c]
Pow2(n) == 2 ^ n
Wrap(x, bits) == x % Pow2(bits)
Signed(x, bits) == IF Wrap(x, bits) >= Pow2(bits - 1) THEN Wrap(x, bits) - Pow2(bits) ELSE Wrap(x, bits)

Upper == <<"0", "1", "2", "3", "4", "5", "6", "7", "8", "9", "A", "B", "C", "D", "E", "F">>
Lower == <<"0", "1", "2", "3", "4", "5", "6", "7", "8", "9", "a", "b", "c", "d", "e", "f">>
isdigit(c) == \E i \in 1..10 : Lower[i] = c
hex_to_bin(c) == IF \E i \in 1..16 : c \in {Lower[i], Upper[i]}
                 THEN (CHOOSE i \in 1..16 : c \in {Lower[i], Upper[i]}) - 1 ELSE -1
isxdigit(c) == hex_to_bin(c) >= 0
isspace(c) == c \in {" ", "\n", "\t"}
isx(c) == c \in {"x", "X"}

(* hex2bin: two digits a byte, -1 at the first that is none.               *)
hex2bin(s, count) ==
    IF \A i \in 1..(2 * count) : hex_to_bin(At(s, i)) >= 0
    THEN [i \in 1..count |-> hex_to_bin(s[2 * i - 1]) * 16 + hex_to_bin(s[2 * i])] ELSE <<-1>>
bin2hex(bytes) == FlattenSeq([i \in DOMAIN bytes |-> <<Lower[(bytes[i] \div 16) + 1], Lower[(bytes[i] % 16) + 1]>>])

-----------------------------------------------------------------------------
(* Parsing.                                                                *)
FixupRadix(s, base) ==
    LET b == IF base # 0 THEN base
             ELSE IF At(s, 1) # "0" THEN 10 ELSE IF isx(At(s, 2)) /\ isxdigit(At(s, 3)) THEN 16 ELSE 8
    IN [base |-> b, skip |-> IF b = 16 /\ At(s, 1) = "0" /\ isx(At(s, 2)) THEN 2 ELSE 0]
(* A plausible slip: the overflow is only looked for in the last digit's   *)
(* place, not in the last hex digit's.                                     *)
ParseIntegerLate(s, base) ==
    LET RECURSIVE go(_, _, _)
        go(i, res, over) ==
            LET val == hex_to_bin(At(s, i))
            IN  IF val < 0 \/ val >= base THEN [value |-> res, rv |-> i - 1, over |-> over]
                ELSE go(i + 1, Wrap(res * base + val, UllBits),
                        over \/ (res >= Pow2(UllBits - 1) /\ res > (Pow2(UllBits) - 1 - val) \div base))
    IN go(1, 0, FALSE)
_parse_integer(s, base) ==
    LET RECURSIVE go(_, _, _)
        go(i, res, over) ==
            LET val == hex_to_bin(At(s, i))
            IN  IF val < 0 \/ val >= base THEN [value |-> res, rv |-> i - 1, over |-> over]
                ELSE go(i + 1, Wrap(res * base + val, UllBits),
                        over \/ (res >= Pow2(UllBits - 4) /\ res > (Pow2(UllBits) - 1 - val) \div base))
    IN go(1, 0, FALSE)

Err(e) == [err |-> e, value |-> 0]
Ok(v) == [err |-> "ok", value |-> v]
_kstrtoull(s, base) ==
    LET f == FixupRadix(s, base)
    IN  Bind(_parse_integer(From(s, f.skip + 1), f.base), LAMBDA p :
    LET end == f.skip + p.rv + 1
        rest == IF At(s, end) = "\n" THEN end + 1 ELSE end
    IN  IF p.over THEN Err("ERANGE") ELSE IF p.rv = 0 THEN Err("EINVAL")
        ELSE IF At(s, rest) # Nul THEN Err("EINVAL") ELSE Ok(p.value))
kstrtoull(s, base) == _kstrtoull(IF At(s, 1) = "+" THEN From(s, 2) ELSE s, base)
kstrtoll(s, base) ==
    LET neg == At(s, 1) = "-"
    IN  Bind(IF neg THEN _kstrtoull(From(s, 2), base) ELSE kstrtoull(s, base), LAMBDA r :
        IF r.err # "ok" THEN r
        ELSE IF neg /\ Signed(-r.value, UllBits) > 0 THEN Err("ERANGE")
        ELSE IF ~neg /\ Signed(r.value, UllBits) < 0 THEN Err("ERANGE")
        ELSE Ok(IF neg THEN Signed(-r.value, UllBits) ELSE r.value))
(* _kstrtoul, kstrtouint, kstrtou16, kstrtou8 and their signed twins.      *)
KstrtoUnsigned(s, base, bits) ==
    LET r == kstrtoull(s, base)
    IN IF r.err = "ok" /\ r.value # Wrap(r.value, bits) THEN Err("ERANGE") ELSE r
KstrtoSigned(s, base, bits) ==
    LET r == kstrtoll(s, base)
    IN IF r.err = "ok" /\ r.value # Signed(r.value, bits) THEN Err("ERANGE") ELSE r
kstrtobool(s) ==
    CASE At(s, 1) \in {"y", "Y", "1"} -> Ok(1) [] At(s, 1) \in {"n", "N", "0"} -> Ok(0)
      [] At(s, 1) \in {"o", "O"} /\ At(s, 2) \in {"n", "N"} -> Ok(1)
      [] At(s, 1) \in {"o", "O"} /\ At(s, 2) \in {"f", "F"} -> Ok(0)
      [] OTHER -> Err("EINVAL")

(* The parsers that say where they stopped; an overflow wraps.             *)
simple_strtoull(s, base) ==
    Bind(FixupRadix(s, base), LAMBDA f :
    LET p == _parse_integer(From(s, f.skip + 1), f.base)
    IN [value |-> p.value, end |-> f.skip + p.rv + 1])
simple_strtol(s, base) ==
    LET neg == At(s, 1) = "-"
    IN  Bind(simple_strtoull(IF neg THEN From(s, 2) ELSE s, base), LAMBDA r :
       [value |-> Signed(IF neg THEN -r.value ELSE r.value, LongBits), end |-> IF neg THEN r.end + 1 ELSE r.end])
skip_atoi(s, i) ==
    LET RECURSIVE go(_, _)
        go(j, n) == IF isdigit(At(s, j)) THEN go(j + 1, n * 10 + hex_to_bin(s[j])) ELSE [value |-> n, end |-> j]
    IN go(i + 1, hex_to_bin(s[i]))
(* memparse: one more factor of 1024 for each suffix in turn.              *)
MemSuffixes == <<{"K", "k"}, {"M", "m"}, {"G", "g"}, {"T", "t"}, {"P", "p"}, {"E", "e"}>>
memparse(s) ==
    LET r == simple_strtoull(s, 0)
        n == {i \in DOMAIN MemSuffixes : At(s, r.end) \in MemSuffixes[i]}
    IN  IF n = {} THEN r
        ELSE [value |-> IF \E i \in n : 10 * i >= UllBits THEN 0 ELSE Wrap(r.value * Pow2(10 * Max(n)), UllBits), end |-> r.end + 1]

(* get_option, get_range, get_options: at most n - 1 integers.             *)
get_option(s, i) ==
    LET r == simple_strtol(From(s, i), 0)
        end == i + r.end - 1
    IN  CASE At(s, i) = Nul -> [res |-> 0, value |-> 0, at |-> i]
          [] end = i -> [res |-> 0, value |-> Signed(r.value, IntBits), at |-> i]
          [] At(s, end) = "," -> [res |-> 2, value |-> Signed(r.value, IntBits), at |-> end + 1]
          [] At(s, end) = "-" -> [res |-> 3, value |-> Signed(r.value, IntBits), at |-> end]
          [] OTHER -> [res |-> 1, value |-> Signed(r.value, IntBits), at |-> end]
get_range(ints, i, lo, up) == [j \in DOMAIN ints |-> IF j >= i /\ j - i < up - lo THEN lo + j - i ELSE ints[j]]
get_options(s, n) ==
    LET RECURSIVE go(_, _, _)
        go(i, at, ints) ==
            Bind(get_option(s, at), LAMBDA o :
            LET up == Signed(simple_strtol(From(s, o.at + 1), 0).value, IntBits)
                put == [ints EXCEPT ![i] = o.value]
                nums == up - o.value
                done(k, a, v) == [count |-> k - 1, at |-> a, ints |-> v]
            IN  IF i >= n THEN done(i, at, ints)
                ELSE IF o.res = 0 THEN done(i, o.at, ints)
                ELSE IF o.res = 3 THEN (IF nums < 0 THEN done(i, o.at + 1, put) ELSE go(i + nums, o.at + 1, get_range(put, i, o.value, up)))
                ELSE IF o.res = 1 THEN done(i + 1, o.at, put)
                ELSE go(i + 1, o.at, put))
    IN go(1, 1, [j \in 1..(n - 1) |-> 0])

-----------------------------------------------------------------------------
(* Decimal digits, least significant first, two at a time: the quotient by *)
(* 100 of x < 10^8 is x * 0x28f5c29 >> 32, here in 16-bit halves.          *)
MulShift32(x) ==
    LET xh == x \div 65536
        xl == x % 65536
        mid == xh * 23593 + xl * 655 + (xl * 23593) \div 65536
    IN xh * 655 + mid \div 65536
MulShift19(x) == (x * 5243) \div Pow2(19)
Pair(r) == <<Lower[(r % 10) + 1], Lower[(r \div 10) + 1]>>
LastPair(r) == IF r < 10 THEN <<Lower[r + 1]>> ELSE Pair(r)
put_dec_trunc8(r) ==
    LET q1 == MulShift32(r)
        q2 == MulShift32(q1)
        q3 == MulShift19(q2)
    IN  IF r < 100 THEN LastPair(r)
        ELSE Pair(r - 100 * q1) \o
             (IF q1 < 100 THEN LastPair(q1)
              ELSE Pair(q1 - 100 * q2) \o
                   (IF q2 < 100 THEN LastPair(q2) ELSE Pair(q2 - 100 * q3) \o LastPair(q3)))
put_dec_full8(r) ==
    LET q1 == MulShift32(r)
        q2 == MulShift32(q1)
        q3 == MulShift19(q2)
    IN Pair(r - 100 * q1) \o Pair(q1 - 100 * q2) \o Pair(q2 - 100 * q3) \o Pair(q3)
(* limbs: n % 10^8, then the next 8 digits, then the rest, none empty.     *)
put_dec(limbs) ==
    LET n == Len(limbs)
    IN FlattenSeq([i \in 1..n |-> IF i < n THEN put_dec_full8(limbs[i]) ELSE put_dec_trunc8(limbs[i])])
Limbs(n) == IF n < 100000000 THEN <<n>> ELSE <<n % 100000000, n \div 100000000>>
(* num_to_str                                                              *)
num_to_str(size, num, width) ==
    LET tmp == IF num <= 9 THEN <<Lower[num + 1]>> ELSE put_dec(Limbs(num))
    IN IF Len(tmp) > size \/ width > size THEN <<>> ELSE Repeat(" ", width - Len(tmp)) \o Reverse(tmp)

(* number(): what is written after the position, all of it; how much of it *)
(* lands in the buffer is the caller's end.                                *)
DigitsOf(num, base, chars) ==
    LET RECURSIVE go(_)
        go(n) == <<chars[(n % base) + 1]>> \o (IF n < base THEN <<>> ELSE go(n \div base))
    IN  IF num < base THEN <<chars[num + 1]>> ELSE IF base = 10 THEN put_dec(Limbs(num)) ELSE go(num)
number(num, spec) ==
    LET chars == IF "small" \in spec.flags THEN Lower ELSE Upper
        flags == IF "left" \in spec.flags THEN spec.flags \ {"zeropad"} ELSE spec.flags
        neg == "sign" \in flags /\ num < 0
        abs == IF neg THEN -num ELSE num
        sign == IF "sign" \notin flags THEN <<>> ELSE IF neg THEN <<"-">>
                ELSE IF "plus" \in flags THEN <<"+">> ELSE IF "space" \in flags THEN <<" ">> ELSE <<>>
        prefix == IF "special" \notin flags \/ spec.base = 10 THEN <<>>
                  ELSE IF spec.base = 16 THEN <<"0", IF "small" \in flags THEN "x" ELSE "X">>
                  ELSE IF num = 0 THEN <<>> ELSE <<"0">>
    IN  Bind(DigitsOf(abs, spec.base, chars), LAMBDA tmp :
    LET precision == Max({Len(tmp), spec.precision})
        pad == spec.width - Len(sign) - Len(prefix) - precision
        lead == IF flags \intersect {"zeropad", "left"} = {} THEN Repeat(" ", pad) ELSE <<>>
        zeros == IF "zeropad" \in flags THEN Repeat("0", pad) ELSE <<>>
        trail == IF "left" \in flags THEN Repeat(" ", pad) ELSE <<>>
    IN lead \o sign \o prefix \o zeros \o Repeat("0", precision - Len(tmp)) \o Reverse(tmp) \o trail)

-----------------------------------------------------------------------------
CONSTANTS ShortBits, CharBits, WidthMax, PrecMax

(* if (buf < end) *buf = c; ++buf; for every character of cs.              *)
Put(o, cs) ==
    [out |-> o.out \o cs,
     buf |-> [i \in DOMAIN o.buf |-> IF i - Len(o.out) \in DOMAIN cs THEN cs[i - Len(o.out)] ELSE o.buf[i]]]

(* move_right, widen_string: the text is already there when its field is   *)
(* found to be wider.                                                      *)
MoveRight(buf, from, len, spaces) ==
    LET size == Len(buf) - from
        n == IF len > size - spaces THEN size - spaces ELSE len
    IN  IF size <= 0 THEN buf
        ELSE IF size <= spaces THEN [i \in DOMAIN buf |-> IF i > from THEN " " ELSE buf[i]]
        ELSE [i \in DOMAIN buf |-> IF i <= from THEN buf[i] ELSE IF i <= from + spaces THEN " "
                                   ELSE IF i <= from + spaces + n THEN buf[i - spaces] ELSE buf[i]]
widen_string(o, n, spec) ==
    LET spaces == spec.width - n
        from == Len(o.out) - n
    IN  IF n >= spec.width THEN o
        ELSE IF "left" \in spec.flags THEN Put(o, Repeat(" ", spaces))
        ELSE [out |-> SubSeq(o.out, 1, from) \o Repeat(" ", spaces) \o From(o.out, from + 1),
              buf |-> MoveRight(o.buf, from, n, spaces)]
string_nocheck(o, s, spec) ==
    LET n == IF spec.precision >= 0 /\ spec.precision < Len(s) THEN spec.precision ELSE Len(s)
    IN widen_string(Put(o, SubSeq(s, 1, n)), n, spec)
(* check_pointer, error_string                                             *)
ErrorString(o, s, spec) == string_nocheck(o, s, IF spec.precision = -1 THEN [spec EXCEPT !.precision = 16] ELSE spec)
PointerMsg(kind) == IF kind = "null" THEN <<"(", "n", "u", "l", "l", ")">> ELSE <<"(", "e", "f", "a", "u", "l", "t", ")">>
string(o, a, spec) ==
    IF a.t \in {"null", "bad"} THEN ErrorString(o, PointerMsg(a.t), spec) ELSE string_nocheck(o, a.v, spec)
(* pointer(): %pa a value of PtrBytes bytes, %pe a symbolic error, else    *)
(* the address itself.                                                     *)
PtrBytes == 2
SpecialHex(o, num) == Put(o, number(num, [flags |-> {"special", "small", "zeropad"}, base |-> 16, precision |-> -1, width |-> 2 + 2 * PtrBytes]))
address_val(o, a, spec) == IF a.t \in {"null", "bad"} THEN ErrorString(o, PointerMsg(a.t), spec) ELSE SpecialHex(o, a.v)
err_ptr(o, a, spec) ==
    IF a.t = "err" THEN string_nocheck(o, a.name, spec)
    ELSE Put(o, number(-a.v, [spec EXCEPT !.flags = @ \union {"sign"}, !.base = 10]))
pointer_string(o, a, spec) ==
    LET hex == [spec EXCEPT !.base = 16, !.flags = @ \union (IF spec.width = -1 THEN {"small", "zeropad"} ELSE {"small"}),
                            !.width = IF @ = -1 THEN 2 * PtrBytes ELSE @]
    IN Put(o, number(IF a.t = "null" THEN 0 ELSE a.v, hex))
pointer(o, mod, a, spec) ==
    CASE mod = "a" -> address_val(o, a, spec)
      [] mod = "e" /\ a.t \in {"err", "errno"} -> err_ptr(o, a, spec)
      [] OTHER -> pointer_string(o, a, spec)

-----------------------------------------------------------------------------
(* format_decode(): one piece of the format from i on, resumed after the   *)
(* '*' of a width or a precision with the argument already in the spec.    *)
NoSpec == [type |-> "none", flags |-> {}, width |-> 0, precision |-> 0, base |-> 0]
FlagOf(c) == CASE c = "-" -> "left" [] c = "+" -> "plus" [] c = " " -> "space" [] c = "#" -> "special" [] c = "0" -> "zeropad"
DecodeConversion(fmt, i, q, spec) ==
    LET c == At(fmt, i)
        d(type, flags, base) == [at |-> i + 1, spec |-> [spec EXCEPT !.type = type, !.flags = @ \union flags, !.base = base]]
        int == IF q = "" THEN "int" ELSE q
    IN  CASE c = "c" -> d("char", {}, 10) [] c = "s" -> d("str", {}, 10) [] c = "p" -> d("ptr", {}, 10)
          [] c = "%" -> d("percent", {}, 10) [] c = "o" -> d(int, {}, 8) [] c = "x" -> d(int, {"small"}, 16)
          [] c = "X" -> d(int, {}, 16) [] c \in {"d", "i"} -> d(int, {"sign"}, 10) [] c = "u" -> d(int, {}, 10)
          [] OTHER -> [at |-> i, spec |-> [spec EXCEPT !.type = "invalid", !.base = 10]]
DecodeQualifier(fmt, i, spec) ==
    LET c == At(fmt, i)
        twice == At(fmt, i + 1) = c
    IN  CASE c = "h" /\ twice -> DecodeConversion(fmt, i + 2, "H", spec)
          [] c = "l" /\ twice -> DecodeConversion(fmt, i + 2, "L", spec)
          [] c \in {"h", "l", "L", "z", "t"} -> DecodeConversion(fmt, i + 1, c, spec)
          [] OTHER -> DecodeConversion(fmt, i, "", spec)
DecodePrecision(fmt, i, spec) ==
    LET n == skip_atoi(fmt, i + 1)
        none == [spec EXCEPT !.precision = -1]
    IN  IF At(fmt, i) # "." THEN DecodeQualifier(fmt, i, none)
        ELSE IF isdigit(At(fmt, i + 1)) THEN DecodeQualifier(fmt, n.end, [spec EXCEPT !.precision = n.value])
        ELSE IF At(fmt, i + 1) = "*" THEN [at |-> i + 2, spec |-> [none EXCEPT !.type = "precision"]]
        ELSE DecodeQualifier(fmt, i + 1, none)
format_decode(fmt, i, spec) ==
    LET plain == {j \in i..(Len(fmt) + 1) : j > Len(fmt) \/ fmt[j] = "%"}
        ends == {j \in (i + 1)..(Len(fmt) + 1) : At(fmt, j) \notin {"-", "+", " ", "#", "0"}}
        j == Min(ends)
        flagged == [spec EXCEPT !.type = "none", !.flags = {FlagOf(fmt[k]) : k \in (i + 1)..(j - 1)}, !.width = -1]
        n == skip_atoi(fmt, j)
    IN  CASE spec.type = "width" ->
               DecodePrecision(fmt, i, [spec EXCEPT !.type = "none", !.width = IF @ < 0 THEN -@ ELSE @,
                                                    !.flags = IF spec.width < 0 THEN @ \union {"left"} ELSE @])
          [] spec.type = "precision" ->
               DecodeQualifier(fmt, i, [spec EXCEPT !.type = "none", !.precision = IF @ < 0 THEN 0 ELSE @])
          [] OTHER ->
               IF Min(plain) # i THEN [at |-> Min(plain), spec |-> [spec EXCEPT !.type = "none"]]
               ELSE IF isdigit(At(fmt, j)) THEN DecodePrecision(fmt, n.end, [flagged EXCEPT !.width = n.value])
               ELSE IF At(fmt, j) = "*" THEN [at |-> j + 1, spec |-> [flagged EXCEPT !.type = "width"]]
               ELSE DecodePrecision(fmt, j, flagged)

Clamp(x, lo, hi) == IF x < lo THEN lo ELSE IF x > hi THEN hi ELSE x
set_field_width(spec, w) == [spec EXCEPT !.width = Clamp(w, -WidthMax, WidthMax)]
set_precision(spec, p) == [spec EXCEPT !.precision = IF p \in (-PrecMax - 1)..PrecMax THEN p ELSE Clamp(p, 0, PrecMax)]
Converted(type, sign, v) ==
    LET bits == CASE type = "H" -> CharBits [] type = "h" -> ShortBits [] type = "int" -> IntBits
                  [] type \in {"l", "z", "t"} -> LongBits [] OTHER -> UllBits
    IN IF sign \/ type = "t" THEN (IF sign THEN Signed(v, bits) ELSE Wrap(Signed(v, bits), UllBits)) ELSE Wrap(v, bits)
CharField(o, c, spec) ==
    LET pad == Repeat(" ", spec.width - 1)
    IN IF "left" \in spec.flags THEN Put(o, <<c>> \o pad) ELSE Put(o, pad \o <<c>>)
Letters == {"a", "b", "c", "d", "e", "f", "g", "h", "i", "l", "n", "o", "p", "s", "t", "u", "x", "z",
            "A", "B", "C", "D", "E", "F", "L", "X"}
isalnum(c) == isdigit(c) \/ c \in Letters
SkipAlnum(fmt, i) == Min({j \in i..(Len(fmt) + 1) : ~isalnum(At(fmt, j))})

(* vsnprintf(); the last character stored is the terminator, after the     *)
(* text or over the last place of the buffer.                              *)
vsnprintf(buf, fmt, args) ==
    LET RECURSIVE go(_, _, _, _)
        go(i, spec, rest, o) ==
            Bind(format_decode(fmt, i, spec), LAMBDA d :
            LET a == Head(rest)
                more(x) == go(d.at, d.spec, Tail(rest), x)
            IN  IF i > Len(fmt) THEN o
                ELSE CASE d.spec.type = "none" -> go(d.at, d.spec, rest, Put(o, SubSeq(fmt, i, d.at - 1)))
                       [] d.spec.type = "width" -> go(d.at, set_field_width(d.spec, a.v), Tail(rest), o)
                       [] d.spec.type = "precision" -> go(d.at, set_precision(d.spec, a.v), Tail(rest), o)
                       [] d.spec.type = "char" -> more(CharField(o, a.v, d.spec))
                       [] d.spec.type = "str" -> more(string(o, a, d.spec))
                       [] d.spec.type = "ptr" -> go(SkipAlnum(fmt, d.at), d.spec, Tail(rest), pointer(o, At(fmt, d.at), a, d.spec))
                       [] d.spec.type = "percent" -> go(d.at, d.spec, rest, Put(o, <<"%">>))
                       [] d.spec.type = "invalid" -> o
                       [] OTHER -> more(Put(o, number(Converted(d.spec.type, "sign" \in d.spec.flags, a.v), d.spec))))
        size == Len(buf)
    IN  Bind(go(1, NoSpec, args, [out |-> <<>>, buf |-> buf]), LAMBDA o :
        LET n == Len(o.out)
        IN  [ret |-> n, out |-> o.out,
             buf |-> IF size = 0 THEN o.buf ELSE [o.buf EXCEPT ![IF n < size THEN n + 1 ELSE size] = Nul]])
vscnprintf(buf, fmt, args) ==
    Bind(vsnprintf(buf, fmt, args), LAMBDA r :
       IF r.ret < Len(buf) THEN r ELSE [r EXCEPT !.ret = IF Len(buf) = 0 THEN 0 ELSE Len(buf) - 1])

-----------------------------------------------------------------------------
(* vsscanf(): the values stored, in order.                                 *)
SkipSpaces(s, i) == Min({j \in i..(Len(s) + 1) : ~isspace(At(s, j))})
ScanQualifier(fmt, i) ==
    LET c == At(fmt, i)
    IN  CASE c \in {"h", "l"} /\ At(fmt, i + 1) = c -> [q |-> IF c = "h" THEN "H" ELSE "L", at |-> i + 2]
          [] c \in {"h", "l", "L", "z"} -> [q |-> c, at |-> i + 1]
          [] OTHER -> [q |-> "int", at |-> i]
DivTrunc(v, b) == IF v < 0 THEN -((-v) \div b) ELSE v \div b
RECURSIVE DivTimes(_, _, _)
DivTimes(v, b, n) == IF n <= 0 THEN v ELSE DivTimes(DivTrunc(v, b), b, n - 1)
(* A number from i on, of at most width characters if width > 0.           *)
ScanNumber(s, i, base, sign, width, q) ==
    LET t == From(s, i)
        r == IF sign THEN simple_strtol(t, base) ELSE simple_strtoull(t, base)
        b == IF base = 0 THEN FixupRadix(t, 0).base ELSE base
        over == IF width > 0 THEN (r.end - 1) - width ELSE 0
    IN [value |-> Converted(q, sign /\ q # "z", DivTimes(r.value, b, over)), at |-> i + r.end - 1 - (IF over > 0 THEN over ELSE 0)]
ScanStarts(c, base) == c # Nul /\ CASE base = 16 -> isxdigit(c) [] base = 8 -> isdigit(c) /\ c \notin {"8", "9"} [] OTHER -> isdigit(c)
vsscanf(s, fmt) ==
    LET RECURSIVE go(_, _, _)
        go(f0, s0, got) ==
            LET space == isspace(At(fmt, f0))
                f == IF space THEN SkipSpaces(fmt, f0 + 1) ELSE f0
                i == IF space THEN SkipSpaces(s, s0) ELSE s0
                star == Min({j \in (f + 1)..(Len(fmt) + 1) : isspace(At(fmt, j)) \/ At(fmt, j) \in {"%", Nul, "["}})
                w == skip_atoi(fmt, f + 1)
                wide == isdigit(At(fmt, f + 1))
                width == IF wide THEN w.value ELSE -1
            IN  Bind(ScanQualifier(fmt, IF wide THEN w.end ELSE f + 1), LAMBDA ql :
            LET c == At(fmt, ql.at)
                sw == SkipSpaces(s, i)
                take(from, stop(_), most) == LET ends == {j \in from..(Len(s) + 1) : stop(At(s, j)) \/ At(s, j) = Nul}
                                          IN IF most >= 0 /\ Min(ends) - from > most THEN from + most ELSE Min(ends)
                negate == At(fmt, ql.at + 1) = "^"
                set0 == IF negate THEN ql.at + 2 ELSE ql.at + 1
                close == {j \in set0..Len(fmt) : fmt[j] = "]"}
                set == {fmt[j] : j \in set0..(Min(close) - 1)}
                base == CASE c = "o" -> 8 [] c \in {"x", "X"} -> 16 [] c = "i" -> 0 [] OTHER -> 10
                sign == c \in {"i", "d"}
                digit == IF sign /\ At(s, sw) = "-" THEN At(s, sw + 1) ELSE At(s, sw)
                num == ScanNumber(s, sw, base, sign, width, ql.q)
            IN  IF At(fmt, f) = Nul THEN got
                ELSE IF At(fmt, f) # "%" THEN (IF At(fmt, f) = At(s, i) THEN go(f + 1, i + 1, got) ELSE got)
                ELSE IF At(fmt, f + 1) = "*" THEN
                     (IF At(s, i) = Nul \/ At(fmt, star) = "[" THEN got ELSE go(star, take(i, isspace, -1), got))
                ELSE IF wide /\ width <= 0 THEN got
                ELSE IF c = Nul THEN got
                ELSE IF c = "n" THEN go(ql.at + 1, i, Append(got, [t |-> "n", v |-> i - 1]))
                ELSE IF At(s, i) = Nul THEN got
                ELSE CASE c = "c" ->
                          LET end == take(i, LAMBDA x : FALSE, IF width = -1 THEN 1 ELSE width)
                          IN go(ql.at + 1, end, Append(got, [t |-> "text", v |-> SubSeq(s, i, end - 1)]))
                     [] c = "s" ->
                          LET end == take(sw, isspace, width)
                          IN go(ql.at + 1, end, Append(got, [t |-> "text", v |-> SubSeq(s, sw, end - 1)]))
                     [] c = "[" ->
                          (IF width = -1 \/ close = {} \/ Min(close) = set0 \/ (At(s, i) \in set) = negate THEN got
                           ELSE LET end == take(i, LAMBDA x : (x \in set) = negate, width)
                                IN go(Min(close) + 1, end, Append(got, [t |-> "text", v |-> SubSeq(s, i, end - 1)])))
                     [] c = "%" -> (IF At(s, i) = "%" THEN go(ql.at + 1, i + 1, got) ELSE got)
                     [] c \in {"o", "x", "X", "i", "d", "u"} ->
                          (IF ~ScanStarts(digit, base) THEN got
                           ELSE go(ql.at + 1, num.at, Append(got, [t |-> "num", v |-> num.value])))
                     [] OTHER -> got)
    IN go(1, 1, <<>>)

-----------------------------------------------------------------------------
(* A line built up by repeated calls, len += scnprintf(buf + len, size -   *)
(* len, ...), and calls on inputs of their own: a string to parse, a       *)
(* number to write, values to write and to scan back.                      *)
CONSTANTS Sizes, Pieces, Strings, Bases, Numbers, Specs, Trips, Lists, MaxPieces

VARIABLE tf

Init == \E size \in Sizes :
            tf = [buf |-> Repeat("?", size), len |-> 0, full |-> <<>>, n |-> 0, str |-> <<>>, base |-> 0,
                  num |-> 0, spec |-> NoSpec, trip |-> [out |-> <<>>, in |-> <<>>, vals |-> <<>>], list |-> <<>>]
AppendPiece(p) ==
    /\ tf.n < MaxPieces
    /\ \E r \in {vscnprintf(From(tf.buf, tf.len + 1), p.fmt, p.args)} :
          tf' = [tf EXCEPT !.buf = SubSeq(tf.buf, 1, tf.len) \o r.buf, !.len = @ + r.ret, !.full = @ \o r.out, !.n = @ + 1]
Fresh == tf.n = 0 /\ Len(tf.buf) = Min(Sizes)
TryParse(s, base) == Fresh /\ tf' = [tf EXCEPT !.str = s, !.base = base, !.n = MaxPieces]
TryNumber(v, spec) == Fresh /\ tf' = [tf EXCEPT !.num = v, !.spec = spec, !.n = MaxPieces]
TryTrip(t) == Fresh /\ tf' = [tf EXCEPT !.trip = t, !.n = MaxPieces]
TryList(l) == Fresh /\ tf' = [tf EXCEPT !.list = l, !.n = MaxPieces]
Next == \/ \E p \in Pieces : AppendPiece(p)
        \/ \E s \in Strings, base \in Bases : TryParse(s, base)
        \/ \E v \in Numbers, spec \in Specs : TryNumber(v, spec)
        \/ \E t \in Trips : TryTrip(t)
        \/ \E l \in Lists : TryList(l)
Spec == Init /\ [][Next]_tf

-----------------------------------------------------------------------------
(* A line holds what fits of everything appended to it, one terminator     *)
(* right after that, and no character behind it was ever written.          *)
LineExact ==
    LET size == Len(tf.buf)
        fits == IF Len(tf.full) < size THEN Len(tf.full) ELSE size - 1
    IN  size > 0 /\ tf.full # <<>> =>
            /\ tf.len = fits
            /\ tf.buf = SubSeq(tf.full, 1, fits) \o <<Nul>> \o Repeat("?", size - fits - 1)

(* What the digits of s mean in a base, and the numbers as they may be     *)
(* written: a prefix for base 16, digits, an optional newline.             *)
ValueOf(s, base) == FoldLeft(LAMBDA v, c : v * base + hex_to_bin(c), 0, s)
Denotes(s, base) ==
    Bind(IF At(s, Len(s)) = "\n" THEN SubSeq(s, 1, Len(s) - 1) ELSE s, LAMBDA body :
    LET x == Len(body) > 2 /\ body[1] = "0" /\ isx(body[2]) /\ isxdigit(body[3])
        b == IF base # 0 THEN base ELSE IF x THEN 16 ELSE IF At(body, 1) = "0" THEN 8 ELSE 10
        ds == IF x /\ b = 16 THEN From(body, 3) ELSE body
    IN IF ds # <<>> /\ \A i \in DOMAIN ds : hex_to_bin(ds[i]) \in 0..(b - 1) THEN {ValueOf(ds, b)} ELSE {})
UnsignedOf(s, base) == IF At(s, 1) = "+" THEN Denotes(From(s, 2), base) ELSE Denotes(s, base)
SignedOf(s, base) == IF At(s, 1) = "-" THEN {-v : v \in Denotes(From(s, 2), base)} ELSE UnsignedOf(s, base)

(* The kstrto*() family accepts exactly the strings that denote a number   *)
(* of the type and returns that number; the simple_strto*() family stops   *)
(* behind the longest such prefix.                                         *)
ParsesExact ==
    LET s == tf.str
        b == tf.base
        fits(vs, lo, hi) == {v \in vs : v \in lo..hi}
        agrees(r, vs) == (IF r.err = "ok" THEN {r.value} ELSE {}) = vs
    IN  /\ agrees(kstrtoull(s, b), fits(UnsignedOf(s, b), 0, Pow2(UllBits) - 1))
        /\ agrees(kstrtoll(s, b), fits(SignedOf(s, b), -Pow2(UllBits - 1), Pow2(UllBits - 1) - 1))
        /\ agrees(KstrtoUnsigned(s, b, IntBits), fits(UnsignedOf(s, b), 0, Pow2(IntBits) - 1))
        /\ agrees(KstrtoSigned(s, b, IntBits), fits(SignedOf(s, b), -Pow2(IntBits - 1), Pow2(IntBits - 1) - 1))
        /\ s \in {<<"0">>, <<"1">>} => kstrtobool(s) = kstrtoull(s, 10)
        /\ \E r \in {simple_strtoull(s, b)} :
              /\ r.end > 1 => Denotes(SubSeq(s, 1, r.end - 1), b) \subseteq {v \in Nat : Wrap(v, UllBits) = r.value}
              /\ \A i \in r.end..Len(s) : s[i] # "\n" => Denotes(SubSeq(s, 1, i), b) = {}
              /\ b = 0 => memparse(SubSeq(s, 1, r.end - 1) \o <<"k">>) = [value |-> Wrap(r.value * 1024, UllBits), end |-> r.end + 1]

(* number() writes the number: the digits read back give it, without a     *)
(* superfluous zero, in a field of at least the width.                     *)
NumbersExact ==
    LET t == number(tf.num, tf.spec)
        ds == SelectSeq(t, isxdigit)
        neg == tf.num < 0
        least == Max({tf.spec.precision, 1})
        digits == DigitsOf(IF neg THEN -tf.num ELSE tf.num, tf.spec.base, Lower)
    IN  tf.spec.type # "none" =>
            /\ ValueOf(ds, tf.spec.base) = (IF neg THEN -tf.num ELSE tf.num)
            /\ ("-" \in Range(t)) = neg
            /\ Len(t) >= tf.spec.width
            /\ Len(t) > tf.spec.width /\ Len(ds) > least /\ "special" \notin tf.spec.flags => ds[1] # "0"
            /\ \A size \in 0..12 : ~neg /\ tf.spec.base = 10 =>
                  num_to_str(size, tf.num, 3) = (IF Max({3, Len(digits)}) > size THEN <<>> ELSE Repeat(" ", 3 - Len(digits)) \o Reverse(digits))
            /\ Reverse(digits) = SelectSeq(Reverse(digits), isxdigit) /\ (Len(digits) > 1 => Last(digits) # "0")

(* Values written with one format and scanned with the other come back.    *)
TripsExact ==
    LET t == tf.trip
    IN  Bind(vsscanf(vsnprintf(<<>>, t.out, [i \in DOMAIN t.vals |-> [t |-> "int", v |-> t.vals[i]]]).out, t.in), LAMBDA got :
    LET bytes == [i \in DOMAIN t.vals |-> Wrap(t.vals[i], 8)]
    IN [i \in DOMAIN got |-> got[i].v] = t.vals /\ hex2bin(bin2hex(bytes), Len(bytes)) = bytes)

(* A list of numbers and ascending ranges is read back by get_options()    *)
(* as the numbers it stands for, as many as the array holds.               *)
ListsExact ==
    LET text(r) == vsnprintf(<<>>, IF r[1] = r[2] THEN <<"%", "d">> ELSE <<"%", "d", "-", "%", "d">>,
                             <<[t |-> "int", v |-> r[1]], [t |-> "int", v |-> r[2]]>>).out
    IN  Bind(FlattenSeq([i \in DOMAIN tf.list |-> IF i = 1 THEN text(tf.list[i]) ELSE <<",">> \o text(tf.list[i])]), LAMBDA str :
    LET all == FlattenSeq([i \in DOMAIN tf.list |-> [j \in 1..(tf.list[i][2] - tf.list[i][1] + 1) |-> tf.list[i][1] + j - 1]])
    IN  \A n \in 1..6 : Bind(get_options(str, n), LAMBDA r :
                        LET got == Min({Len(all), n - 1})
                        IN  SubSeq(r.ints, 1, got) = SubSeq(all, 1, got) /\ r.count >= got /\ (Len(all) < n => r.count = got /\ r.at = Len(str) + 1)))
TextExact == LineExact /\ ParsesExact /\ NumbersExact /\ TripsExact /\ ListsExact
=============================================================================
