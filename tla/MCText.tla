------------------------------- MODULE MCText -------------------------------
(***************************************************************************)
(* What the kernel says and reads in one instance: the log, the formatted  *)
(* text and the parsers, the string functions, and the tools that escape,  *)
(* dump and split text.  part says which of them moves and never changes.  *)
(***************************************************************************)
EXTENDS Printf, TLC

VARIABLES part,
          inner      \* the state of the others but "log"

allVars == <<part, vars, inner>>

-----------------------------------------------------------------------------
\* Two CPUs, a buffer of 20 units (header 2, alignment 2, lines of up to 4).
\* Two lines; a line above the log level that formatting cuts to a fragment;
\* a continuation; an empty end of line.
Msg(t, nl, c, l) == [text |-> t, nl |-> nl, cont |-> c, level |-> l]
SomeMessages ==
    { Msg(<<0, 0>>, TRUE, FALSE, 1), Msg(<<4>>, TRUE, FALSE, 2),
      Msg(<<1>>, FALSE, TRUE, 1), Msg(<<0>>, TRUE, TRUE, 1) }

-----------------------------------------------------------------------------
\* Buffers of 1 to 20 characters, longs of 16 bits and ints of 8, so that the
\* strings that are parsed overflow both.
ParsedStrings ==
    UNION {[1 .. n -> {"0", "1", "7", "a", "x", "-", "+", "\n"}] : n \in 0 .. 3}
    \cup {<<"0", "x">> \o t : t \in [1 .. 4 -> {"1", "F"}] \cup [1 .. 5 -> {"1", "f"}] \cup {<<"f", "g">>}}
    \cup [1 .. 5 -> {"6", "5", "3"}]
WrittenNumbers ==
    {0, 1, 9, 10, 99, 100, 255, 999, 9999, 10000, 123456, 1000000, 9999999, 10000000, 43690699,
     99999998, 99999999, 100000000, 100000001, 2147483647, -1, -10, -2147483647}
NumberSpec(f, w, p, b) == [type |-> "int", flags |-> f, width |-> w, precision |-> p, base |-> b]
NumberSpecs ==
    {NumberSpec({"sign"}, -1, -1, 10), NumberSpec({"sign", "zeropad"}, 12, -1, 10),
     NumberSpec({"sign", "left"}, 6, 4, 10), NumberSpec({"sign", "small"}, 5, -1, 16),
     NumberSpec({"sign", "special"}, 8, -1, 8)}
IntArg(v) == [t |-> "int", v |-> v]
StrArg(v) == [t |-> "str", v |-> v]
PtrArg(v) == [t |-> "ptr", v |-> v]
Piece(f, a) == [fmt |-> f, args |-> a]
SomePieces ==
    {Piece(<<"a", "%", "3", "s", "b">>, <<StrArg(<<"x">>)>>),
     Piece(<<"%", "-", "*", "s", "|">>, <<IntArg(3), StrArg(<<"y", "y">>)>>),
     Piece(<<"%", ".", "*", "s">>, <<IntArg(2), StrArg(<<"z", "z", "z">>)>>),
     Piece(<<"%", "5", "s">>, <<[t |-> "null", v |-> 0]>>),
     Piece(<<"%", "*", "c", "%", "%">>, <<IntArg(-2), [t |-> "char", v |-> "c"]>>),
     Piece(<<"%", "p">>, <<PtrArg(10)>>), Piece(<<"%", "p", "a", "p", " ">>, <<PtrArg(10)>>),
     Piece(<<"%", "p", "e">>, <<[t |-> "err", v |-> 5, name |-> <<"-", "E", "I", "O">>]>>),
     Piece(<<"%", "p", "e">>, <<[t |-> "errno", v |-> 5]>>),
     Piece(<<"%", "6", "p", "a">>, <<[t |-> "bad", v |-> 1]>>), Piece(<<"%", "n", "x">>, <<>>),
     Piece(<<"%", "h", "h", "d", "%", "l", "u">>, <<IntArg(130), IntArg(70)>>),
     Piece(<<"%", "6", ".", "3", "d">>, <<IntArg(-7)>>)}
\* what is written with one format and read with another
Trip(o, i, v) == [out |-> o, in |-> i, vals |-> v]
Vals == {0, 1, 7, 10, 15, 99}
Dec == <<"%", "d">>
SomeTrips ==
    {Trip(Dec \o <<" ">> \o Dec, Dec \o Dec, <<v, w>>) : v, w \in Vals \cup {-1, -12}}
    \cup {Trip(<<"%", "x", ":", "%", "o">>, <<"%", "x", " ", ":", "%", "o">>, <<v, w>>) : v, w \in Vals}
    \cup {Trip(<<"%", "0", "2", "x", "%", "0", "2", "x">>, <<"%", "2", "x", "%", "2", "h", "h", "x">>, <<v, w>>) : v, w \in Vals}
    \cup {Trip(<<"%", "3", "d", "%", "0", "2", "d">>, <<"%", "2", "d", "%", "2", "u">>, <<v, w>>) : v \in {10, 99}, w \in Vals}
    \cup {Trip(<<"%", "#", "x", ",", "%", "#", "o">>, <<"%", "i", ",", "%", "i">>, <<v, w>>) : v, w \in Vals}

Format == INSTANCE TextFormat WITH
    tf <- inner, UllBits <- 16, LongBits <- 16, IntBits <- 8, ShortBits <- 8, CharBits <- 8,
    WidthMax <- 6, PrecMax <- 4, Sizes <- {1, 6, 12, 20}, MaxPieces <- 2,
    Pieces <- SomePieces, Strings <- ParsedStrings, Bases <- {0, 8, 10, 16},
    Numbers <- WrittenNumbers, Specs <- NumberSpecs, Trips <- SomeTrips,
    Lists <- UNION {[1 .. n -> {<<1, 1>>, <<2, 4>>, <<-1, -1>>, <<0, 1>>}] : n \in 0 .. 3}

-----------------------------------------------------------------------------
\* Texts with every kind of special byte, and command lines of one and two
\* parameters: plain, with a value, empty, quoted whole or in part.
EscapedTexts == UNION {[1 .. n -> {10, 92, 7, 34, 0, 200, 49, 1}] : n \in 0 .. 2}
                \cup {<<1, 49, 92>>, <<0, 49, 49>>}
EscapeFlags == {{}, {"space"}, {"special"}, {"space", "special", "null", "octal"}, {"octal"},
                {"hex"}, {"hex", "special"}, {"np", "hex"}, {"null", "octal"}, {"null", "special"}}
SomeDumps == {[bytes |-> SubSeq(<<0, 65, 255, 32, 127, 10, 66, 67, 1>>, 1, n), group |-> g, ascii |-> a] :
                 n \in {0, 1, 2, 4, 8, 9}, g \in {1, 2, 4, 8}, a \in BOOLEAN}
SomeAmounts == {0, 1, 9, 10, 99, 100, 999, 1000, 1023, 1024, 1025, 9994, 9995, 9999, 10000, 99949,
                99950, 102399, 999499, 999500, 1048575, 1048576, 3000000} \X {0, 1, 2, 7, 512}
NoVal == <<-1>>
Param(text, p, v) == [text |-> text, p |-> <<p, v>>]
Params == {Param(<<97, 45, 98>>, <<97, 45, 98>>, NoVal), Param(<<99, 61, 49>>, <<99>>, <<49>>),
           Param(<<99, 61>>, <<99>>, <<>>), Param(<<99, 61, 34, 49, 32, 50, 34>>, <<99>>, <<49, 32, 50>>),
           Param(<<34, 100, 61, 32, 50, 34>>, <<100>>, <<32, 50>>),
           Param(<<34, 100, 32, 50, 34>>, <<100, 32, 50>>, NoVal),
           Param(<<61, 97, 61, 98>>, <<61, 97>>, <<98>>), Param(<<99, 61, 97, 61, 98>>, <<99>>, <<97, 61, 98>>)}
LineEnds == {[t |-> <<>>, stop |-> FALSE, rest |-> <<>>], [t |-> <<32, 32>>, stop |-> FALSE, rest |-> <<>>],
             [t |-> <<32, 45, 45, 32, 97>>, stop |-> TRUE, rest |-> <<97>>]}
CommandLines(n) ==
    {[line |-> (IF n = 1 THEN f[1].text ELSE f[1].text \o <<32>> \o f[2].text) \o end.t,
      want |-> [params |-> [i \in 1 .. n |-> f[i].p], stop |-> end.stop, rest |-> end.rest]] :
        f \in [1 .. n -> Params], end \in LineEnds}

\* A destination of five bytes, words of two, four calls in a row.
Str == INSTANCE TextStrings WITH
    sm <- inner, DestSize <- 5, SrcSize <- 4, Sources <- {<<>>, <<97>>, <<32, 65>>, <<97, 32, 97>>},
    Counts <- {0, 2, 3, 5}, Chars <- {97, 65, 32}, Word <- 2, MaxCalls <- 4,
    tt <- inner, RawTexts <- EscapedTexts, FlagSets <- EscapeFlags, Onlys <- {{}, {92, 1}, {92, 200, 10}},
    Dumps <- SomeDumps, Amounts <- SomeAmounts,
    Commands <- CommandLines(1) \cup CommandLines(2), Results <- {"ok", "ENOENT", "EINVAL"}

-----------------------------------------------------------------------------
NoLog == ring = 0 /\ cont = 0 /\ console = 0 /\ available = 0 /\ pc = 0 /\ out = 0

AnyInit == \/ part = "log" /\ Init /\ inner = 0
           \/ part = "format" /\ NoLog /\ Format!Init
           \/ part = "string" /\ NoLog /\ Str!Init
           \/ part = "tools" /\ NoLog /\ Str!ToolsInit

AnyNext == /\ \/ part = "log" /\ Next /\ UNCHANGED inner
              \/ part = "format" /\ Format!Next /\ UNCHANGED vars
              \/ part = "string" /\ Str!Next /\ UNCHANGED vars
              \/ part = "tools" /\ Str!ToolsNext /\ UNCHANGED vars
           /\ UNCHANGED part

AnySpec == AnyInit /\ [][AnyNext]_allVars

Symmetry == Permutations(Cpus)

-----------------------------------------------------------------------------
(* printf.c, log_store() and log_next(): following the headers visits      *)
(* exactly the latest records, unharmed by what was written since, and     *)
(* every position kept across calls is where following them leads to.      *)
(* log_output() and cont_add(): every text printed is once, in order and   *)
(* whole in a record or in the line being collected, and texts of          *)
(* different tasks are never joined.                                       *)
LogExact == part = "log" => RingExact /\ PositionsExact /\ TextConserved /\ OwnersApart

(* printf.c, console_unlock(): a call that finds the console writes every  *)
(* record it has not seen and the buffer still holds, in order, with the   *)
(* number of those dropped, and log_make_free_space() drops a record only  *)
(* when the buffer is nearly full.                                         *)
LogShown == [][part = "log" => ConsoleExact /\ DropsOnlyWhenFull]_allVars

(* vsprintf.c, kstrtox.c, cmdline.c, string.c, string_helpers.c,           *)
(* hexdump.c, params.c: what is written into a buffer is the text asked    *)
(* for, cut to the buffer; what is parsed is the number the text stands    *)
(* for or the error of an overflow; whatever calls built a string, it      *)
(* holds what they stand for and no byte behind it was touched; escaped,   *)
(* dumped and scaled values can be read back, and each parameter of a      *)
(* command line reaches its handler once, in order, with its value.        *)
TextExact == /\ part = "format" => Format!TextExact
             /\ part = "string" => Str!StringsExact
             /\ part = "tools" => Str!ToolsExact
=============================================================================
