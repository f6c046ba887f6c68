---------------------------- MODULE MemblockSpec ----------------------------
(***************************************************************************)
(* What memblock promises its callers: a map from addresses to the         *)
(* attributes of the memory there, and a set of reserved addresses.  How   *)
(* the ranges are cut, merged and stored is invisible, except that a full  *)
(* array makes an operation fail without effect.                           *)
(***************************************************************************)
EXTENDS Integers

CONSTANTS Top,        \* PHYS_ADDR_MAX; no address reaches it
          FlagBits,   \* the bits of enum memblock_flags
          Nomap       \* MEMBLOCK_NOMAP

Addrs == 0..(Top - 1)

VARIABLES mem,        \* per address, the set of the flags of the memory there: empty or one
          res         \* the reserved addresses

vars == <<mem, res>>

Init == /\ mem = [a \in Addrs |-> {}]
        /\ res = {}

Span(lo, hi) == {a \in Addrs : lo <= a /\ a < hi}

\* Memory that is already there keeps its flags.
Add(r) == /\ mem' = [a \in Addrs |-> IF a \in r /\ mem[a] = {} THEN {{}} ELSE mem[a]]
          /\ UNCHANGED res

Remove(r) == /\ mem' = [a \in Addrs |-> IF a \in r THEN {} ELSE mem[a]]
             /\ UNCHANGED res

Mark(r, f) ==
    /\ mem' = [a \in Addrs |-> IF a \in r THEN {m \cup {f} : m \in mem[a]} ELSE mem[a]]
    /\ UNCHANGED res

Clear(r, f) ==
    /\ mem' = [a \in Addrs |-> IF a \in r THEN {m \ {f} : m \in mem[a]} ELSE mem[a]]
    /\ UNCHANGED res

Reserve(r) == res' = res \cup r /\ UNCHANGED mem

Free(r) == res' = res \ r /\ UNCHANGED mem

\* Everything outside [lo, hi) goes: memory (what the kernel does not map may
\* be spared) and the reservations below and above, each of which a full array
\* may prevent.
Cap(lo, hi) ==
    /\ \E spared \in {{}, {m \in SUBSET FlagBits : Nomap \in m}, SUBSET FlagBits} :
          mem' = [a \in Addrs |-> IF a \in Span(lo, hi) THEN mem[a] ELSE mem[a] \cap spared]
    /\ res' \in {res \cap Span(l, h) : l \in {0, lo}, h \in {hi, Top}}

Next == \E lo \in Addrs : \E hi \in (lo + 1)..Top : LET r == Span(lo, hi) IN
    \/ Add(r)
    \/ Remove(r)
    \/ \E f \in FlagBits : Mark(r, f) \/ Clear(r, f)
    \/ Reserve(r)
    \/ Free(r)
    \/ Cap(lo, hi)

Spec == Init /\ [][Next]_vars
=============================================================================
