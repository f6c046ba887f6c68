------------------------------- MODULE Clock --------------------------------
(***************************************************************************)
(* The calendar of lib/base (time64_to_tm() of timeconv.c, mktime64() of   *)
(* time.c) and the arithmetic of struct timespec64.                        *)
(*                                                                         *)
(* The calendar is checked against one that is kept day by day, forwards   *)
(* and backwards from January 1, 1970.  The arithmetic has SecBits bits of *)
(* seconds and Nsec nanoseconds in one.                                    *)
(***************************************************************************)
EXTENDS Integers, Sequences, SequencesExt

(* Bind(v, LAMBDA x : e) is LET x == v IN e, with v evaluated once.        *)
Bind(v, Op(_)) == Op(v)

CONSTANTS FirstDay, LastDay, Offsets, Seconds, SecBits, Nsec
VARIABLE tc

(* The division and the remainder of C round towards zero.                 *)
Quo(a, b) == IF a >= 0 THEN a \div b ELSE -((-a) \div b)
Rem(a, b) == a - b * Quo(a, b)

__isleap(y) == Rem(y, 4) = 0 /\ (Rem(y, 100) # 0 \/ Rem(y, 400) = 0)
math_div(a, b) == Quo(a, b) - (IF Rem(a, b) < 0 THEN 1 ELSE 0)
Leaps(y) == math_div(y - 1, 4) - math_div(y - 1, 100) + math_div(y - 1, 400)
leaps_between(y1, y2) == Leaps(y2) - Leaps(y1)
__mon_yday(leap) ==
    IF leap THEN <<0, 31, 60, 91, 121, 152, 182, 213, 244, 274, 305, 335, 366>>
    ELSE <<0, 31, 59, 90, 120, 151, 181, 212, 243, 273, 304, 334, 365>>
SECS_PER_DAY == 86400

(* The year is guessed with years of 365 days until the rest of the days   *)
(* lies in it.                                                             *)
RECURSIVE FindYear(_, _)
FindYear(y, days) ==
    IF days >= 0 /\ days < (IF __isleap(y) THEN 366 ELSE 365) THEN <<y, days>>
    ELSE LET yg == y + math_div(days, 365) IN FindYear(yg, days - ((yg - y) * 365 + leaps_between(y, yg)))
time64_to_tm(totalsecs, offset) ==
    LET rem0 == Rem(totalsecs, SECS_PER_DAY) + offset
        days == Quo(totalsecs, SECS_PER_DAY) + (rem0 \div SECS_PER_DAY)
        rem == rem0 % SECS_PER_DAY
    IN  Bind(FindYear(1970, days), LAMBDA f :
    LET ip == __mon_yday(__isleap(f[1]))
        mon == CHOOSE i \in 0 .. 11 : ip[i + 1] <= f[2] /\ \A j \in i + 1 .. 11 : f[2] < ip[j + 1]
        wday == Rem(4 + days, 7)
    IN [hour |-> rem \div 3600, min |-> (rem % 3600) \div 60, sec |-> rem % 60, wday |-> IF wday < 0 THEN wday + 7 ELSE wday,
        year |-> f[1] - 1900, yday |-> f[2], mon |-> mon, mday |-> 1 + f[2] - ip[mon + 1]])
mktime64(year0, mon0, day, hour, min, sec) ==
    LET mon == IF mon0 - 2 <= 0 THEN mon0 + 10 ELSE mon0 - 2
        year == IF mon0 - 2 <= 0 THEN year0 - 1 ELSE year0
        days == ((year \div 4) - (year \div 100) + (year \div 400) + ((367 * mon) \div 12) + day) + year * 365 - 719499
    IN ((days * 24 + hour) * 60 + min) * 60 + sec
-----------------------------------------------------------------------------
TIME64_MAX == 2 ^ (SecBits - 1) - 1
Wrap(s) == ((s + TIME64_MAX + 1) % (2 ^ SecBits)) - (TIME64_MAX + 1)
Ts(sec, nsec) == [sec |-> sec, nsec |-> nsec]
RECURSIVE set_normalized_timespec64(_, _)
set_normalized_timespec64(sec, nsec) ==
    IF nsec >= Nsec THEN set_normalized_timespec64(Wrap(sec + 1), nsec - Nsec)
    ELSE IF nsec < 0 THEN set_normalized_timespec64(Wrap(sec - 1), nsec + Nsec) ELSE Ts(sec, nsec)
timespec64_add(l, r) == set_normalized_timespec64(Wrap(l.sec + r.sec), l.nsec + r.nsec)
timespec64_sub(l, r) == set_normalized_timespec64(Wrap(l.sec - r.sec), l.nsec - r.nsec)
timespec64_add_safe(l, r) ==
    LET res == set_normalized_timespec64(Wrap(l.sec + r.sec), l.nsec + r.nsec)
    IN IF res.sec < l.sec \/ res.sec < r.sec THEN Ts(TIME64_MAX, 0) ELSE res
timespec64_compare(l, r) == IF l.sec < r.sec THEN -1 ELSE IF l.sec > r.sec THEN 1 ELSE l.nsec - r.nsec
timespec64_to_ns(t) == t.sec * Nsec + t.nsec
ns_to_timespec64(ns) ==
    LET rem == Rem(ns, Nsec) IN IF rem < 0 THEN Ts(Quo(ns, Nsec) - 1, rem + Nsec) ELSE Ts(Quo(ns, Nsec), rem)
RECURSIVE __iter_div_u64_rem(_, _)
__iter_div_u64_rem(dividend, divisor) ==
    IF dividend < divisor THEN <<0, dividend>>
    ELSE LET r == __iter_div_u64_rem(dividend - divisor, divisor) IN <<r[1] + 1, r[2]>>
timespec64_add_ns(a, ns) ==
    LET r == __iter_div_u64_rem(a.nsec + ns, Nsec) IN Ts(a.sec + r[1], r[2])
-----------------------------------------------------------------------------
Spans == [sec : -(TIME64_MAX + 1) .. TIME64_MAX, nsec : 0 .. Nsec - 1]
Init ==
    \/ tc = [kind |-> "day", day |-> 0, year |-> 1970, mon |-> 0, mday |-> 1, yday |-> 0, wday |-> 4]
    \/ \E a \in Spans, b \in Spans : tc = [kind |-> "span", a |-> a, b |-> b]

LeapYear(y) == y % 4 = 0 /\ (y % 100 # 0 \/ y % 400 = 0)
DaysIn(mon, y) == IF mon = 1 THEN (IF LeapYear(y) THEN 29 ELSE 28) ELSE IF mon \in {3, 5, 8, 10} THEN 30 ELSE 31
Tomorrow ==
    /\ tc.kind = "day" /\ tc.day \in 0 .. LastDay - 1
    /\ LET last == tc.mday = DaysIn(tc.mon, tc.year)
           year == last /\ tc.mon = 11
       IN tc' = [tc EXCEPT !.day = @ + 1, !.wday = (@ + 1) % 7, !.mday = IF last THEN 1 ELSE @ + 1,
                           !.mon = IF last THEN (@ + 1) % 12 ELSE @, !.year = IF year THEN @ + 1 ELSE @, !.yday = IF year THEN 0 ELSE @ + 1]
Yesterday ==
    /\ tc.kind = "day" /\ tc.day \in FirstDay + 1 .. 0
    /\ LET first == tc.mday = 1
           year == first /\ tc.mon = 0
           mon == IF first THEN (tc.mon + 11) % 12 ELSE tc.mon
           y == IF year THEN tc.year - 1 ELSE tc.year
       IN tc' = [tc EXCEPT !.day = @ - 1, !.wday = (@ + 6) % 7, !.mday = IF first THEN DaysIn(mon, y) ELSE @ - 1,
                           !.mon = mon, !.year = y, !.yday = IF year THEN (IF LeapYear(y) THEN 365 ELSE 364) ELSE @ - 1]
Next == Tomorrow \/ Yesterday
Spec == Init /\ [][Next]_tc
-----------------------------------------------------------------------------
(* time64_to_tm() names the day the calendar has reached, at any second of *)
(* it, mktime64() leads back, and an offset moves the time by as much.     *)
DayExact ==
    \A s \in Seconds :
        LET t == tc.day * SECS_PER_DAY + s
            tm == time64_to_tm(t, 0)
        IN /\ tm = [hour |-> s \div 3600, min |-> (s % 3600) \div 60, sec |-> s % 60, wday |-> tc.wday, year |-> tc.year - 1900,
                    yday |-> tc.yday, mon |-> tc.mon, mday |-> tc.mday]
           /\ mktime64(tc.year, tc.mon + 1, tc.mday, tm.hour, tm.min, tm.sec) = t
           /\ \A o \in Offsets : time64_to_tm(t, o) = time64_to_tm(t + o, 0)
(* The sum, the difference and the order of two times are those of their   *)
(* nanoseconds, where the seconds hold them; the safe sum of times that    *)
(* are not negative stops at the last second.                              *)
SpanExact ==
    LET na == timespec64_to_ns(tc.a)
        nb == timespec64_to_ns(tc.b)
        fits(n) == ns_to_timespec64(n).sec \in -(TIME64_MAX + 1) .. TIME64_MAX
    IN /\ ns_to_timespec64(na) = tc.a
       /\ fits(na + nb) => timespec64_add(tc.a, tc.b) = ns_to_timespec64(na + nb)
       /\ fits(na - nb) => timespec64_sub(tc.a, tc.b) = ns_to_timespec64(na - nb)
       /\ (timespec64_compare(tc.a, tc.b) < 0) = (na < nb) /\ (timespec64_compare(tc.a, tc.b) = 0) = (na = nb)
       /\ na >= 0 /\ nb >= 0 => timespec64_add_safe(tc.a, tc.b) = IF fits(na + nb) THEN ns_to_timespec64(na + nb) ELSE Ts(TIME64_MAX, 0)
       /\ nb >= 0 => timespec64_add_ns(tc.a, nb) = ns_to_timespec64(na + nb)
ClockExact == IF tc.kind = "day" THEN DayExact ELSE SpanExact
=============================================================================
