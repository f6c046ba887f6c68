------------------------------- MODULE Printf -------------------------------
(* The kernel log (core/printf.c): a ring buffer of variable-length records,  *)
(* the buffer in which the fragments of a line are collected, and the writing *)
(* of stored records to the early console.  A call of printf() is two         *)
(* critical sections of logbuf_lock: one that stores the text, one that       *)
(* writes to the console everything the console has not seen.                 *)
(*                                                                            *)
(* The text of a record is the sequence of the lengths of its lines; time     *)
(* stamps, facilities and dictionaries (always empty) are left out, and a     *)
(* text has lost its level and continuation prefixes.                         *)
EXTENDS Integers, Sequences, FiniteSets, SequencesExt

CONSTANTS Cpus,          \* who prints; the running task of each is its own
          BufLen,        \* log_buf_len
          Hdr, Align,    \* sizeof(struct printf_log), LOG_ALIGN
          LineMax,       \* LOG_LINE_MAX
          TextMax,       \* size of the buffer console_write() formats into
          PrefixLen,     \* length of the time stamp of a line
          NoticeLen,     \* length of the notice of dropped messages
          TruncLen,      \* length of the mark of a truncated text
          LogLevel,      \* console_loglevel
          Messages,      \* what may be printed: [text, nl, cont, level]
          MaxSeq         \* bound on the records stored

Total(s) == LET sum[k \in 0 .. Len(s)] == IF k = 0 THEN 0 ELSE sum[k - 1] + s[k] IN sum[Len(s)]
TextLen(t) == Total(t) + Len(t) - 1
Join(t, u) == Front(t) \o <<Last(t) + Head(u)>> \o Tail(u)

\* LOG_BUF_SHIFT is at least 12 (init/Kconfig): twice the longest record and
\* its marker fit the buffer.  A formatted line fits the console buffer.
ASSUME BufferLargeEnough ==
    /\ {BufLen, Hdr, Align, LineMax, TextMax} \subseteq Nat \ {0}
    /\ BufLen % Align = 0 /\ Hdr % Align = 0
    /\ 2 * (LineMax + 2 * Hdr + Align - 1) <= BufLen
    /\ PrefixLen + LineMax + 1 < TextMax
    /\ \A m \in Messages : Len(m.text) = 1 \/ TextLen(m.text) < LineMax - 1

VARIABLES ring,       \* the log buffer [buf, first, next, clear] and what it should
                      \* hold: log, the records not dropped, said, the texts
                      \* printed less those of dropped records
          cont,       \* the line being collected
          console,    \* console_seq, console_idx
          available,  \* early_console_dev.available
          pc,         \* per CPU: between the two critical sections or not
          out         \* what console_write() wrote since the last text was stored

vars == <<ring, cont, console, available, pc, out>>

-----------------------------------------------------------------------------
(* The ring buffer.  buf[i] is what a reader of a header finds at offset i.   *)

Zero == [len |-> 0, rec |-> <<>>]
Junk == [len |-> 1, rec |-> [text |-> <<0>>, level |-> 0, frags |-> <<>>]]
Header(b, i) == IF i \in DOMAIN b THEN b[i] ELSE Junk

LogFromIdx(b, i) == IF Header(b, i).len = 0 THEN b[0] ELSE Header(b, i)
LogNext(b, i) == IF Header(b, i).len = 0 THEN b[0].len ELSE i + Header(b, i).len

\* the offset n records after i
Walk(b, i, n) == LET w[k \in 0 .. n] == IF k = 0 THEN i ELSE LogNext(b, w[k - 1])
                 IN  w[n]

UsedSize(len) == LET size == Hdr + len IN size + ((-size) % Align)

\* Mutated form: no room for the header that marks a wrap.
LogbufHasSpaceNoHeader(first, next, size, empty) ==
    LET free == IF next > first \/ empty
                THEN IF BufLen - next > first THEN BufLen - next ELSE first
                ELSE first - next
    IN  free >= size

LogbufHasSpace(first, next, size, empty) ==
    LET free == IF next > first \/ empty
                THEN IF BufLen - next > first THEN BufLen - next ELSE first
                ELSE first - next
    IN  free >= size + Hdr

Texts(log) == FlattenSeq([k \in 1 .. Len(log) |-> log[k].frags])
Forget(r, n) ==
    [r EXCEPT !.log  = SubSeq(@, n + 1, Len(@)),
              !.said = SubSeq(@, Len(Texts(SubSeq(r.log, 1, n))) + 1, Len(@))]

DropOldest(r, n) ==
    LET first == [seq |-> r.first.seq + n, idx |-> Walk(r.buf, r.first.idx, n)]
    IN  [Forget(r, n) EXCEPT !.first = first,
                             !.clear = IF @.seq < first.seq THEN first ELSE @]

\* the loop of log_make_free_space() ends after n records
Enough(r, size, n) ==
    \/ r.first.seq + n = r.next.seq
    \/ LogbufHasSpace(Walk(r.buf, r.first.idx, n), r.next.idx, size, FALSE)

\* drop old records until there is enough contiguous space (log and said follow)
LogMakeFreeSpace(r, size) ==
    DropOldest(r, CHOOSE n \in 0 .. r.next.seq - r.first.seq :
                      Enough(r, size, n) /\ \A k \in 0 .. n - 1 : ~Enough(r, size, k))

Fits(r, size) == LogbufHasSpace(r.first.idx, r.next.idx, size, r.first.seq = r.next.seq)

TruncateMsg(m) ==
    LET len == TextLen(m.text) IN
    [m EXCEPT !.text = <<(IF len > BufLen \div 4 THEN BufLen \div 4 ELSE len) + TruncLen>>]

Overwrite(b, at, len, header) ==
    [i \in DOMAIN b |-> IF i = at THEN header
                        ELSE IF i \in at + 1 .. at + len - 1 THEN Junk ELSE b[i]]

\* the second half of log_store(): wrap if the record and a marker do not fit
Insert(r, m, size) ==
    LET wrap == r.next.idx + size + Hdr > BufLen
        at   == IF wrap THEN 0 ELSE r.next.idx
        b    == IF wrap THEN Overwrite(r.buf, r.next.idx, Hdr, Zero) ELSE r.buf
    IN  [r EXCEPT !.buf  = Overwrite(b, at, size, [len |-> size, rec |-> m]),
                  !.next = [seq |-> @.seq + 1, idx |-> at + size],
                  !.log  = Append(@, m)]

RecordSize(m) == UsedSize(TextLen(m.text))

\* log_store() of a text that was truncated, and of any
LogStoreTruncated(r, t) ==
    LET a == LogMakeFreeSpace(r, RecordSize(t))
    IN  IF Fits(a, RecordSize(t)) THEN Insert(a, t, RecordSize(t)) ELSE a

LogStore(r, m) ==
    LET a == LogMakeFreeSpace(r, RecordSize(m))
    IN  IF Fits(a, RecordSize(m)) THEN Insert(a, m, RecordSize(m))
        ELSE LogStoreTruncated(a, TruncateMsg(m))

-----------------------------------------------------------------------------
(* Continuation lines.  s is the pair of the ring and the collected line.     *)

Nobody == 0
NoCont == [text |-> <<0>>, owner |-> Nobody, level |-> 0, frags |-> <<>>]
InUse(c) == TextLen(c.text) > 0
Fragments(m) == IF TextLen(m.text) > 0 THEN <<[by |-> m.by, text |-> m.text]>> ELSE <<>>

ContFlush(s) ==
    IF InUse(s.cont)
    THEN [ring |-> LogStore(s.ring, [text  |-> s.cont.text, level |-> s.cont.level,
                                     frags |-> s.cont.frags]),
          cont |-> NoCont]
    ELSE s

\* cont_add() would return true
HasRoom(s, m) == TextLen(s.cont.text) + TextLen(m.text) <= LineMax

\* cont_add() of a text that has room
ContAdd(s, m) ==
    LET old == IF InUse(s.cont) THEN s.cont
               ELSE [text |-> <<0>>, owner |-> m.by, level |-> m.level, frags |-> <<>>]
        new == [old EXCEPT !.text = Join(@, m.text), !.frags = @ \o Fragments(m)]
        t   == [s EXCEPT !.cont = IF InUse(new) THEN new ELSE NoCont]
    IN  IF m.nl THEN ContFlush(t) ELSE t

Continues(s, m) == InUse(s.cont) /\ s.cont.owner = m.by /\ m.cont

\* log_output() when no line is being collected (cont_add() without room then
\* has nothing to flush)
OutputLine(s, m) ==
    IF TextLen(m.text) = 0 /\ m.cont THEN s
    ELSE IF ~m.nl /\ HasRoom(s, m) THEN ContAdd(s, m)
    ELSE [s EXCEPT !.ring = LogStore(@, [text |-> m.text, level |-> m.level,
                                         frags |-> Fragments(m)])]

\* A line that cannot be continued is flushed, by cont_add() or afterwards.
LogOutput(s, m) ==
    IF Continues(s, m) /\ HasRoom(s, m) THEN ContAdd(s, m) ELSE OutputLine(ContFlush(s), m)

\* vscnprintf() cuts the formatted text, its newline included, to one line
Formatted(m) == IF TextLen(m.text) + (IF m.nl THEN 1 ELSE 0) > LineMax - 1
                THEN [m EXCEPT !.text = <<LineMax - 1>>, !.nl = FALSE] ELSE m

-----------------------------------------------------------------------------

Init == /\ ring = [buf   |-> [i \in 0 .. BufLen - 1 |-> Zero], log |-> <<>>, said |-> <<>>,
                   first |-> [seq |-> 0, idx |-> 0], next  |-> [seq |-> 0, idx |-> 0],
                   clear |-> [seq |-> 0, idx |-> 0]]
        /\ cont = NoCont
        /\ console = [seq |-> 0, idx |-> 0]
        /\ available = FALSE
        /\ pc = [c \in Cpus |-> "idle"]
        /\ out = <<>>

\* the first critical section of vprintk_emit()
VprintkStore(c, msg) ==
    /\ pc[c] = "idle"
    /\ ring.next.seq + Len(cont.frags) < MaxSeq
    /\ LET f == Formatted(msg)
           m == [text |-> f.text, nl |-> f.nl, cont |-> f.cont, level |-> f.level, by |-> c]
           s == LogOutput([ring |-> [ring EXCEPT !.said = @ \o Fragments(m)], cont |-> cont], m)
       IN  /\ ring' = s.ring
           /\ cont' = s.cont
    /\ pc' = [pc EXCEPT ![c] = "stored"]
    /\ out' = <<>>
    /\ UNCHANGED <<console, available>>

\* lines of a text that fit into room, each with its prefix and newline
MsgPrintText(t, room) ==
    CHOOSE k \in 0 .. Len(t) :
        /\ \A i \in 1 .. k : Total(SubSeq(t, 1, i)) + i * (PrefixLen + 1) < room
        /\ k < Len(t) =>
               Total(SubSeq(t, 1, k + 1)) + (k + 1) * (PrefixLen + 1) >= room

Shown(rec) == rec.level <= LogLevel

\* Mutated form: the console goes on where it stood when it fell behind.
ConsoleWriteBehind ==
    LET n     == ring.next.seq - console.seq
        recs  == SelectSeq([k \in 1 .. n |-> LogFromIdx(ring.buf, Walk(ring.buf, console.idx, k - 1)).rec],
                           Shown)
    IN  /\ out' = [k \in 1 .. Len(recs) |->
                      [lost |-> 0, rec |-> recs[k], lines |-> MsgPrintText(recs[k].text, TextMax)]]
        /\ console' = [seq |-> ring.next.seq, idx |-> Walk(ring.buf, console.idx, n)]

\* console_write(): from where the console stands, or from the oldest record
\* with a notice of the number dropped in between
ConsoleWrite ==
    LET lost  == IF console.seq < ring.first.seq THEN ring.first.seq - console.seq ELSE 0
        from  == IF lost > 0 THEN ring.first ELSE console
        n     == ring.next.seq - from.seq
        recs  == SelectSeq([k \in 1 .. n |-> LogFromIdx(ring.buf, Walk(ring.buf, from.idx, k - 1)).rec],
                           Shown)
        notice(k) == IF k = 1 THEN lost ELSE 0
    IN  /\ out' = [k \in 1 .. Len(recs) |->
                      [lost  |-> notice(k), rec |-> recs[k],
                       lines |-> MsgPrintText(recs[k].text, TextMax - (IF notice(k) > 0 THEN NoticeLen ELSE 0))]]
        /\ console' = [seq |-> ring.next.seq, idx |-> Walk(ring.buf, from.idx, n)]

\* the second critical section of vprintk_emit()
VprintkConsole(c) ==
    /\ pc[c] = "stored"
    /\ pc' = [pc EXCEPT ![c] = "idle"]
    /\ IF available THEN ConsoleWrite ELSE UNCHANGED <<console, out>>
    /\ UNCHANGED <<ring, cont, available>>

\* of_setup_earlycon() has found and mapped the device
OfSetupEarlycon ==
    /\ ~available
    /\ available' = TRUE
    /\ UNCHANGED <<ring, cont, console, pc, out>>

Next == \/ \E c \in Cpus : \/ \E m \in Messages : VprintkStore(c, m)
                           \/ VprintkConsole(c)
        \/ OfSetupEarlycon

Spec == Init /\ [][Next]_vars

-----------------------------------------------------------------------------

\* The bytes between log_first_idx and log_next_idx are exactly the latest
\* records: following log_next() from the first visits each of them, in order
\* and unharmed by what was written since, and ends at log_next_idx, where a
\* header still fits.
RingExact ==
    LET n == ring.next.seq - ring.first.seq IN
    /\ Len(ring.log) = n
    /\ \A k \in 1 .. n : LogFromIdx(ring.buf, Walk(ring.buf, ring.first.idx, k - 1)).rec
                             = ring.log[k]
    /\ Walk(ring.buf, ring.first.idx, n) = ring.next.idx
    /\ ring.next.idx + Hdr <= BufLen /\ ring.next.idx % Align = 0

\* A position kept across calls (console_idx, clear_idx) whose sequence number
\* has not been dropped is where following the records leads to.
PositionsExact ==
    \A p \in {console, ring.clear} :
        /\ p.seq <= ring.next.seq
        /\ p.seq >= ring.first.seq =>
               p.idx = Walk(ring.buf, ring.first.idx, p.seq - ring.first.seq)

\* Every text printed is, once and in order, in a record or in the line being
\* collected, whole, until its record is dropped: log_store() never fails and
\* truncates nothing.  The collected line stays within its buffer.
TextConserved ==
    /\ TextLen(cont.text) <= LineMax
    /\ Texts(ring.log) \o cont.frags = ring.said
    /\ \A r \in ToSet(ring.log) \cup {cont} :
           r.text = FoldLeft(LAMBDA t, f : Join(t, f.text), <<0>>, r.frags)

\* Fragments that different tasks print are never joined into one line.
OwnersApart ==
    \A r \in ToSet(ring.log) \cup {cont} :
        \A i, j \in 1 .. Len(r.frags) : r.frags[i].by = r.frags[j].by

\* A step: a call that finds the console writes every record the console has
\* not seen and the buffer still holds, in order, those above the log level
\* excepted; the first of them carries the number of those that were dropped,
\* and a single line without such a notice comes out whole.
ConsoleExact ==
    \A c \in Cpus :
        LET lost  == IF console.seq < ring.first.seq THEN ring.first.seq - console.seq ELSE 0
            shown == SelectSeq(SubSeq(ring.log, console.seq + lost - ring.first.seq + 1, Len(ring.log)), Shown)
          IN  pc[c] = "stored" /\ pc'[c] = "idle" /\ available =>
                  /\ console'.seq = ring.next.seq
                  /\ Len(out') = Len(shown)
                  /\ \A k \in 1 .. Len(shown) :
                        /\ out'[k].rec = shown[k]
                        /\ out'[k].lost = (IF k = 1 THEN lost ELSE 0)
                        /\ out'[k].lost = 0 /\ Len(shown[k].text) = 1 => out'[k].lines = 1

\* A step drops a record only when the buffer is nearly full: with the record
\* still held, two records of the largest size and their markers would not fit.
DropsOnlyWhenFull ==
    LET dropped == ring'.first.seq - ring.first.seq
        records == ring.log \o (IF InUse(cont) THEN <<cont>> ELSE <<>>)
        held    == Total([k \in 1 .. Len(records) - dropped + 1 |->
                             UsedSize(TextLen(records[dropped + k - 1].text))])
    IN  dropped > 0 => held + 2 * (UsedSize(LineMax) + Hdr) > BufLen
=============================================================================
