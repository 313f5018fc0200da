------------------------------ MODULE Io61Writer ------------------------------
(* A struct io61_file opened O_WRONLY (io61.c): one cache of bytes that have *)
(* not been written yet.  It is as large as the first call makes it.         *)
EXTENDS Io61Common

CONSTANT WRITEPAGES    \* io61_write's cache is this many pages
ASSUME WriteAssumption == WRITEPAGES \in Nat \ {0}

VARIABLES
    w,      \* struct io61_file: whether it is open, bufsize (0: there is no
            \* cache) and buf, the bytes up to offset
    out     \* what fd refers to: its contents and the position of fd

writerVars == <<w, out>>

NothingWritten == [content |-> <<>>, pos |-> 0]
WriterInit == w = [open |-> TRUE, bufsize |-> 0, buf |-> <<>>]
              /\ out = NothingWritten

\* write(2), which writes all of d.
Put(o, d) == [content |-> Overlay(o.content, o.pos, d), pos |-> o.pos + Len(d)]

BufferSize(size) == IF w.bufsize = 0 THEN size ELSE w.bufsize

\* A full cache is flushed when the next character comes.
Writec(ch) ==
    LET size == BufferSize(PAGESIZE)
        full == Len(w.buf) = size
    IN  /\ w.open
        /\ w' = [w EXCEPT !.bufsize = size,
                          !.buf = IF full THEN <<ch>> ELSE Append(@, ch)]
        /\ out' = IF full THEN Put(out, w.buf) ELSE out

\* The loop of io61_write fills the cache and flushes it whenever it is full:
\* what goes out is a whole number of caches.
Write(d) ==
    LET size == BufferSize(WRITEPAGES * PAGESIZE)
        all == w.buf \o d
        gone == (Len(all) \div size) * size
    IN  /\ w.open
        /\ w' = [w EXCEPT !.bufsize = size,
                          !.buf = SubSeq(all, gone + 1, Len(all))]
        /\ out' = Put(out, SubSeq(all, 1, gone))

Flush ==
    /\ w.open
    /\ out' = Put(out, w.buf)
    /\ w' = [w EXCEPT !.buf = <<>>]

\* Mistake: fd is moved before the buffer is flushed.
SeekThenFlush(pos) ==
    /\ w.open
    /\ out' = Put([out EXCEPT !.pos = pos], w.buf)
    /\ w' = [w EXCEPT !.buf = <<>>]

\* io61_seek flushes, then moves fd.
SeekOut(pos) ==
    /\ w.open
    /\ out' = [Put(out, w.buf) EXCEPT !.pos = pos]
    /\ w' = [w EXCEPT !.buf = <<>>]

CloseWriter ==
    /\ w.open
    /\ out' = Put(out, w.buf)
    /\ w' = [w EXCEPT !.open = FALSE, !.buf = <<>>]
=============================================================================
