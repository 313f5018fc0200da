------------------------------ MODULE Io61Reader ------------------------------
(* A struct io61_file opened O_RDONLY (io61.c): NCACHES caches, each a copy  *)
(* of up to PAGESIZE consecutive bytes of the input.  A call is one action,  *)
(* but for io61_read, whose loop takes one action per round.                 *)
EXTENDS Io61Common

CONSTANTS
    NCACHES,
    Byte255,       \* positions of the input that hold a byte 0xFF
    LifetimeBound  \* io61_seek ages caches for ever: stop when one is this old

ASSUME CacheAssumption == NCACHES \in Nat \ {0}
ASSUME ByteAssumption == Byte255 \subseteq Nat

VARIABLES
    f,      \* struct io61_file: caches and currentCache
    call,   \* the call in progress, if it is an io61_read, or how the file ended
    got,    \* the bytes the last call returned: none is EOF, or a count of 0
    input   \* what fd refers to: a file or a pipe, the bytes it has had so far,
            \* how many of a pipe's were taken, and whether no more will come

readerVars == <<f, call, got, input>>

Slot == 0..(NCACHES - 1)
NoCache == -1

EmptyCache == [state |-> "EMPTY", start |-> 0, pos |-> 0, offset |-> 0,
               bufsize |-> 0, lifetime |-> 0]
NoCall == [op |-> "none", sz |-> 0, cache |-> 0, buf |-> <<>>]

File(size) == [kind |-> "file", bytes |-> size, taken |-> 0, ended |-> TRUE]
EmptyPipe  == [kind |-> "pipe", bytes |-> 0, taken |-> 0, ended |-> FALSE]

\* The structure as io61_fdopen gets it: malloc'd early, from fresh memory.
ReaderInit(in) ==
    /\ f = [caches |-> [i \in Slot |-> EmptyCache], currentCache |-> NoCache]
    /\ call = NoCall
    /\ got = <<>>
    /\ input = in
-----------------------------------------------------------------------------
\* The slot for a new cache: the first empty one, else the first of the oldest.
Preferred(c, i) == \/ c[i].state = "EMPTY"
                   \/ \A j \in Slot : /\ c[j].state = "ACTIVE"
                                      /\ c[j].lifetime <= c[i].lifetime
freeCache(c) == CHOOSE i \in Slot :
                   /\ Preferred(c, i)
                   /\ \A j \in Slot : Preferred(c, j) => i <= j

\* Mistake: a file is read from where the last read ended, like a pipe.
SequentialStart(pos) == input.taken

\* What read or pread brings: where it starts in the input and how much it is.
\* A read from an empty pipe waits for more, or for the end.
ChunkStart(pos) == IF input.kind = "file" THEN pos ELSE input.taken
ChunkSize(pos)  ==
    Lesser(PAGESIZE, Greater(0, input.bytes - ChunkStart(pos)))
CanRead == input.kind = "file" \/ input.taken < input.bytes \/ input.ended
Taken(pos) == IF input.kind = "file" THEN input
              ELSE [input EXCEPT !.taken = @ + ChunkSize(pos)]

\* Mistake: the slot is made ready before it is known that there is anything.
ResetsFirst(g, pos) ==
    LET s == freeCache(g.caches)
    IN  IF ChunkSize(pos) = 0
        THEN [g EXCEPT !.caches[s].state = "EMPTY", !.caches[s].offset = 0]
        ELSE [caches |-> [g.caches EXCEPT ![s] =
                 [state |-> "ACTIVE", start |-> ChunkStart(pos), pos |-> pos,
                  offset |-> 0, bufsize |-> ChunkSize(pos), lifetime |-> 0]],
              currentCache |-> s]

\* When nothing can be read the slot is given up, even one that was in use.
buildCacheForPos(g, pos) ==
    LET s == freeCache(g.caches)
    IN  IF ChunkSize(pos) = 0
        THEN [g EXCEPT !.caches[s].state = "EMPTY"]
        ELSE [caches |-> [g.caches EXCEPT ![s] =
                 [state |-> "ACTIVE", start |-> ChunkStart(pos), pos |-> pos,
                  offset |-> 0, bufsize |-> ChunkSize(pos), lifetime |-> 0]],
              currentCache |-> s]

Covers(c, pos) == c.state = "ACTIVE" /\ c.pos <= pos /\ pos < c.pos + c.bufsize
Covering(g, pos) == {i \in Slot : Covers(g.caches[i], pos)}

\* The first cache that has the byte at pos becomes current; the others age.
getCacheForPos(g, pos) ==
    LET found == {i \in Covering(g, pos) : \A j \in Covering(g, pos) : i <= j}
    IN  [caches |-> [i \in Slot |->
            IF i \in found THEN g.caches[i]
            ELSE [g.caches[i] EXCEPT !.lifetime = @ + 1]],
         currentCache |-> IF found = {} THEN g.currentCache
                          ELSE CHOOSE i \in found : TRUE]
-----------------------------------------------------------------------------
getCurrentCache(g) == g.caches[g.currentCache]
NextPos(g) == IF g.currentCache = NoCache THEN 0
              ELSE getCurrentCache(g).pos + getCurrentCache(g).offset
Exhausted(g) ==
    \/ g.currentCache = NoCache
    \/ getCurrentCache(g).offset >= getCurrentCache(g).bufsize

\* How io61_readc and io61_read begin: they look for the next byte, and have
\* reached the end of the input if there is still none.
Refilled == IF Exhausted(f) THEN buildCacheForPos(f, NextPos(f)) ELSE f
Refill == /\ Exhausted(f) => CanRead
          /\ input' = IF Exhausted(f) THEN Taken(NextPos(f)) ELSE input

\* io61_readc returns a char: 0xFF is the int EOF.
Returned(b) == IF b \in Byte255 THEN <<>> ELSE <<b>>
Readc ==
    /\ call.op = "none"
    /\ Refill
    /\ IF Exhausted(Refilled)
       THEN f' = Refilled /\ got' = <<>>
       ELSE LET c == getCurrentCache(Refilled)
            IN  /\ f' = [Refilled EXCEPT
                           !.caches[Refilled.currentCache].offset = @ + 1]
                /\ got' = Returned(c.start + c.offset)
    /\ UNCHANGED call

\* io61_read up to its loop.
Read(sz) ==
    /\ call.op = "none"
    /\ Refill
    /\ f' = Refilled
    /\ IF Exhausted(Refilled)
       THEN got' = <<>> /\ UNCHANGED call
       ELSE /\ call' = [op |-> "read", sz |-> sz,
                        cache |-> Refilled.currentCache, buf |-> <<>>]
            /\ UNCHANGED got

\* One round of the loop.  It goes on with the cache it began with, which is
\* not the current one any more once another one has been built.
ReadRound ==
    /\ call.op = "read"
    /\ LET c == f.caches[call.cache]
           n == Lesser(call.sz - Len(call.buf), c.bufsize - c.offset)
           buf == call.buf \o Bytes(c.start + c.offset, n)
           g == [f EXCEPT !.caches[call.cache].offset = @ + n]
           end == c.pos + c.offset + n
           drained == c.offset + n = c.bufsize
           failed == drained /\ ChunkSize(end) = 0
       IN  /\ drained => CanRead
           /\ f' = IF drained THEN buildCacheForPos(g, end) ELSE g
           /\ input' = IF drained THEN Taken(end) ELSE input
           /\ IF failed \/ Len(buf) = call.sz
              THEN got' = buf /\ call' = NoCall
              ELSE call' = [call EXCEPT !.buf = buf] /\ UNCHANGED got

\* io61_seek on a file.  A step back by two, as when reading backwards, looks
\* for the page that ends here first.
StepsBack(pos) == /\ f.currentCache # NoCache
                  /\ pos = NextPos(f) - 2
PageBefore(pos) == Greater(0, pos + 1 - PAGESIZE)
Prepared(pos) ==
    IF ~StepsBack(pos) THEN f
    ELSE IF Covering(f, pos - 1) = {}
         THEN buildCacheForPos(getCacheForPos(f, pos - 1), PageBefore(pos))
         ELSE getCacheForPos(f, pos - 1)
\* Mistake: with no cache for pos the current one is kept.
KeepsCurrent(pos) == getCacheForPos(Prepared(pos), pos)

Sought(pos) ==
    LET g == getCacheForPos(Prepared(pos), pos)
    IN  IF Covering(Prepared(pos), pos) = {} THEN buildCacheForPos(g, pos) ELSE g
Seek(pos) ==
    /\ call.op = "none"
    /\ input.kind = "file"
    /\ \A i \in Slot : f.caches[i].lifetime < LifetimeBound
    /\ Sought(pos).currentCache # NoCache
    /\ f' = [Sought(pos) EXCEPT !.caches[Sought(pos).currentCache].offset =
                pos - getCurrentCache(Sought(pos)).pos]
    /\ got' = <<>>
    /\ UNCHANGED <<call, input>>

\* There is no cache at all: the code goes through a null pointer.
SeekCrashes(pos) ==
    /\ call.op = "none"
    /\ input.kind = "file"
    /\ Sought(pos).currentCache = NoCache
    /\ call' = [NoCall EXCEPT !.op = "crashed"]
    /\ UNCHANGED <<f, got, input>>

CloseReader ==
    /\ call.op = "none"
    /\ call' = [NoCall EXCEPT !.op = "closed"]
    /\ f' = [f EXCEPT !.caches = [i \in Slot |-> [@[i] EXCEPT !.state = "EMPTY"]]]
    /\ UNCHANGED <<got, input>>
-----------------------------------------------------------------------------
\* The other end of the pipe.
Feed(n) ==
    /\ input.kind = "pipe" /\ ~input.ended
    /\ input' = [input EXCEPT !.bytes = @ + n]
    /\ UNCHANGED <<f, call, got>>
HangUp ==
    /\ input.kind = "pipe" /\ ~input.ended
    /\ input' = [input EXCEPT !.ended = TRUE]
    /\ UNCHANGED <<f, call, got>>
-----------------------------------------------------------------------------
(* What is said of a reader.  A byte of the input is named by its position.    *)

\* The type of a cache, a file and what fd refers to.
CacheType ==
    [state : {"EMPTY", "ACTIVE"}, start : Nat, pos : Nat, offset : Nat,
     bufsize : Nat, lifetime : Nat]
FileType == [caches : [Slot -> CacheType], currentCache : Slot \cup {NoCache}]
InputType ==
    [kind : {"file", "pipe"}, bytes : Nat, taken : Nat, ended : BOOLEAN]

\* What has been consumed of the input.  An io61_read in progress has not
\* returned anything yet.
Consumed ==
    IF f.currentCache = NoCache THEN 0
    ELSE getCurrentCache(f).start + getCurrentCache(f).offset - Len(call.buf)
=============================================================================
