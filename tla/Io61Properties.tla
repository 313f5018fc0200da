---------------------------- MODULE Io61Properties ----------------------------
EXTENDS Io61

\* The types of the variables (io61.c 17-43).
TypeOK ==
    /\ mode \in {"O_RDONLY", "O_WRONLY"}
    /\ f \in FileType
    /\ call \in [op : {"none", "read", "crashed", "closed"}, sz : Nat,
                 cache : Slot, buf : Seq(Nat)]
    /\ got \in Seq(Nat)
    /\ input \in InputType
    /\ w \in [open : BOOLEAN, bufsize : Nat, buf : Seq(Int)]
    /\ out \in [content : Seq(Int), pos : Nat]

\* A cache of a file holds what its pos says, up to a page or the end of the
\* file, whatever was evicted, sought and read before (buildCacheForPos and
\* getCacheForPos, io61.c 71-118): otherwise io61_seek would find bytes under a
\* position where they are not.
CachesTruthful ==
    input.kind = "file" =>
        \A i \in Slot : LET c == f.caches[i] IN
            c.state = "ACTIVE" => /\ c.start = c.pos
                                  /\ c.bufsize = Lesser(PAGESIZE, input.bytes - c.pos)
                                  /\ c.bufsize > 0

\* No byte is ever taken from a buffer that was freed: a failing read gives up
\* a slot that may be in use (io61.c 86-88), and the pointers f->currentCache
\* and io61_read's currentCache may still lead there.
NoReadFromFreedBuffer ==
    /\ ~Exhausted(f) /\ call.op = "none" => getCurrentCache(f).state = "ACTIVE"
    /\ call.op = "read" =>
          LET c == f.caches[call.cache]
          IN  c.state = "ACTIVE" \/ c.offset = c.bufsize
-----------------------------------------------------------------------------
Stream == INSTANCE ByteStream WITH
    open <- IF mode = "O_RDONLY" THEN call.op # "closed" ELSE w.open,
    content <- IF mode = "O_RDONLY" THEN Bytes(0, input.bytes)
               ELSE Overlay(out.content, out.pos, w.buf),
    ended <- mode = "O_RDONLY" /\ input.ended,
    pos <- IF mode = "O_RDONLY" THEN Consumed ELSE out.pos + Len(w.buf)

\* An io61_file behaves like the unbuffered one of slow-io61.c, which acts on
\* the file itself: caches, evictions and buffered writes are invisible once
\* the file is closed, and every byte returned is the one at the position.
ImplementsByteStream == Stream!SSpec
=============================================================================
