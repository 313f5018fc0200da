---------------------------- MODULE Io61FileProofs ----------------------------
(* What each call of io61.c does to a file opened for reading or for writing,  *)
(* for any number and size of caches and any input.                            *)
EXTENDS Io61Reader, Io61Writer, SequenceTheorems, SumTheorems

-----------------------------------------------------------------------------
(* The inductive invariant                                                     *)

\* A cache in use holds something, and what a cache of a file has ever held is
\* the part of the file that its position says.
Held(g) ==
    \A i \in Slot : LET c == g.caches[i] IN
        /\ c.state = "ACTIVE" => c.bufsize > 0
        /\ c.bufsize > 0 /\ input.kind = "file" =>
              /\ c.start = c.pos
              /\ c.pos < input.bytes
              /\ c.bufsize = Lesser(PAGESIZE, input.bytes - c.pos)

CurrentFilled(g) ==
    g.currentCache # NoCache => g.caches[g.currentCache].bufsize > 0

Caches(g) == g \in FileType /\ Held(g) /\ CurrentFilled(g)

\* While there are bytes left in the current cache it has not been given up.
CurrentAlive(g) == ~Exhausted(g) => getCurrentCache(g).state = "ACTIVE"

\* Where in the input the next byte is.
At(g) == IF g.currentCache = NoCache THEN 0
         ELSE getCurrentCache(g).start + getCurrentCache(g).offset

\* A pipe is read once, in order: so far up to the byte taken.
InOrder(g, taken) ==
    /\ taken <= input.bytes
    /\ IF g.currentCache = NoCache THEN taken = 0
       ELSE LET c == getCurrentCache(g) IN
            c.start = c.pos /\ c.offset <= c.bufsize /\ c.start + c.bufsize = taken

\* io61_read's cache is the current one, or one that is used up and that the
\* current one begins after.
Reading ==
    LET c == f.caches[call.cache]  d == getCurrentCache(f) IN
    /\ input.kind = "file"
    /\ f.currentCache # NoCache
    /\ Len(call.buf) < call.sz
    /\ c.bufsize > 0
    /\ \/ call.cache = f.currentCache /\ c.offset < c.bufsize
       \/ c.offset = c.bufsize /\ d.offset = 0 /\ d.pos = c.pos + c.bufsize
    /\ Consumed \in Nat
    /\ call.buf = Bytes(Consumed, Len(call.buf))

ReaderInv ==
    /\ Caches(f)
    /\ call \in [op : {"none", "read", "crashed", "closed"}, sz : Nat,
                 cache : Slot, buf : Seq(Nat)]
    /\ call.op # "read" => call.buf = <<>>
    /\ got \in Seq(Nat)
    /\ input \in InputType
    /\ input.kind = "file" => input.ended
    /\ call.op \in {"none", "read"} => CurrentAlive(f)
    /\ input.kind = "pipe" => InOrder(f, input.taken)
    /\ call.op = "read" => Reading

WriterInv ==
    /\ w \in [open : BOOLEAN, bufsize : Nat, buf : Seq(Int)]
    /\ out \in [content : Seq(Int), pos : Nat]

-----------------------------------------------------------------------------
(* The choice of a slot                                                        *)

\* One of the slots is at least as old as every other.
LEMMA OldestSlot ==
    ASSUME NEW age \in [Slot -> Nat]
    PROVE  \E i \in Slot : \A j \in Slot : age[j] <= age[i]
<1> DEFINE Old(n) == \E i \in 0..n : \A j \in 0..n : age[j] <= age[i]
           Bad == {n \in Nat : n < NCACHES /\ ~Old(n)}
<1>1. NCACHES \in Nat \ {0} /\ \A n \in Nat : n < NCACHES => 0..n \subseteq Slot
  BY CacheAssumption DEF Slot
<1>2. Bad = {}
  <2> SUFFICES ASSUME Bad # {} PROVE FALSE
    OBVIOUS
  <2>1. PICK n \in Bad : \A m \in Bad : n <= m
    <3>1. Bad \in SUBSET Nat
      OBVIOUS
    <3> HIDE DEF Bad
    <3> QED BY <3>1, LeastElement
  <2>2. n \in Nat /\ n < NCACHES /\ ~Old(n)
    BY <2>1
  <2>3. n # 0
    <3> SUFFICES ASSUME n = 0 PROVE Old(n)
      BY <2>2
    <3>1. 0..n = {0} /\ age[0] \in Nat
      BY <1>1
    <3> QED BY <3>1
  <2>4. Old(n - 1)
    <3>1. n - 1 \in Nat /\ n - 1 < NCACHES /\ ~(n <= n - 1)
      BY <1>1, <2>2, <2>3
    <3> QED BY <2>1, <3>1
  <2>5. PICK i \in 0..(n - 1) : \A j \in 0..(n - 1) : age[j] <= age[i]
    BY <2>4
  <2>6. \A j \in 0..n : age[j] \in Nat
    BY <1>1, <2>2
  <2>7. \A j \in 0..n : j = n \/ j \in 0..(n - 1)
    BY <2>2
  <2>8. i \in 0..n /\ n \in 0..n
    BY <2>2
  <2>9. CASE age[n] <= age[i]
    BY <2>2, <2>5, <2>7, <2>8, <2>9
  <2>10. CASE ~(age[n] <= age[i])
    <3>1. ASSUME NEW j \in 0..n PROVE age[j] <= age[n]
      <4>1. age[j] \in Nat /\ age[i] \in Nat /\ age[n] \in Nat
        BY <2>6, <2>8
      <4>2. j = n \/ age[j] <= age[i]
        BY <2>5, <2>7
      <4> HIDE DEF Old, Bad
      <4> QED BY <2>10, <4>1, <4>2
    <3> QED BY <2>2, <2>8, <3>1
  <2> QED BY <2>9, <2>10
<1>3. Old(NCACHES - 1) /\ 0..(NCACHES - 1) = Slot
  <2>1. NCACHES - 1 \in Nat /\ NCACHES - 1 < NCACHES
    BY <1>1
  <2> QED BY <1>2, <2>1 DEF Slot
<1> QED BY <1>3

\* There always is a slot for a new cache.
LEMMA SlotForNewCache ==
    ASSUME NEW g \in FileType
    PROVE  freeCache(g.caches) \in Slot
<1> DEFINE c == g.caches  P == {i \in Slot : Preferred(c, i)}
<1>1. c \in [Slot -> CacheType]
  BY DEF FileType
<1>2. P # {}
  <2>1. CASE \E i \in Slot : c[i].state = "EMPTY"
    BY <2>1 DEF Preferred
  <2>2. CASE \A i \in Slot : c[i].state # "EMPTY"
    <3>1. \A i \in Slot : c[i].state = "ACTIVE"
      BY <1>1, <2>2 DEF CacheType
    <3> DEFINE age == [i \in Slot |-> c[i].lifetime]
    <3>2. age \in [Slot -> Nat]
      BY <1>1 DEF CacheType
    <3>3. PICK i \in Slot : \A j \in Slot : age[j] <= age[i]
      <4> HIDE DEF age
      <4> QED BY <3>2, OldestSlot
    <3> QED BY <3>1, <3>3 DEF Preferred
  <2> QED BY <2>1, <2>2
<1>3. P \in SUBSET Nat
  BY CacheAssumption DEF Slot
<1>4. PICK i \in P : \A j \in P : i <= j
  <2> HIDE DEF P
  <2> QED BY <1>2, <1>3, LeastElement
<1>5. i \in Slot /\ Preferred(c, i) /\ \A j \in Slot : Preferred(c, j) => i <= j
  BY <1>4
<1> HIDE DEF c, P
<1>6. freeCache(c) \in Slot
  BY <1>5 DEF freeCache
<1> QED BY <1>6 DEF c
-----------------------------------------------------------------------------
(* Stretches of the input                                                      *)

LEMMA LesserFacts ==
    ASSUME NEW a \in Nat, NEW b \in Nat
    PROVE  /\ Lesser(a, b) \in Nat /\ Lesser(a, b) <= a /\ Lesser(a, b) <= b
           /\ Lesser(a, b) = a \/ Lesser(a, b) = b
           /\ a <= b => Lesser(a, b) = a
           /\ b <= a => Lesser(a, b) = b
BY DEF Lesser

LEMMA BytesFacts ==
    ASSUME NEW p \in Nat, NEW n \in Nat
    PROVE  /\ Bytes(p, n) \in Seq(Nat) /\ Len(Bytes(p, n)) = n
           /\ \A i \in 1..n : Bytes(p, n)[i] = p + i - 1
<1>1. \A i \in 1..n : p + i - 1 \in Nat
  OBVIOUS
<1>2. Bytes(p, n) \in [1..n -> Nat]
  BY <1>1 DEF Bytes
<1> QED BY <1>2 DEF Bytes

LEMMA BytesConcat ==
    ASSUME NEW p \in Nat, NEW m \in Nat, NEW n \in Nat
    PROVE  Bytes(p, m) \o Bytes(p + m, n) = Bytes(p, m + n)
<1> DEFINE a == Bytes(p, m)  b == Bytes(p + m, n)  c == Bytes(p, m + n)
<1>1. p + m \in Nat /\ m + n \in Nat
  OBVIOUS
<1>2. /\ a \in Seq(Nat) /\ Len(a) = m /\ \A i \in 1..m : a[i] = p + i - 1
      /\ b \in Seq(Nat) /\ Len(b) = n /\ \A i \in 1..n : b[i] = p + m + i - 1
      /\ c \in Seq(Nat) /\ Len(c) = m + n /\ \A i \in 1..(m + n) : c[i] = p + i - 1
  BY <1>1, BytesFacts
<1> HIDE DEF a, b, c
<1>3. /\ a \o b \in Seq(Nat) /\ Len(a \o b) = m + n
      /\ \A i \in 1..(m + n) : (a \o b)[i] = IF i <= m THEN a[i] ELSE b[i - m]
  BY <1>2, ConcatProperties
<1>4. ASSUME NEW i \in 1..(m + n) PROVE (a \o b)[i] = c[i]
  <2>1. CASE i <= m
    BY <1>2, <1>3, <2>1
  <2>2. CASE ~(i <= m)
    <3>1. i - m \in 1..n
      BY <2>2
    <3> QED BY <1>2, <1>3, <2>2, <3>1
  <2> QED BY <2>1, <2>2
<1>5. a \o b = c
  BY <1>2, <1>3, <1>4, SeqEqual
<1> QED BY <1>5 DEF a, b, c

\* What a read of n bytes at position p gets from an input of size bytes.
LEMMA BytesSlice ==
    ASSUME NEW p \in Nat, NEW n \in Nat, NEW size \in Nat, p <= size
    PROVE  SubSeq(Bytes(0, size), p + 1, Lesser(p + n, size))
              = Bytes(p, Lesser(n, size - p))
<1> DEFINE a == Bytes(0, size)  k == Lesser(n, size - p)  e == Lesser(p + n, size)
<1>1. k \in Nat /\ e = p + k /\ e <= size /\ e \in Nat
  BY DEF Lesser
<1>2. a \in Seq(Nat) /\ Len(a) = size /\ \A i \in 1..size : a[i] = 0 + i - 1
  BY BytesFacts
<1>3. Bytes(p, k) \in Seq(Nat) /\ Len(Bytes(p, k)) = k
      /\ \A i \in 1..k : Bytes(p, k)[i] = p + i - 1
  BY <1>1, BytesFacts
<1> HIDE DEF a, k, e
<1>4. \A i \in (p + 1)..e : a[i] \in Nat
  BY <1>1, <1>2
<1>5. /\ SubSeq(a, p + 1, e) \in Seq(Nat)
      /\ Len(SubSeq(a, p + 1, e)) = IF p + 1 <= e THEN e - (p + 1) + 1 ELSE 0
      /\ \A i \in 1..(e - (p + 1) + 1) : SubSeq(a, p + 1, e)[i] = a[(p + 1) + i - 1]
  <2>1. p + 1 \in Int /\ e \in Int
    BY <1>1
  <2> QED BY <1>4, <2>1, SubSeqProperties
<1>6. Len(SubSeq(a, p + 1, e)) = k
  BY <1>1, <1>5
<1>7. ASSUME NEW i \in 1..k PROVE SubSeq(a, p + 1, e)[i] = Bytes(p, k)[i]
  <2>1. i \in 1..(e - (p + 1) + 1) /\ (p + 1) + i - 1 \in 1..size
    BY <1>1
  <2>2. SubSeq(a, p + 1, e)[i] = a[(p + 1) + i - 1]
    BY <1>5, <2>1
  <2>3. a[(p + 1) + i - 1] = p + i - 1
    BY <1>2, <2>1
  <2> QED BY <1>3, <2>2, <2>3
<1>8. SubSeq(a, p + 1, e) = Bytes(p, k)
  BY <1>3, <1>5, <1>6, <1>7, SeqEqual
<1> QED BY <1>8 DEF a, k, e

-----------------------------------------------------------------------------
(* What the operations on the caches do                                        *)

\* What the next read of the input brings.
LEMMA ChunkFacts ==
    ASSUME NEW pos \in Nat, input \in InputType
    PROVE  /\ ChunkStart(pos) \in Nat /\ ChunkSize(pos) \in Nat
           /\ input.kind = "file" => ChunkStart(pos) = pos
           /\ ChunkSize(pos) = 0 => input.bytes <= ChunkStart(pos)
           /\ ChunkSize(pos) > 0 =>
                 /\ ChunkStart(pos) < input.bytes
                 /\ ChunkSize(pos) = Lesser(PAGESIZE, input.bytes - ChunkStart(pos))
                 /\ ChunkStart(pos) + ChunkSize(pos) <= input.bytes
<1>1. input.bytes \in Nat /\ input.taken \in Nat
  BY DEF InputType
<1>2. ChunkStart(pos) \in Nat
  BY <1>1 DEF ChunkStart
<1>3. input.kind = "file" => ChunkStart(pos) = pos
  BY DEF ChunkStart
<1> QED BY <1>1, <1>2, <1>3, PageAssumption DEF ChunkSize, Lesser, Greater

\* buildCacheForPos fills one slot and makes it current, or gives one up.
LEMMA BuildFacts ==
    ASSUME NEW g \in FileType, NEW pos \in Nat, input \in InputType,
           NEW h, h = buildCacheForPos(g, pos),
           NEW s, s = freeCache(g.caches)
    PROVE  /\ s \in Slot /\ h \in FileType
           /\ \A i \in Slot : i # s => h.caches[i] = g.caches[i]
           /\ ChunkSize(pos) = 0 =>
                 /\ h.currentCache = g.currentCache
                 /\ h.caches[s].state = "EMPTY"
                 /\ h.caches[s].start = g.caches[s].start
                 /\ h.caches[s].pos = g.caches[s].pos
                 /\ h.caches[s].offset = g.caches[s].offset
                 /\ h.caches[s].bufsize = g.caches[s].bufsize
           /\ ChunkSize(pos) # 0 =>
                 /\ h.currentCache = s
                 /\ h.caches[s] = [state |-> "ACTIVE", start |-> ChunkStart(pos),
                                   pos |-> pos, offset |-> 0,
                                   bufsize |-> ChunkSize(pos), lifetime |-> 0]
<1>1. s \in Slot
  BY SlotForNewCache
<1>2. g.caches \in [Slot -> CacheType] /\ g.currentCache \in Slot \cup {NoCache}
  BY DEF FileType
<1>3. g.caches[s] \in CacheType
  BY <1>1, <1>2
<1>4. ChunkStart(pos) \in Nat /\ ChunkSize(pos) \in Nat
  BY ChunkFacts
<1>5. CASE ChunkSize(pos) = 0
  <2>1. h = [g EXCEPT !.caches[s].state = "EMPTY"]
    BY <1>5 DEF buildCacheForPos
  <2>2. [g.caches[s] EXCEPT !.state = "EMPTY"] \in CacheType
    BY <1>3 DEF CacheType
  <2>3. /\ h.caches = [g.caches EXCEPT ![s] = [@ EXCEPT !.state = "EMPTY"]]
        /\ h.currentCache = g.currentCache
        /\ h = [caches |-> h.caches, currentCache |-> h.currentCache]
    BY <2>1 DEF FileType
  <2>4. h \in FileType
    BY <1>1, <1>2, <2>2, <2>3 DEF FileType
  <2> QED BY <1>1, <1>2, <1>3, <1>5, <2>3, <2>4 DEF CacheType
<1>6. CASE ChunkSize(pos) # 0
  <2> DEFINE c == [state |-> "ACTIVE", start |-> ChunkStart(pos), pos |-> pos,
                   offset |-> 0, bufsize |-> ChunkSize(pos), lifetime |-> 0]
  <2>1. h = [caches |-> [g.caches EXCEPT ![s] = c], currentCache |-> s]
    BY <1>6 DEF buildCacheForPos
  <2>2. c \in CacheType
    BY <1>4 DEF CacheType
  <2> HIDE DEF c
  <2>3. h \in FileType
    BY <1>1, <1>2, <2>1, <2>2 DEF FileType
  <2>4. h.caches[s] = c
    BY <1>1, <1>2, <2>1
  <2> QED BY <1>1, <1>2, <1>6, <2>1, <2>3, <2>4 DEF c
<1> QED BY <1>5, <1>6

LEMMA BuildKeepsCaches ==
    ASSUME NEW g, Caches(g), NEW pos \in Nat, input \in InputType
    PROVE  Caches(buildCacheForPos(g, pos))
<1> DEFINE h == buildCacheForPos(g, pos)  s == freeCache(g.caches)
<1>1. g \in FileType /\ Held(g) /\ CurrentFilled(g)
  BY DEF Caches
<1>2. /\ s \in Slot /\ h \in FileType
      /\ \A i \in Slot : i # s => h.caches[i] = g.caches[i]
      /\ ChunkSize(pos) = 0 =>
                 /\ h.currentCache = g.currentCache
                 /\ h.caches[s].state = "EMPTY"
                 /\ h.caches[s].start = g.caches[s].start
                 /\ h.caches[s].pos = g.caches[s].pos
                 /\ h.caches[s].bufsize = g.caches[s].bufsize
      /\ ChunkSize(pos) # 0 =>
            /\ h.currentCache = s
            /\ h.caches[s] = [state |-> "ACTIVE", start |-> ChunkStart(pos),
                              pos |-> pos, offset |-> 0,
                              bufsize |-> ChunkSize(pos), lifetime |-> 0]
  BY <1>1, BuildFacts
<1> HIDE DEF h, s
<1>3. ChunkSize(pos) \in Nat /\ (ChunkSize(pos) # 0 => ChunkSize(pos) > 0)
  BY ChunkFacts
<1>4. CASE ChunkSize(pos) = 0
  <2>1. Held(h)
    BY <1>1, <1>2, <1>4 DEF Held
  <2>2. CurrentFilled(h)
    BY <1>1, <1>2, <1>4 DEF CurrentFilled, FileType, NoCache
  <2>3. Caches(h)
    BY <1>2, <2>1, <2>2 DEF Caches
  <2> QED BY <2>3 DEF h
<1>5. CASE ChunkSize(pos) # 0
  <2>1. Held(h)
    <3>1. input.kind = "file" => /\ ChunkStart(pos) = pos /\ pos < input.bytes
                                 /\ ChunkSize(pos) = Lesser(PAGESIZE, input.bytes - pos)
      BY <1>3, <1>5, ChunkFacts
    <3> QED BY <1>1, <1>2, <1>3, <1>5, <3>1 DEF Held
  <2>2. CurrentFilled(h)
    BY <1>2, <1>3, <1>5 DEF CurrentFilled
  <2>3. Caches(h)
    BY <1>2, <2>1, <2>2 DEF Caches
  <2> QED BY <2>3 DEF h
<1> QED BY <1>3, <1>4, <1>5

\* getCacheForPos makes a cache that covers the position current, if any does.
LEMMA GetFacts ==
    ASSUME NEW g, Caches(g), NEW pos \in Int,
           NEW h, h = getCacheForPos(g, pos)
    PROVE  /\ Caches(h)
           /\ Covering(g, pos) = {} => h.currentCache = g.currentCache
           /\ Covering(g, pos) # {} => /\ h.currentCache \in Slot
                                       /\ Covers(getCurrentCache(h), pos)
           /\ \A i \in Slot : \A q : Covers(h.caches[i], q) <=> Covers(g.caches[i], q)
<1> DEFINE C == Covering(g, pos)
           found == {i \in C : \A j \in C : i <= j}
           Aged(i) == [g.caches[i] EXCEPT !.lifetime = @ + 1]
<1>1. g \in FileType /\ Held(g) /\ CurrentFilled(g)
  BY DEF Caches
<1>2. g.caches \in [Slot -> CacheType] /\ g.currentCache \in Slot \cup {NoCache}
  BY <1>1 DEF FileType
<1>3. /\ h.caches = [i \in Slot |-> IF i \in found THEN g.caches[i] ELSE Aged(i)]
      /\ h.currentCache = IF found = {} THEN g.currentCache ELSE CHOOSE i \in found : TRUE
      /\ h = [caches |-> h.caches, currentCache |-> h.currentCache]
  BY DEF getCacheForPos
<1>4. C # {} => found # {}
  <2>1. C \in SUBSET Nat
    BY CacheAssumption DEF Slot, Covering
  <2> HIDE DEF C
  <2> QED BY <2>1, LeastElement
<1>5. found \subseteq C /\ C \subseteq Slot
  BY DEF Covering
<1>6. h.currentCache \in Slot \cup {NoCache}
      /\ (C = {} => h.currentCache = g.currentCache)
      /\ (C # {} => h.currentCache \in C)
  <2> HIDE DEF found, C
  <2> QED BY <1>2, <1>3, <1>4, <1>5
<1>7. ASSUME NEW i \in Slot
      PROVE  /\ h.caches[i] \in CacheType
             /\ h.caches[i].state = g.caches[i].state
             /\ h.caches[i].start = g.caches[i].start
             /\ h.caches[i].pos = g.caches[i].pos
             /\ h.caches[i].offset = g.caches[i].offset
             /\ h.caches[i].bufsize = g.caches[i].bufsize
  <2>1. g.caches[i] \in CacheType
    BY <1>2
  <2>2. g.caches[i].lifetime \in Nat
    BY <2>1 DEF CacheType
  <2>3. g.caches[i].lifetime + 1 \in Nat
    BY <2>2
  <2>4. Aged(i) \in CacheType
    BY <2>1, <2>3, Zenon DEF CacheType
  <2>5. /\ Aged(i).state = g.caches[i].state
        /\ Aged(i).start = g.caches[i].start
        /\ Aged(i).pos = g.caches[i].pos
        /\ Aged(i).offset = g.caches[i].offset
        /\ Aged(i).bufsize = g.caches[i].bufsize
    BY <2>1 DEF CacheType
  <2>6. h.caches[i] = g.caches[i] \/ h.caches[i] = Aged(i)
    BY <1>3
  <2> HIDE DEF Aged
  <2> QED BY <2>1, <2>4, <2>5, <2>6
<1>8. h \in FileType
  <2>1. h.caches = [i \in Slot |-> h.caches[i]]
    BY <1>3
  <2>2. h.caches \in [Slot -> CacheType]
    BY <1>7, <2>1
  <2> QED BY <1>3, <1>6, <2>2 DEF FileType
<1>9. \A i \in Slot : \A q : Covers(h.caches[i], q) <=> Covers(g.caches[i], q)
  BY <1>7 DEF Covers
<1>10. C # {} => h.currentCache \in Slot /\ Covers(getCurrentCache(h), pos)
  <2>1. \A i \in C : Covers(g.caches[i], pos)
    BY DEF Covering
  <2> HIDE DEF C
  <2> QED BY <1>5, <1>6, <1>9, <2>1 DEF getCurrentCache
<1>11. Held(h)
  BY <1>1, <1>7 DEF Held
<1>12. CurrentFilled(h)
  <2>1. CASE C = {}
    BY <1>1, <1>2, <1>6, <1>7, <2>1 DEF CurrentFilled, NoCache
  <2>2. CASE C # {}
    <3>1. getCurrentCache(h) \in CacheType /\ Covers(getCurrentCache(h), pos)
      BY <1>7, <1>10, <2>2 DEF getCurrentCache
    <3>2. getCurrentCache(h).bufsize > 0
      BY <3>1 DEF Covers, CacheType
    <3> QED BY <3>2 DEF CurrentFilled, getCurrentCache
  <2> QED BY <2>1, <2>2
<1> QED BY <1>6, <1>8, <1>9, <1>10, <1>11, <1>12 DEF Caches
WithOffset(g, s, n) == [g EXCEPT !.caches[s].offset = n]

LEMMA OffsetFacts ==
    ASSUME NEW g \in FileType, NEW s \in Slot, NEW n \in Nat
    PROVE  /\ WithOffset(g, s, n) \in FileType
           /\ WithOffset(g, s, n).currentCache = g.currentCache
           /\ WithOffset(g, s, n).caches[s].offset = n
           /\ \A i \in Slot :
                 /\ i # s => WithOffset(g, s, n).caches[i] = g.caches[i]
                 /\ WithOffset(g, s, n).caches[i].state = g.caches[i].state
                 /\ WithOffset(g, s, n).caches[i].start = g.caches[i].start
                 /\ WithOffset(g, s, n).caches[i].pos = g.caches[i].pos
                 /\ WithOffset(g, s, n).caches[i].bufsize = g.caches[i].bufsize
<1> DEFINE h == WithOffset(g, s, n)
<1>1. g.caches \in [Slot -> CacheType] /\ g.currentCache \in Slot \cup {NoCache}
  BY DEF FileType
<1>2. g.caches[s] \in CacheType
  BY <1>1
<1> DEFINE c == [g.caches[s] EXCEPT !.offset = n]
<1>3. c \in CacheType
  BY <1>2, Zenon DEF CacheType
<1>4. /\ c.state = g.caches[s].state /\ c.start = g.caches[s].start
      /\ c.pos = g.caches[s].pos /\ c.bufsize = g.caches[s].bufsize
      /\ c.offset = n
  BY <1>2 DEF CacheType
<1>5. /\ h.caches = [g.caches EXCEPT ![s] = c]
      /\ h.currentCache = g.currentCache
      /\ h = [caches |-> h.caches, currentCache |-> h.currentCache]
  BY DEF FileType, WithOffset
<1>6. h.caches[s] = c
  BY <1>1, <1>5
<1> HIDE DEF c
<1>7. h \in FileType
  BY <1>1, <1>3, <1>5 DEF FileType
<1>8. \A i \in Slot : i # s => h.caches[i] = g.caches[i]
  BY <1>1, <1>5
<1> QED BY <1>4, <1>5, <1>6, <1>7, <1>8 DEF c

-----------------------------------------------------------------------------
(* The reader's calls keep the invariant                                       *)

\* The part of the invariant about the caches after a step to (almost) h.
LEMMA CachesStep ==
    ASSUME NEW h, Caches(h), f' \in FileType, f'.currentCache = h.currentCache,
           input'.kind = input.kind,
           input.kind = "file" => input'.bytes = input.bytes,
           \A i \in Slot : /\ f'.caches[i].state = "ACTIVE" => h.caches[i].state = "ACTIVE"
                           /\ f'.caches[i].start = h.caches[i].start
                           /\ f'.caches[i].pos = h.caches[i].pos
                           /\ f'.caches[i].bufsize = h.caches[i].bufsize
    PROVE  Caches(f)'
<1>1. h \in FileType /\ Held(h) /\ CurrentFilled(h)
  BY DEF Caches
<1>2. Held(f)'
  BY <1>1 DEF Held
<1>3. CurrentFilled(f)'
  BY <1>1 DEF CurrentFilled, FileType
<1> QED BY <1>2, <1>3 DEF Caches

LEMMA CurrentFacts ==
    ASSUME NEW g, Caches(g), input \in InputType,
           NEW taken \in Nat, input.kind = "pipe" => InOrder(g, taken)
    PROVE  /\ NextPos(g) \in Nat /\ At(g) \in Nat
           /\ NextPos(g) = At(g)
           /\ g.currentCache # NoCache =>
                 /\ g.currentCache \in Slot
                 /\ getCurrentCache(g) \in CacheType
                 /\ getCurrentCache(g) = g.caches[g.currentCache]
                 /\ getCurrentCache(g).bufsize > 0
                 /\ getCurrentCache(g).start = getCurrentCache(g).pos
                 /\ getCurrentCache(g).start + getCurrentCache(g).bufsize <= input.bytes
<1>1. g \in FileType /\ Held(g) /\ CurrentFilled(g)
  BY DEF Caches
<1>2. input.bytes \in Nat /\ input.taken \in Nat /\ input.kind \in {"file", "pipe"}
  BY DEF InputType
<1>3. CASE g.currentCache = NoCache
  BY <1>3 DEF NextPos, At
<1>4. CASE g.currentCache # NoCache
  <2> DEFINE c == getCurrentCache(g)
  <2>1. g.currentCache \in Slot /\ c = g.caches[g.currentCache]
    BY <1>1, <1>4 DEF FileType, getCurrentCache
  <2>2. c \in CacheType
    BY <1>1, <2>1 DEF FileType
  <2>3. c.bufsize > 0
    BY <1>1, <1>4, <2>1 DEF CurrentFilled
  <2>4. c.start = c.pos /\ c.start + c.bufsize <= input.bytes
    <3>1. CASE input.kind = "file"
      <4>1. /\ c.start = c.pos /\ c.pos < input.bytes
            /\ c.bufsize = Lesser(PAGESIZE, input.bytes - c.pos)
        BY <1>1, <2>1, <2>3, <3>1 DEF Held
      <4>2. c.start \in Nat /\ c.pos \in Nat
        BY <2>2 DEF CacheType
      <4> HIDE DEF c
      <4> QED BY <1>2, <4>1, <4>2, PageAssumption DEF Lesser
    <3>2. CASE input.kind = "pipe"
      BY <1>2, <1>4, <3>2 DEF InOrder
    <3> QED BY <1>2, <3>1, <3>2
  <2>5. c.start \in Nat /\ c.pos \in Nat /\ c.offset \in Nat
    BY <2>2 DEF CacheType
  <2>6. NextPos(g) = c.pos + c.offset /\ At(g) = c.start + c.offset
    BY <1>4 DEF NextPos, At
  <2> HIDE DEF c
  <2>7. /\ NextPos(g) \in Nat /\ At(g) \in Nat /\ NextPos(g) = At(g)
    BY <2>4, <2>5, <2>6
  <2> QED BY <2>1, <2>2, <2>3, <2>4, <2>7 DEF c
<1> QED BY <1>3, <1>4

\* How a read begins: the next byte is in the current cache, or there is none.
LEMMA RefillFacts ==
    ASSUME ReaderInv, call.op = "none", Refill
    PROVE  /\ Caches(Refilled)
           /\ CurrentAlive(Refilled)
           /\ At(Refilled) = At(f)
           /\ input' \in InputType
           /\ input'.kind = input.kind /\ input'.bytes = input.bytes
           /\ input'.ended = input.ended
           /\ input.kind = "file" => input' = input
           /\ input.kind = "pipe" => InOrder(Refilled, input'.taken)
           /\ Exhausted(Refilled) => input.bytes <= At(f) /\ input.ended
<1> DEFINE pos == NextPos(f)  s == freeCache(f.caches)
<1>1. /\ Caches(f) /\ f \in FileType /\ input \in InputType /\ CurrentAlive(f)
      /\ input.kind = "pipe" => InOrder(f, input.taken)
      /\ input.kind = "file" => input.ended
  BY DEF ReaderInv, Caches
<1>2. /\ pos \in Nat /\ pos = At(f)
      /\ f.currentCache # NoCache =>
            /\ f.currentCache \in Slot
            /\ getCurrentCache(f) \in CacheType
            /\ getCurrentCache(f) = f.caches[f.currentCache]
            /\ getCurrentCache(f).start = getCurrentCache(f).pos
            /\ getCurrentCache(f).start + getCurrentCache(f).bufsize <= input.bytes
  <2>1. input.taken \in Nat
    BY <1>1 DEF InputType
  <2> QED BY <1>1, <2>1, CurrentFacts
<1>3. input.bytes \in Nat /\ input.taken \in Nat /\ input.kind \in {"file", "pipe"}
  BY <1>1 DEF InputType
<1>4. CASE ~Exhausted(f)
  <2>1. Refilled = f /\ input' = input
    BY <1>4 DEF Refilled, Refill
  <2> QED BY <1>1, <1>4, <2>1 DEF InOrder
<1>5. CASE Exhausted(f)
  <2>1. Refilled = buildCacheForPos(f, pos) /\ input' = Taken(pos) /\ CanRead
    BY <1>5 DEF Refilled, Refill
  <2>2. Caches(Refilled)
    BY <1>1, <1>2, <2>1, BuildKeepsCaches
  <2>3. /\ s \in Slot /\ Refilled \in FileType
        /\ \A i \in Slot : i # s => Refilled.caches[i] = f.caches[i]
        /\ ChunkSize(pos) = 0 =>
              /\ Refilled.currentCache = f.currentCache
              /\ Refilled.caches[s].start = f.caches[s].start
              /\ Refilled.caches[s].pos = f.caches[s].pos
              /\ Refilled.caches[s].offset = f.caches[s].offset
              /\ Refilled.caches[s].bufsize = f.caches[s].bufsize
        /\ ChunkSize(pos) # 0 =>
              /\ Refilled.currentCache = s
              /\ Refilled.caches[s] = [state |-> "ACTIVE", start |-> ChunkStart(pos),
                                       pos |-> pos, offset |-> 0,
                                       bufsize |-> ChunkSize(pos), lifetime |-> 0]
    BY <1>1, <1>2, <2>1, BuildFacts
  <2>4. /\ ChunkStart(pos) \in Nat /\ ChunkSize(pos) \in Nat
        /\ input.kind = "file" => ChunkStart(pos) = pos
        /\ ChunkSize(pos) = 0 => input.bytes <= ChunkStart(pos)
        /\ ChunkSize(pos) > 0 => ChunkStart(pos) + ChunkSize(pos) <= input.bytes
    BY <1>1, <1>2, ChunkFacts
  <2>5. input.kind = "pipe" => ChunkStart(pos) = input.taken /\ pos = input.taken
    <3> SUFFICES ASSUME input.kind = "pipe"
        PROVE ChunkStart(pos) = input.taken /\ pos = input.taken
      OBVIOUS
    <3>1. ChunkStart(pos) = input.taken
      BY DEF ChunkStart
    <3>2. CASE f.currentCache = NoCache
      BY <1>1, <3>1, <3>2 DEF InOrder, NextPos
    <3>3. CASE f.currentCache # NoCache
      <4>1. /\ getCurrentCache(f).offset <= getCurrentCache(f).bufsize
            /\ getCurrentCache(f).start + getCurrentCache(f).bufsize = input.taken
        BY <1>1, <3>3 DEF InOrder
      <4>2. getCurrentCache(f).offset >= getCurrentCache(f).bufsize
        BY <1>5, <3>3 DEF Exhausted
      <4>3. /\ getCurrentCache(f).offset \in Nat /\ getCurrentCache(f).bufsize \in Nat
        BY <1>2, <3>3 DEF CacheType
      <4>4. getCurrentCache(f).offset = getCurrentCache(f).bufsize
        BY <4>1, <4>2, <4>3
      <4> QED BY <1>2, <3>1, <3>3, <4>1, <4>4 DEF NextPos
    <3> QED BY <3>2, <3>3
  <2>6. /\ input' \in InputType
        /\ input'.kind = input.kind /\ input'.bytes = input.bytes
        /\ input'.ended = input.ended
        /\ input.kind = "file" => input' = input
        /\ input.kind = "pipe" => input'.taken = input.taken + ChunkSize(pos)
    <3>1. CASE input.kind = "file"
      BY <1>1, <2>1, <3>1 DEF Taken
    <3>2. CASE input.kind = "pipe"
      <4>1. input' = [input EXCEPT !.taken = @ + ChunkSize(pos)]
        BY <2>1, <3>2 DEF Taken
      <4>2. input.taken + ChunkSize(pos) \in Nat
        BY <1>3, <2>4
      <4>3. input' \in InputType
        BY <1>1, <4>1, <4>2, Zenon DEF InputType
      <4> QED BY <1>1, <3>2, <4>1, <4>3 DEF InputType
    <3> QED BY <1>3, <3>1, <3>2
  <2> HIDE DEF pos, s
  <2>7. CASE ChunkSize(pos) = 0
    <3>1. /\ Refilled.currentCache = f.currentCache
          /\ Refilled.currentCache # NoCache =>
                /\ getCurrentCache(Refilled).start = getCurrentCache(f).start
                /\ getCurrentCache(Refilled).pos = getCurrentCache(f).pos
                /\ getCurrentCache(Refilled).offset = getCurrentCache(f).offset
                /\ getCurrentCache(Refilled).bufsize = getCurrentCache(f).bufsize
      BY <1>2, <2>3, <2>7 DEF getCurrentCache
    <3>2. At(Refilled) = At(f) /\ Exhausted(Refilled)
      BY <1>5, <3>1 DEF At, Exhausted
    <3>3. input.bytes <= At(f) /\ input.ended
      <4>1. input.bytes <= At(f)
        BY <1>2, <1>3, <2>4, <2>5, <2>7
      <4>2. input.ended
        BY <1>1, <1>2, <1>3, <2>1, <2>5, <4>1 DEF CanRead
      <4> QED BY <4>1, <4>2
    <3>4. CurrentAlive(Refilled)
      BY <3>2 DEF CurrentAlive
    <3>5. input.kind = "pipe" => input'.taken = input.taken
      BY <1>3, <2>6, <2>7
    <3> QED BY <1>1, <2>2, <2>6, <3>1, <3>2, <3>3, <3>4, <3>5 DEF InOrder
  <2>8. CASE ChunkSize(pos) # 0
    <3>1. /\ Refilled.currentCache = s /\ s # NoCache
          /\ getCurrentCache(Refilled) =
                [state |-> "ACTIVE", start |-> ChunkStart(pos), pos |-> pos,
                 offset |-> 0, bufsize |-> ChunkSize(pos), lifetime |-> 0]
      BY <2>3, <2>8, CacheAssumption DEF getCurrentCache, Slot, NoCache
    <3>2. ChunkStart(pos) = pos
      BY <1>3, <2>4, <2>5
    <3>3. At(Refilled) = At(f)
      BY <1>2, <3>1, <3>2 DEF At
    <3>4. ~Exhausted(Refilled) /\ CurrentAlive(Refilled)
      BY <2>4, <2>8, <3>1 DEF Exhausted, CurrentAlive
    <3>5. input.kind = "pipe" =>
             /\ input'.taken <= input.bytes
             /\ 0 <= ChunkSize(pos)
             /\ ChunkStart(pos) + ChunkSize(pos) = input'.taken
      BY <2>4, <2>5, <2>6, <2>8
    <3> QED BY <2>2, <2>6, <3>1, <3>2, <3>3, <3>4, <3>5 DEF InOrder
  <2> QED BY <2>7, <2>8
<1> QED BY <1>4, <1>5
\* io61_readc: the byte at the position, or none at the end.
LEMMA ReadcStep ==
    ASSUME ReaderInv, Readc
    PROVE  /\ ReaderInv'
           /\ input'.bytes = input.bytes /\ input'.ended = input.ended
           /\ \/ got' = <<>> /\ At(f)' = At(f) /\ input.bytes <= At(f) /\ input.ended
              \/ got' = Returned(At(f)) /\ At(f)' = At(f) + 1 /\ At(f) < input.bytes
<1> DEFINE g == Refilled  s == g.currentCache  n == g.caches[s].offset
<1>1. call.op = "none" /\ call' = call /\ Refill
  BY DEF Readc
<1>2. /\ Caches(g) /\ CurrentAlive(g)
      /\ At(g) = At(f)
      /\ input' \in InputType
      /\ input'.kind = input.kind /\ input'.bytes = input.bytes
      /\ input'.ended = input.ended
      /\ input.kind = "pipe" => InOrder(g, input'.taken)
      /\ Exhausted(g) => input.bytes <= At(f) /\ input.ended
  BY <1>1, RefillFacts
<1>3. /\ input \in InputType /\ got \in Seq(Nat)
      /\ call \in [op : {"none", "read", "crashed", "closed"}, sz : Nat,
                    cache : Slot, buf : Seq(Nat)]
      /\ call.op # "read" => call.buf = <<>>
      /\ input.kind = "file" => input.ended
  BY DEF ReaderInv
<1>4. input'.taken \in Nat /\ input.bytes \in Nat
  BY <1>2, <1>3 DEF InputType
<1>5. /\ At(g) \in Nat
      /\ s # NoCache =>
            /\ s \in Slot
            /\ getCurrentCache(g) \in CacheType
            /\ getCurrentCache(g) = g.caches[s]
            /\ getCurrentCache(g).start + getCurrentCache(g).bufsize <= input.bytes
  BY <1>2, <1>3, <1>4, CurrentFacts
<1>6. g \in FileType
  BY <1>2 DEF Caches
<1>7. CASE Exhausted(g)
  <2>1. f' = g /\ got' = <<>>
    BY <1>7 DEF Readc
  <2>2. Caches(f)'
    BY <1>2, <1>6, <2>1, CachesStep
  <2>3. CurrentAlive(f)' /\ At(f)' = At(g)
    BY <1>2, <2>1 DEF CurrentAlive, At, Exhausted, getCurrentCache
  <2>4. input.kind = "pipe" => InOrder(f, input.taken)'
    BY <1>2, <2>1 DEF InOrder, getCurrentCache
  <2>5. got' \in Seq(Nat)
    BY <2>1
  <2>6. ReaderInv'
    BY <1>1, <1>2, <1>3, <2>2, <2>3, <2>4, <2>5 DEF ReaderInv
  <2> QED BY <1>2, <1>7, <2>1, <2>3, <2>6
<1>8. CASE ~Exhausted(g)
  <2>1. s # NoCache /\ ~(getCurrentCache(g).offset >= getCurrentCache(g).bufsize)
    BY <1>8 DEF Exhausted
  <2>2. /\ f' = [g EXCEPT !.caches[s].offset = @ + 1]
        /\ got' = Returned(getCurrentCache(g).start + getCurrentCache(g).offset)
    BY <1>8 DEF Readc
  <2>3. /\ n \in Nat /\ n = getCurrentCache(g).offset /\ n + 1 \in Nat
        /\ getCurrentCache(g).bufsize \in Nat /\ getCurrentCache(g).start \in Nat
        /\ s \in Slot
    BY <1>5, <2>1 DEF CacheType
  <2>4. f' = WithOffset(g, s, n + 1)
    BY <2>2 DEF WithOffset
  <2> HIDE DEF n
  <2>5. /\ f' \in FileType /\ f'.currentCache = s
        /\ f'.caches[s].offset = n + 1
        /\ \A i \in Slot : /\ f'.caches[i].state = g.caches[i].state
                           /\ f'.caches[i].start = g.caches[i].start
                           /\ f'.caches[i].pos = g.caches[i].pos
                           /\ f'.caches[i].bufsize = g.caches[i].bufsize
    <3> DEFINE m == n + 1
    <3>1. g \in FileType /\ s \in Slot /\ m \in Nat
      BY <1>6, <2>3
    <3>2. f' = WithOffset(g, s, m)
      BY <2>4
    <3> HIDE DEF g, s, m
    <3>3. /\ WithOffset(g, s, m) \in FileType
          /\ WithOffset(g, s, m).currentCache = g.currentCache
          /\ WithOffset(g, s, m).caches[s].offset = m
          /\ \A i \in Slot :
                /\ WithOffset(g, s, m).caches[i].state = g.caches[i].state
                /\ WithOffset(g, s, m).caches[i].start = g.caches[i].start
                /\ WithOffset(g, s, m).caches[i].pos = g.caches[i].pos
                /\ WithOffset(g, s, m).caches[i].bufsize = g.caches[i].bufsize
      BY <3>1, OffsetFacts
    <3> QED BY <3>2, <3>3 DEF s, m
  <2>6. Caches(f)'
    BY <1>2, <2>5, CachesStep
  <2>7. /\ getCurrentCache(f)'.state = getCurrentCache(g).state
        /\ getCurrentCache(f)'.start = getCurrentCache(g).start
        /\ getCurrentCache(f)'.pos = getCurrentCache(g).pos
        /\ getCurrentCache(f)'.bufsize = getCurrentCache(g).bufsize
        /\ getCurrentCache(f)'.offset = n + 1
        /\ f'.currentCache # NoCache
    BY <1>5, <2>1, <2>3, <2>5 DEF getCurrentCache
  <2>8. At(g) = getCurrentCache(g).start + n /\ At(f)' = getCurrentCache(g).start + n + 1
    BY <2>1, <2>3, <2>7 DEF At
  <2>9. CurrentAlive(f)'
    BY <1>2, <1>8, <2>7 DEF CurrentAlive
  <2>10. n + 1 <= getCurrentCache(g).bufsize
    BY <2>1, <2>3
  <2>11. input.kind = "pipe" => InOrder(f, input.taken)'
    BY <1>2, <2>1, <2>7, <2>10 DEF InOrder
  <2>12. At(f) < input.bytes
    BY <1>2, <1>4, <1>5, <2>1, <2>3, <2>8, <2>10
  <2>13. got' = Returned(At(f)) /\ got' \in Seq(Nat)
    <3>1. got' = Returned(At(f))
      BY <1>2, <2>2, <2>3, <2>8
    <3>2. At(f) \in Nat
      BY <1>2, <1>5
    <3> QED BY <3>1, <3>2 DEF Returned
  <2>14. At(f)' = At(f) + 1
    BY <1>2, <2>3, <2>8
  <2>15. ReaderInv'
    BY <1>1, <1>2, <1>3, <2>6, <2>9, <2>11, <2>13 DEF ReaderInv
  <2> QED BY <1>2, <2>12, <2>13, <2>14, <2>15
<1> QED BY <1>7, <1>8

\* io61_read up to its loop: at the end it returns nothing, else it goes on
\* with the current cache.
LEMMA ReadStep ==
    ASSUME ReaderInv, input.kind = "file", NEW sz \in Nat \ {0}, Read(sz)
    PROVE  /\ ReaderInv'
           /\ input' = input
           /\ At(f)' = At(f)
           /\ \/ got' = <<>> /\ call' = call /\ input.bytes <= At(f) /\ input.ended
              \/ got' = got /\ call'.op = "read" /\ call'.buf = <<>> /\ call'.sz = sz
<1> DEFINE g == Refilled  s == g.currentCache
<1>1. call.op = "none" /\ Refill /\ f' = g
  BY DEF Read
<1>2. /\ Caches(g) /\ CurrentAlive(g)
      /\ At(g) = At(f)
      /\ input' = input
      /\ Exhausted(g) => input.bytes <= At(f) /\ input.ended
  BY <1>1, RefillFacts
<1>3. /\ input \in InputType /\ got \in Seq(Nat)
      /\ call \in [op : {"none", "read", "crashed", "closed"}, sz : Nat,
                    cache : Slot, buf : Seq(Nat)]
      /\ call.op # "read" => call.buf = <<>>
      /\ input.kind = "file" => input.ended
      /\ f \in FileType
  BY DEF ReaderInv, Caches
<1>4. g \in FileType
  BY <1>2 DEF Caches
<1>5. Caches(f)' /\ CurrentAlive(f)' /\ At(f)' = At(g)
  <2>1. Caches(f)'
    BY <1>1, <1>2, <1>4, CachesStep
  <2> QED BY <1>1, <1>2, <2>1 DEF CurrentAlive, At, Exhausted, getCurrentCache
<1>6. CASE Exhausted(g)
  <2>1. got' = <<>> /\ call' = call
    BY <1>6 DEF Read
  <2>2. got' \in Seq(Nat)
    BY <2>1
  <2>3. ReaderInv'
    BY <1>1, <1>2, <1>3, <1>5, <2>1, <2>2 DEF ReaderInv
  <2> QED BY <1>2, <1>5, <1>6, <2>1, <2>3
<1>7. CASE ~Exhausted(g)
  <2>1. /\ got' = got
        /\ call' = [op |-> "read", sz |-> sz, cache |-> s, buf |-> <<>>]
    BY <1>7 DEF Read
  <2>2. s # NoCache /\ ~(getCurrentCache(g).offset >= getCurrentCache(g).bufsize)
    BY <1>7 DEF Exhausted
  <2>3. /\ At(g) \in Nat /\ s \in Slot
        /\ getCurrentCache(g) \in CacheType
        /\ getCurrentCache(g) = g.caches[s]
        /\ getCurrentCache(g).bufsize > 0
    <3>1. input.taken \in Nat /\ input.kind # "pipe"
      BY <1>3 DEF InputType
    <3> QED BY <1>2, <1>3, <2>2, <3>1, CurrentFacts
  <2>4. getCurrentCache(g).offset \in Nat /\ getCurrentCache(g).bufsize \in Nat
    BY <2>3 DEF CacheType
  <2>5. /\ call'.op = "read" /\ call'.sz = sz /\ call'.cache = s /\ call'.buf = <<>>
        /\ call' \in [op : {"none", "read", "crashed", "closed"}, sz : Nat,
                      cache : Slot, buf : Seq(Nat)]
    <3> QED BY <2>1, <2>3
  <2>6. Consumed' = At(f)'
    <3>1. At(f)' \in Nat /\ Len(call'.buf) = 0
      BY <1>5, <2>3, <2>5
    <3>2. f'.currentCache # NoCache
      BY <1>1, <2>2
    <3>3. getCurrentCache(f)' = getCurrentCache(g)
      BY <1>1 DEF getCurrentCache
    <3>4. getCurrentCache(f)'.start \in Nat /\ getCurrentCache(f)'.offset \in Nat
      BY <2>3, <3>3 DEF CacheType
    <3>5. Consumed' = At(f)' - Len(call'.buf)
      BY <3>1, <3>2, <3>4 DEF Consumed, At
    <3> QED BY <3>1, <3>5
  <2>7. Bytes(Consumed', 0) = <<>>
    BY DEF Bytes
  <2>8. Reading'
    <3>1. Len(call'.buf) = 0 /\ 0 < call'.sz
      BY <2>5
    <3>2. Consumed' \in Nat /\ call'.buf = Bytes(Consumed', Len(call'.buf))
      BY <1>5, <2>3, <2>5, <2>6, <2>7, <3>1
    <3>3. f'.caches[call'.cache] = getCurrentCache(g) /\ call'.cache = f'.currentCache
      BY <1>1, <2>3, <2>5
    <3>4. getCurrentCache(g).offset < getCurrentCache(g).bufsize
      BY <2>2, <2>4
    <3> QED BY <1>1, <1>2, <2>2, <2>3, <2>5, <3>1, <3>2, <3>3, <3>4 DEF Reading
  <2>9. ReaderInv'
    BY <1>2, <1>3, <1>5, <2>1, <2>5, <2>8 DEF ReaderInv
  <2> QED BY <1>2, <1>5, <2>1, <2>5, <2>9
<1> QED BY <1>6, <1>7
\* One round of io61_read: it goes on unseen, or has got what there is.
LEMMA ReadRoundStep ==
    ASSUME ReaderInv, ReadRound
    PROVE  /\ ReaderInv'
           /\ input' = input /\ input.ended /\ call.sz \in Nat \ {0}
           /\ call.op = "read"
           /\ Consumed \in Nat /\ Consumed <= input.bytes
           /\ \/ /\ call'.op = "read" /\ call'.sz = call.sz
                 /\ got' = got /\ Consumed' = Consumed
              \/ /\ call' = NoCall
                 /\ got' = Bytes(Consumed, Lesser(call.sz, input.bytes - Consumed))
                 /\ At(f)' = Consumed + Lesser(call.sz, input.bytes - Consumed)
<1> DEFINE k == call.cache  c == f.caches[k]  d == getCurrentCache(f)
           L == Len(call.buf)  P == Consumed
           n == Lesser(call.sz - L, c.bufsize - c.offset)
           buf == call.buf \o Bytes(c.start + c.offset, n)
           g == WithOffset(f, k, c.offset + n)
           end == c.pos + c.offset + n
           drained == c.offset + n = c.bufsize
           s == freeCache(g.caches)
<1>1. /\ call.op = "read" /\ Reading /\ Caches(f) /\ f \in FileType /\ CurrentAlive(f)
      /\ input \in InputType /\ input.ended /\ got \in Seq(Nat)
      /\ call \in [op : {"none", "read", "crashed", "closed"}, sz : Nat,
                    cache : Slot, buf : Seq(Nat)]
  BY DEF ReaderInv, ReadRound, Reading, Caches
<1>2. /\ input.kind = "file" /\ input.kind # "pipe" /\ input.bytes \in Nat
      /\ input.taken \in Nat /\ f.currentCache # NoCache
      /\ call.sz \in Nat /\ L \in Nat /\ L < call.sz
      /\ call.buf \in Seq(Nat) /\ k \in Slot
  BY <1>1 DEF Reading, InputType
<1>3. /\ c \in CacheType /\ c.bufsize > 0
      /\ \/ k = f.currentCache /\ c.offset < c.bufsize
         \/ c.offset = c.bufsize /\ d.offset = 0 /\ d.pos = c.pos + c.bufsize
      /\ P \in Nat /\ call.buf = Bytes(P, L)
  BY <1>1, <1>2 DEF Reading, FileType
<1>4. /\ f.currentCache \in Slot /\ d \in CacheType /\ d = f.caches[f.currentCache]
      /\ d.bufsize > 0 /\ d.start = d.pos
      /\ d.start + d.bufsize <= input.bytes
  BY <1>1, <1>2, CurrentFacts
<1>5. /\ c.start = c.pos /\ c.pos < input.bytes
      /\ c.bufsize = Lesser(PAGESIZE, input.bytes - c.pos)
  BY <1>1, <1>2, <1>3 DEF Caches, Held
<1>6. /\ c.start \in Nat /\ c.pos \in Nat /\ c.offset \in Nat /\ c.bufsize \in Nat
      /\ d.start \in Nat /\ d.pos \in Nat /\ d.offset \in Nat /\ d.bufsize \in Nat
  BY <1>3, <1>4 DEF CacheType
<1>7. P = d.start + d.offset - L
  BY <1>2, <1>4 DEF Consumed
<1> HIDE DEF c, d, L, P
<1>8. c.offset <= c.bufsize /\ c.pos + c.bufsize <= input.bytes
  BY <1>2, <1>3, <1>5, <1>6, PageAssumption DEF Lesser
<1>9. /\ n \in Nat /\ L + n <= call.sz /\ c.offset + n <= c.bufsize
      /\ ~drained => L + n = call.sz
      /\ c.offset + n \in Nat
  <2>1. /\ call.sz - L \in Nat /\ c.bufsize - c.offset \in Nat
        /\ L \in Nat /\ call.sz \in Nat /\ c.offset \in Nat /\ c.bufsize \in Nat
    BY <1>2, <1>6, <1>8
  <2>2. /\ n \in Nat /\ n <= call.sz - L /\ n <= c.bufsize - c.offset
        /\ n = call.sz - L \/ n = c.bufsize - c.offset
    <3> DEFINE a == call.sz - L  b == c.bufsize - c.offset
    <3>1. n = Lesser(a, b) /\ a \in Nat /\ b \in Nat
      BY <2>1
    <3> HIDE DEF a, b, n
    <3>2. n \in Nat /\ n <= a /\ n <= b /\ (n = a \/ n = b)
      BY <3>1, LesserFacts
    <3> QED BY <3>2 DEF a, b
  <2> HIDE DEF n
  <2> QED BY <2>1, <2>2
<1> HIDE DEF n
<1>10. P + L = c.start + c.offset
  <2>1. CASE k = f.currentCache /\ c.offset < c.bufsize
    <3>1. c = d
      BY <1>4, <2>1 DEF c, d
    <3> QED BY <1>2, <1>3, <1>6, <1>7, <3>1
  <2>2. CASE c.offset = c.bufsize /\ d.offset = 0 /\ d.pos = c.pos + c.bufsize
    BY <1>2, <1>3, <1>4, <1>5, <1>6, <1>7, <2>2
  <2> QED BY <1>3, <2>1, <2>2
<1>11. /\ end \in Nat /\ end = P + L + n /\ end <= input.bytes /\ P <= input.bytes
       /\ P + (L + n) = end
  <2>1. /\ c.pos \in Nat /\ c.offset \in Nat /\ c.bufsize \in Nat /\ n \in Nat
        /\ P \in Nat /\ L \in Nat /\ input.bytes \in Nat
        /\ c.offset <= c.bufsize /\ c.pos + c.bufsize <= input.bytes
        /\ c.offset + n <= c.bufsize /\ P + L = c.pos + c.offset
    BY <1>2, <1>3, <1>5, <1>6, <1>8, <1>9, <1>10
  <2> QED BY <2>1
<1>12. end = c.start + (c.offset + n)
  <2>1. /\ P \in Nat /\ L \in Nat /\ n \in Nat /\ c.start \in Nat /\ c.offset \in Nat
        /\ P + L = c.start + c.offset /\ P + (L + n) = end
    BY <1>2, <1>3, <1>6, <1>9, <1>10, <1>11
  <2> HIDE DEF end
  <2> QED BY <2>1
<1>13. /\ buf = Bytes(P, L + n) /\ L + n \in Nat /\ Len(buf) = L + n /\ buf \in Seq(Nat)
  <2>1. L + n \in Nat
    BY <1>2, <1>9
  <2>2. buf = Bytes(P, L + n)
    <3>1. P \in Nat /\ L \in Nat /\ n \in Nat
      BY <1>2, <1>3, <1>9
    <3>2. buf = Bytes(P, L) \o Bytes(P + L, n)
      BY <1>3, <1>10
    <3> HIDE DEF buf
    <3> QED BY <3>1, <3>2, BytesConcat
  <2> HIDE DEF buf
  <2> QED BY <1>3, <2>1, <2>2, BytesFacts
<1>14. /\ g \in FileType /\ g.currentCache = f.currentCache
       /\ g.caches[k].offset = c.offset + n
       /\ \A i \in Slot : /\ i # k => g.caches[i] = f.caches[i]
                          /\ g.caches[i].state = f.caches[i].state
                          /\ g.caches[i].start = f.caches[i].start
                          /\ g.caches[i].pos = f.caches[i].pos
                          /\ g.caches[i].bufsize = f.caches[i].bufsize
  <2>1. f \in FileType /\ k \in Slot /\ c.offset + n \in Nat
    BY <1>1, <1>2, <1>9
  <2> HIDE DEF k
  <2> QED BY <2>1, OffsetFacts
<1>15. /\ f' = IF drained THEN buildCacheForPos(g, end) ELSE g
       /\ input' = IF drained THEN Taken(end) ELSE input
       /\ IF (drained /\ ChunkSize(end) = 0) \/ Len(buf) = call.sz
          THEN got' = buf /\ call' = NoCall
          ELSE call' = [call EXCEPT !.buf = buf] /\ UNCHANGED got
  BY DEF ReadRound, WithOffset, c, L, n
<1> HIDE DEF k, g, buf, end, s
<1>16. input' = input
  BY <1>2, <1>15 DEF Taken
<1>17. Caches(g)
  <2>1. Held(g)
    BY <1>1, <1>14 DEF Held, Caches
  <2>2. CurrentFilled(g)
    BY <1>1, <1>4, <1>14 DEF CurrentFilled, Caches
  <2> QED BY <1>14, <2>1, <2>2 DEF Caches
<1>18. NoCall \in [op : {"none", "read", "crashed", "closed"}, sz : Nat,
                   cache : Slot, buf : Seq(Nat)]
       /\ NoCall.op = "none" /\ NoCall.buf = <<>>
  BY CacheAssumption DEF NoCall, Slot
\* What is left to show when the call is over ...
<1>19. ASSUME call' = NoCall, got' = buf, Caches(f)', CurrentAlive(f)',
              At(f)' = end, L + n = Lesser(call.sz, input.bytes - P)
       PROVE  /\ ReaderInv'
              /\ got' = Bytes(P, Lesser(call.sz, input.bytes - P))
              /\ At(f)' = P + Lesser(call.sz, input.bytes - P)
  <2>1. ReaderInv'
    BY <1>1, <1>2, <1>13, <1>16, <1>18, <1>19 DEF ReaderInv
  <2> QED BY <1>11, <1>13, <1>19, <2>1
<1>20. CASE ~drained
  <2>1. L + n = call.sz /\ call' = NoCall /\ got' = buf /\ f' = g
    BY <1>9, <1>13, <1>15, <1>20
  <2>2. k = f.currentCache /\ c.offset < c.bufsize /\ c = d
    <3>1. ~(c.offset = c.bufsize)
      BY <1>6, <1>9, <1>20
    <3>2. k = f.currentCache /\ c.offset < c.bufsize
      BY <1>3, <3>1
    <3> QED BY <1>4, <3>2 DEF c
  <2>3. Caches(f)'
    BY <1>14, <1>16, <1>17, <2>1, CachesStep
  <2>4. /\ getCurrentCache(f)'.offset = c.offset + n
        /\ getCurrentCache(f)'.start = c.start
        /\ getCurrentCache(f)'.state = c.state
        /\ f'.currentCache # NoCache
    BY <1>2, <1>4, <1>14, <2>1, <2>2 DEF getCurrentCache, c
  <2>5. At(f)' = end
    <3>1. At(f)' = c.start + (c.offset + n)
      BY <2>4 DEF At
    <3>2. end = c.start + (c.offset + n)
      BY <1>12
    <3> QED BY <3>1, <3>2
  <2>6. CurrentAlive(f)'
    <3>1. c.state = "ACTIVE"
      BY <1>1, <1>2, <1>6, <2>2 DEF CurrentAlive, Exhausted, d
    <3> QED BY <2>4, <3>1 DEF CurrentAlive
  <2>7. L + n = Lesser(call.sz, input.bytes - P)
    BY <1>2, <1>3, <1>9, <1>11, <2>1 DEF Lesser
  <2> QED BY <1>1, <1>2, <1>3, <1>11, <1>16, <1>19, <2>1, <2>3, <2>5, <2>6, <2>7 DEF P
<1>21. CASE drained
  <2>1. f' = buildCacheForPos(g, end)
    BY <1>15, <1>21
  <2>2. Caches(f')
    BY <1>1, <1>11, <1>17, <2>1, BuildKeepsCaches
  <2>3. Caches(f)'
    BY <1>16, <2>2, CachesStep DEF Caches
  <2>4. /\ s \in Slot
        /\ \A i \in Slot : i # s => f'.caches[i] = g.caches[i]
        /\ ChunkSize(end) = 0 =>
              /\ f'.currentCache = g.currentCache
              /\ f'.caches[s].start = g.caches[s].start
              /\ f'.caches[s].offset = g.caches[s].offset
              /\ f'.caches[s].bufsize = g.caches[s].bufsize
        /\ ChunkSize(end) # 0 =>
              /\ f'.currentCache = s
              /\ f'.caches[s] = [state |-> "ACTIVE", start |-> ChunkStart(end),
                                pos |-> end, offset |-> 0,
                                bufsize |-> ChunkSize(end), lifetime |-> 0]
    BY <1>1, <1>11, <1>14, <2>1, BuildFacts DEF s
  <2>5. /\ ChunkStart(end) = end /\ ChunkSize(end) \in Nat
        /\ ChunkSize(end) = 0 => input.bytes <= end
    BY <1>1, <1>2, <1>11, ChunkFacts
  <2>6. CASE ChunkSize(end) = 0
    <3>1. end = input.bytes
      BY <1>2, <1>11, <2>5, <2>6
    <3>2. k = f.currentCache /\ c = d
      <4>1. ~(c.offset = c.bufsize /\ d.offset = 0 /\ d.pos = c.pos + c.bufsize)
        <5> SUFFICES ASSUME c.offset = c.bufsize, d.pos = c.pos + c.bufsize PROVE FALSE
          OBVIOUS
        <5>1. n = 0
          BY <1>6, <1>9, <1>21
        <5>2. end = d.pos
          BY <1>6, <5>1 DEF end
        <5> QED BY <1>2, <1>4, <1>6, <3>1, <5>2
      <4>2. k = f.currentCache
        BY <1>3, <4>1
      <4> QED BY <1>4, <4>2 DEF c
    <3>3. call' = NoCall /\ got' = buf
      BY <1>15, <1>21, <2>6
    <3>4. /\ getCurrentCache(f)'.offset = c.offset + n
          /\ getCurrentCache(f)'.start = c.start
          /\ getCurrentCache(f)'.bufsize = c.bufsize
          /\ f'.currentCache # NoCache
      BY <1>2, <1>4, <1>14, <2>4, <2>6, <3>2 DEF getCurrentCache, c
    <3>5. At(f)' = end
      <4>1. At(f)' = c.start + (c.offset + n)
        BY <3>4 DEF At
      <4>2. end = c.start + (c.offset + n)
        BY <1>12
      <4> QED BY <4>1, <4>2
    <3>6. CurrentAlive(f)'
      BY <1>6, <1>21, <3>4 DEF CurrentAlive, Exhausted
    <3>7. L + n = Lesser(call.sz, input.bytes - P)
      <4>1. /\ P \in Nat /\ input.bytes \in Nat /\ call.sz \in Nat
            /\ L \in Nat /\ n \in Nat
        BY <1>2, <1>3, <1>9
      <4>2. L + n <= call.sz /\ P + (L + n) = input.bytes
        BY <1>3, <1>9, <1>11, <3>1, <4>1
      <4> QED BY <4>1, <4>2 DEF Lesser
    <3> QED BY <1>1, <1>2, <1>3, <1>11, <1>16, <1>19, <2>3, <3>3, <3>5, <3>6, <3>7 DEF P
  <2>7. CASE ChunkSize(end) # 0
    <3>1. /\ f'.currentCache = s /\ s # NoCache
          /\ getCurrentCache(f)' = [state |-> "ACTIVE", start |-> end,
                                pos |-> end, offset |-> 0,
                                bufsize |-> ChunkSize(end), lifetime |-> 0]
      BY <2>4, <2>5, <2>7, CacheAssumption DEF getCurrentCache, Slot, NoCache
    <3>2. CurrentAlive(f)'
      BY <3>1 DEF CurrentAlive
    <3>3. At(f)' = end
      BY <1>11, <3>1 DEF At
    <3>4. CASE Len(buf) = call.sz
      <4>1. call' = NoCall /\ got' = buf
        BY <1>15, <3>4
      <4>2. L + n = Lesser(call.sz, input.bytes - P)
        <5>1. /\ P \in Nat /\ input.bytes \in Nat /\ call.sz \in Nat
              /\ L + n = call.sz /\ P + (L + n) <= input.bytes
          BY <1>2, <1>3, <1>11, <1>13, <3>4
        <5> QED BY <5>1 DEF Lesser
      <4> QED BY <1>1, <1>2, <1>3, <1>11, <1>16, <1>19, <2>3, <3>2, <3>3, <4>1, <4>2 DEF P
    <3>5. CASE Len(buf) # call.sz
      <4>1. call' = [call EXCEPT !.buf = buf] /\ got' = got
        BY <1>15, <2>7, <3>5
      <4>2. call' \in [op : {"none", "read", "crashed", "closed"}, sz : Nat,
                       cache : Slot, buf : Seq(Nat)]
        BY <1>1, <1>13, <4>1
      <4>3. call'.op = "read" /\ call'.sz = call.sz /\ call'.cache = k /\ call'.buf = buf
        BY <1>1, <4>1 DEF k
      <4>4. Consumed' = P
        <5>1. Consumed' = end + 0 - Len(buf)
          BY <3>1, <4>3 DEF Consumed
        <5> QED BY <1>2, <1>3, <1>9, <1>11, <1>13, <5>1
      <4>5. Reading'
        <5>1. /\ f'.caches[k].bufsize > 0
              /\ \/ k = f'.currentCache /\ f'.caches[k].offset < f'.caches[k].bufsize
                 \/ /\ f'.caches[k].offset = f'.caches[k].bufsize
                    /\ end = f'.caches[k].pos + f'.caches[k].bufsize
          <6>1. CASE k = s
            BY <2>4, <2>5, <2>7, <6>1
          <6>2. CASE k # s
            <7>1. f'.caches[k] = g.caches[k]
              BY <1>2, <2>4, <6>2
            <7>2. /\ f'.caches[k].bufsize = c.bufsize /\ f'.caches[k].pos = c.pos
                  /\ f'.caches[k].offset = c.bufsize
              BY <1>2, <1>14, <1>21, <7>1 DEF c
            <7>3. end = c.pos + c.bufsize
              BY <1>6, <1>9, <1>21 DEF end
            <7> QED BY <1>3, <7>2, <7>3
          <6> QED BY <6>1, <6>2
        <5>2. /\ Len(call'.buf) < call'.sz
              /\ Consumed' \in Nat /\ call'.buf = Bytes(Consumed', Len(call'.buf))
          BY <1>2, <1>3, <1>9, <1>13, <3>5, <4>3, <4>4
        <5> QED BY <1>2, <1>16, <3>1, <4>3, <5>1, <5>2 DEF Reading
      <4>6. ReaderInv'
        BY <1>1, <1>2, <1>16, <2>3, <3>2, <4>1, <4>2, <4>3, <4>5 DEF ReaderInv
      <4> QED BY <1>1, <1>2, <1>3, <1>11, <1>16, <4>1, <4>3, <4>4, <4>6 DEF P
    <3> QED BY <3>4, <3>5
  <2> QED BY <2>6, <2>7
<1> QED BY <1>20, <1>21
\* io61_seek leaves a current cache that begins at or before the position, and
\* is in use when it has the byte there.
LEMMA SoughtFacts ==
    ASSUME Caches(f), input \in InputType, input.kind = "file", NEW pos \in Nat,
           Sought(pos).currentCache # NoCache
    PROVE  LET c == getCurrentCache(Sought(pos)) IN
           /\ Caches(Sought(pos))
           /\ Sought(pos).currentCache \in Slot
           /\ c \in CacheType /\ c = Sought(pos).caches[Sought(pos).currentCache]
           /\ c.start = c.pos /\ c.pos <= pos
           /\ pos < c.pos + c.bufsize => c.state = "ACTIVE"
<1> DEFINE m == Prepared(pos)  g == getCacheForPos(m, pos)  S == Sought(pos)
           c == getCurrentCache(S)
<1>1. pos - 1 \in Int /\ PageBefore(pos) \in Nat /\ pos \in Int
  BY PageAssumption DEF PageBefore, Greater
<1>2. Caches(m)
  <2>1. CASE ~StepsBack(pos)
    BY <2>1 DEF Prepared
  <2>2. CASE StepsBack(pos)
    <3>1. Caches(getCacheForPos(f, pos - 1))
      BY <1>1, GetFacts
    <3>2. Caches(buildCacheForPos(getCacheForPos(f, pos - 1), PageBefore(pos)))
      BY <1>1, <3>1, BuildKeepsCaches
    <3> QED BY <2>2, <3>1, <3>2 DEF Prepared
  <2> QED BY <2>1, <2>2
<1>3. /\ Caches(g)
      /\ Covering(m, pos) # {} => Covers(getCurrentCache(g), pos)
  <2> HIDE DEF m
  <2> QED BY <1>1, <1>2, GetFacts
<1>4. S = IF Covering(m, pos) = {} THEN buildCacheForPos(g, pos) ELSE g
  BY DEF Sought
<1> HIDE DEF m, g
<1>5. Caches(S)
  BY <1>3, <1>4, BuildKeepsCaches
<1> HIDE DEF S
<1>6. S.currentCache # NoCache
  BY DEF S
<1>7. /\ S.currentCache \in Slot /\ c \in CacheType
      /\ c = S.caches[S.currentCache]
      /\ c.bufsize > 0 /\ c.start = c.pos
      /\ c.start + c.bufsize <= input.bytes
  <2>1. input.taken \in Nat /\ input.kind # "pipe"
    BY DEF InputType
  <2> QED BY <1>5, <1>6, <2>1, CurrentFacts
<1>8. c.pos \in Nat /\ c.bufsize \in Nat /\ input.bytes \in Nat
  BY <1>7 DEF CacheType, InputType
<1>9. c.pos <= pos /\ (pos < c.pos + c.bufsize => c.state = "ACTIVE")
  <2>1. CASE Covering(m, pos) # {}
    <3>1. Covers(c, pos)
      BY <1>3, <1>4, <2>1
    <3> QED BY <3>1 DEF Covers
  <2>2. CASE Covering(m, pos) = {}
    <3>1. g \in FileType /\ S = buildCacheForPos(g, pos)
      BY <1>3, <1>4, <2>2 DEF Caches
    <3> DEFINE s == freeCache(g.caches)
    <3>2. /\ s \in Slot
          /\ ChunkSize(pos) # 0 =>
                 /\ S.currentCache = s
                 /\ S.caches[s] = [state |-> "ACTIVE", start |-> ChunkStart(pos),
                                   pos |-> pos, offset |-> 0,
                                   bufsize |-> ChunkSize(pos), lifetime |-> 0]
      BY <3>1, BuildFacts
    <3> HIDE DEF s
    <3>3. CASE ChunkSize(pos) # 0
      <4>1. c.pos = pos /\ c.state = "ACTIVE"
        BY <1>7, <3>2, <3>3
      <4> QED BY <4>1
    <3>4. CASE ChunkSize(pos) = 0
      <4>1. input.bytes <= pos
        BY <3>4, ChunkFacts
      <4> QED BY <1>7, <1>8, <4>1
    <3> QED BY <3>3, <3>4
  <2> QED BY <2>1, <2>2
<1> QED BY <1>5, <1>7, <1>9 DEF S

\* io61_seek on a file.
LEMMA SeekStep ==
    ASSUME ReaderInv, NEW pos \in Nat, Seek(pos)
    PROVE  /\ ReaderInv'
           /\ input' = input /\ call' = call /\ call.op = "none"
           /\ got' = <<>> /\ At(f)' = pos
<1> DEFINE S == Sought(pos)  k == S.currentCache  c == getCurrentCache(S)
           n == pos - c.pos
<1>1. /\ Caches(f) /\ input \in InputType
      /\ call \in [op : {"none", "read", "crashed", "closed"}, sz : Nat,
                    cache : Slot, buf : Seq(Nat)]
      /\ call.op # "read" => call.buf = <<>>
      /\ input.kind = "file" => input.ended
  BY DEF ReaderInv
<1>2. /\ call.op = "none" /\ input.kind = "file" /\ k # NoCache
      /\ f' = [S EXCEPT !.caches[k].offset = n]
      /\ got' = <<>> /\ call' = call /\ input' = input
  BY DEF Seek
<1>3. pos \in Nat
  OBVIOUS
<1>4. /\ Caches(S) /\ k \in Slot
      /\ c \in CacheType /\ c = S.caches[k]
      /\ c.start = c.pos /\ c.pos <= pos
      /\ pos < c.pos + c.bufsize => c.state = "ACTIVE"
  BY <1>1, <1>2, <1>3, SoughtFacts
<1>5. c.pos \in Nat /\ c.start \in Nat /\ c.bufsize \in Nat /\ n \in Nat /\ c.pos + n = pos
  <2>1. c.pos \in Nat /\ c.start \in Nat /\ c.bufsize \in Nat
    BY <1>4 DEF CacheType
  <2> HIDE DEF c
  <2> QED BY <1>3, <1>4, <2>1
<1>6. f' = WithOffset(S, k, n)
  BY <1>2 DEF WithOffset
<1>7. S \in FileType
  BY <1>4 DEF Caches
<1> HIDE DEF S, n
<1>8. /\ f' \in FileType /\ f'.currentCache = k /\ f'.caches[k].offset = n
      /\ \A i \in Slot : /\ f'.caches[i].state = S.caches[i].state
                         /\ f'.caches[i].start = S.caches[i].start
                         /\ f'.caches[i].pos = S.caches[i].pos
                         /\ f'.caches[i].bufsize = S.caches[i].bufsize
  <2>1. k \in Slot /\ n \in Nat
    BY <1>4, <1>5
  <2> HIDE DEF k
  <2>2. WithOffset(S, k, n).currentCache = S.currentCache
    BY <1>7, <2>1, OffsetFacts
  <2>3. f'.currentCache = k
    BY <1>6, <2>2 DEF k
  <2> QED BY <1>6, <1>7, <2>1, <2>3, OffsetFacts
<1>9. Caches(f)'
  BY <1>2, <1>4, <1>8, CachesStep
<1>10. /\ getCurrentCache(f)'.state = c.state /\ getCurrentCache(f)'.start = c.start
       /\ getCurrentCache(f)'.bufsize = c.bufsize /\ getCurrentCache(f)'.offset = n
       /\ f'.currentCache # NoCache
  BY <1>2, <1>4, <1>8 DEF getCurrentCache
<1> HIDE DEF c, k
<1>11. At(f)' = pos
  BY <1>4, <1>5, <1>10 DEF At
<1>12. CurrentAlive(f)'
  <2> SUFFICES ASSUME ~Exhausted(f)' PROVE getCurrentCache(f)'.state = "ACTIVE"
    BY DEF CurrentAlive
  <2>1. ~(n >= c.bufsize)
    BY <1>10 DEF Exhausted
  <2>2. pos < c.pos + c.bufsize
    BY <1>5, <2>1
  <2> QED BY <1>4, <1>10, <2>2
<1>13. ReaderInv'
  <2>1. got' \in Seq(Nat)
    BY <1>2
  <2>2. input.kind # "pipe"
    BY <1>2
  <2> QED BY <1>1, <1>2, <1>9, <1>12, <2>1, <2>2 DEF ReaderInv
<1> QED BY <1>2, <1>11, <1>13

LEMMA SeekCrashesStep ==
    ASSUME ReaderInv, NEW pos \in Nat, SeekCrashes(pos)
    PROVE  /\ ReaderInv'
           /\ input' = input /\ got' = got /\ At(f)' = At(f)
           /\ call.op = "none" /\ call'.op = "crashed" /\ call'.buf = <<>>
<1>1. /\ call.op = "none" /\ f' = f /\ got' = got /\ input' = input
      /\ input.kind = "file"
      /\ call' = [NoCall EXCEPT !.op = "crashed"]
  BY DEF SeekCrashes
<1>2. /\ call'.op = "crashed" /\ call'.buf = <<>>
      /\ call' \in [op : {"none", "read", "crashed", "closed"}, sz : Nat,
                    cache : Slot, buf : Seq(Nat)]
  <2>1. call' = [op |-> "crashed", sz |-> 0, cache |-> 0, buf |-> <<>>]
    BY <1>1 DEF NoCall
  <2>2. 0 \in Slot
    BY CacheAssumption DEF Slot
  <2> QED BY <2>1, <2>2
<1>3. Caches(f)'
  <2>1. Caches(f) /\ f \in FileType
    BY DEF ReaderInv, Caches
  <2> QED BY <1>1, <2>1, CachesStep
<1>4. ReaderInv'
  BY <1>1, <1>2, <1>3 DEF ReaderInv
<1>5. At(f)' = At(f)
  BY <1>1 DEF At, getCurrentCache
<1> QED BY <1>1, <1>2, <1>4, <1>5

LEMMA CloseReaderStep ==
    ASSUME ReaderInv, CloseReader
    PROVE  /\ ReaderInv'
           /\ input' = input /\ got' = got /\ At(f)' = At(f)
           /\ call.op = "none" /\ call'.op = "closed" /\ call'.buf = <<>>
<1>1. /\ call.op = "none" /\ got' = got /\ input' = input
      /\ f' = [f EXCEPT !.caches = [i \in Slot |-> [f.caches[i] EXCEPT !.state = "EMPTY"]]]
      /\ call' = [NoCall EXCEPT !.op = "closed"]
  BY DEF CloseReader
<1>2. /\ call'.op = "closed" /\ call'.buf = <<>>
      /\ call' \in [op : {"none", "read", "crashed", "closed"}, sz : Nat,
                    cache : Slot, buf : Seq(Nat)]
  <2>1. call' = [op |-> "closed", sz |-> 0, cache |-> 0, buf |-> <<>>]
    BY <1>1 DEF NoCall
  <2>2. 0 \in Slot
    BY CacheAssumption DEF Slot
  <2> QED BY <2>1, <2>2
<1>3. Caches(f) /\ f \in FileType /\ f.caches \in [Slot -> CacheType]
  BY DEF ReaderInv, Caches, FileType
<1> DEFINE Emptied(i) == [f.caches[i] EXCEPT !.state = "EMPTY"]
<1>4. /\ f'.caches = [i \in Slot |-> Emptied(i)]
      /\ f'.currentCache = f.currentCache
      /\ f' = [caches |-> f'.caches, currentCache |-> f'.currentCache]
  BY <1>1, <1>3 DEF FileType
<1>5. ASSUME NEW i \in Slot
      PROVE  /\ f'.caches[i] \in CacheType
             /\ f'.caches[i].state = "EMPTY"
             /\ f'.caches[i].start = f.caches[i].start
             /\ f'.caches[i].pos = f.caches[i].pos
             /\ f'.caches[i].offset = f.caches[i].offset
             /\ f'.caches[i].bufsize = f.caches[i].bufsize
  <2>1. f.caches[i] \in CacheType /\ f'.caches[i] = Emptied(i)
    BY <1>3, <1>4
  <2> QED BY <2>1 DEF CacheType
<1> HIDE DEF Emptied
<1>6. f' \in FileType
  <2>1. f'.caches \in [Slot -> CacheType]
    BY <1>4, <1>5
  <2> QED BY <1>3, <1>4, <2>1 DEF FileType
<1>7. Caches(f)'
  BY <1>1, <1>3, <1>4, <1>5, <1>6, CachesStep
<1>8. /\ f.currentCache # NoCache =>
            /\ getCurrentCache(f)'.start = getCurrentCache(f).start
            /\ getCurrentCache(f)'.pos = getCurrentCache(f).pos
            /\ getCurrentCache(f)'.offset = getCurrentCache(f).offset
            /\ getCurrentCache(f)'.bufsize = getCurrentCache(f).bufsize
  BY <1>3, <1>4, <1>5 DEF getCurrentCache, FileType
<1>9. At(f)' = At(f)
  BY <1>4, <1>8 DEF At
<1>10. input.kind = "pipe" => InOrder(f, input.taken)'
  BY <1>1, <1>4, <1>8 DEF InOrder, ReaderInv
<1>11. ReaderInv'
  BY <1>1, <1>2, <1>7, <1>10 DEF ReaderInv
<1> QED BY <1>1, <1>2, <1>9, <1>11

\* The other end of a pipe sends n bytes, or nothing more.
LEMMA PipeStep ==
    ASSUME ReaderInv,
           (\E n \in Nat : Feed(n)) \/ HangUp
    PROVE  /\ ReaderInv'
           /\ call' = call /\ got' = got /\ At(f)' = At(f)
<1>1. /\ input.kind = "pipe" /\ f' = f /\ call' = call /\ got' = got
      /\ input \in InputType /\ Caches(f) /\ f \in FileType /\ InOrder(f, input.taken)
  BY DEF Feed, HangUp, ReaderInv, Caches
<1>2. input.bytes \in Nat /\ input.taken \in Nat
  BY <1>1 DEF InputType
<1>3. /\ input' \in InputType /\ input'.kind = "pipe" /\ input'.taken = input.taken
      /\ input.bytes <= input'.bytes
  <2>1. ASSUME NEW n \in Nat, Feed(n)
        PROVE  /\ input' \in InputType /\ input'.kind = "pipe"
               /\ input'.taken = input.taken /\ input.bytes <= input'.bytes
    <3>1. input.bytes + n \in Nat /\ input.bytes <= input.bytes + n
      BY <1>2
    <3>2. input' = [input EXCEPT !.bytes = @ + n]
      BY <2>1 DEF Feed
    <3>3. input' \in InputType
      BY <1>1, <3>1, <3>2, Zenon DEF InputType
    <3> QED BY <1>1, <3>1, <3>2, <3>3 DEF InputType
  <2>2. CASE HangUp
    <3>1. input' = [input EXCEPT !.ended = TRUE]
      BY <2>2 DEF HangUp
    <3>2. input' \in InputType
      BY <1>1, <3>1, Zenon DEF InputType
    <3> QED BY <1>1, <1>2, <3>1, <3>2 DEF InputType
  <2> QED BY <2>1, <2>2
<1>4. Caches(f)'
  BY <1>1, <1>3, CachesStep
<1>5. InOrder(f, input.taken)'
  <2>1. input'.bytes \in Nat /\ input.taken <= input'.bytes
    BY <1>1, <1>2, <1>3 DEF InputType, InOrder
  <2> QED BY <1>1, <1>3, <2>1 DEF InOrder, getCurrentCache
<1>6. CurrentAlive(f)' <=> CurrentAlive(f)
  BY <1>1 DEF CurrentAlive, Exhausted, getCurrentCache
<1>7. call.op # "read"
  BY <1>1 DEF ReaderInv, Reading
<1>8. ReaderInv'
  BY <1>1, <1>3, <1>4, <1>5, <1>6, <1>7 DEF ReaderInv
<1>9. At(f)' = At(f)
  BY <1>1 DEF At, getCurrentCache
<1> QED BY <1>1, <1>8, <1>9
-----------------------------------------------------------------------------
(* The writer                                                                  *)

LEMMA OverlayFacts ==
    ASSUME NEW c \in Seq(Int), NEW p \in Nat, NEW d \in Seq(Int)
    PROVE  /\ Overlay(c, p, d) \in Seq(Int)
           /\ d # <<>> =>
                 /\ Len(Overlay(c, p, d)) = Greater(Len(c), p + Len(d))
                 /\ \A i \in 1..Greater(Len(c), p + Len(d)) :
                       Overlay(c, p, d)[i] =
                          IF p < i /\ i <= p + Len(d) THEN d[i - p]
                          ELSE IF i <= Len(c) THEN c[i] ELSE Hole
<1> DEFINE n == Greater(Len(c), p + Len(d))
<1>1. n \in Nat
  BY DEF Greater
<1>2. CASE d = <<>>
  BY <1>2 DEF Overlay
<1>3. CASE d # <<>>
  <2> DEFINE e(i) == IF p < i /\ i <= p + Len(d) THEN d[i - p]
                     ELSE IF i <= Len(c) THEN c[i] ELSE Hole
  <2>1. ASSUME NEW i \in 1..n PROVE e(i) \in Int
    <3>1. CASE p < i /\ i <= p + Len(d)
      <4>1. i - p \in 1..Len(d)
        BY <1>1, <3>1
      <4> QED BY <3>1, <4>1
    <3>2. CASE ~(p < i /\ i <= p + Len(d)) /\ i <= Len(c)
      <4>1. i \in 1..Len(c)
        BY <1>1, <3>2
      <4> QED BY <3>2, <4>1
    <3>3. CASE ~(p < i /\ i <= p + Len(d)) /\ ~(i <= Len(c))
      BY <3>3 DEF Hole
    <3> QED BY <3>1, <3>2, <3>3
  <2>2. Overlay(c, p, d) = [i \in 1..n |-> e(i)]
    BY <1>3 DEF Overlay
  <2> HIDE DEF e, n
  <2>3. Overlay(c, p, d) \in [1..n -> Int]
    BY <2>1, <2>2
  <2>4. Overlay(c, p, d) \in Seq(Int) /\ Len(Overlay(c, p, d)) = n
    BY <1>1, <2>3
  <2> QED BY <2>2, <2>4 DEF e, n
<1> QED BY <1>2, <1>3

\* Two writes one after the other are one of both.
LEMMA OverlayTwice ==
    ASSUME NEW c \in Seq(Int), NEW p \in Nat, NEW a \in Seq(Int), NEW b \in Seq(Int)
    PROVE  Overlay(Overlay(c, p, a), p + Len(a), b) = Overlay(c, p, a \o b)
<1> DEFINE o == Overlay(c, p, a)  q == p + Len(a)
<1>1. CASE a = <<>>
  <2>1. o = c /\ q = p /\ a \o b = b
    BY <1>1 DEF Overlay
  <2> QED BY <2>1
<1>2. CASE b = <<>>
  <2>1. a \o b = a
    BY <1>2
  <2> QED BY <1>2, <2>1 DEF Overlay
<1>3. CASE a # <<>> /\ b # <<>>
  <2> DEFINE l == Len(a)  m == Len(b)  k == Len(c)
             x == Overlay(o, q, b)  y == Overlay(c, p, a \o b)
             n == Greater(k, p + l)  r == Greater(k, p + l + m)
  <2>1. l \in Nat /\ m \in Nat /\ k \in Nat /\ l > 0 /\ m > 0
    BY <1>3
  <2>2. n \in Nat /\ r \in Nat /\ Greater(n, q + m) = r /\ q \in Nat
    BY <2>1 DEF Greater
  <2>3. /\ a \o b \in Seq(Int) /\ Len(a \o b) = l + m /\ a \o b # <<>>
        /\ \A i \in 1..(l + m) : (a \o b)[i] = IF i <= l THEN a[i] ELSE b[i - l]
    BY <1>3, <2>1, ConcatProperties
  <2>4. /\ o \in Seq(Int) /\ Len(o) = n
        /\ \A i \in 1..n : o[i] = IF p < i /\ i <= p + l THEN a[i - p]
                                  ELSE IF i <= k THEN c[i] ELSE Hole
    BY <1>3, OverlayFacts
  <2> HIDE DEF o, n
  <2>5. /\ x \in Seq(Int) /\ Len(x) = r
        /\ \A i \in 1..r : x[i] = IF q < i /\ i <= q + m THEN b[i - q]
                                  ELSE IF i <= n THEN o[i] ELSE Hole
    <3>1. /\ x \in Seq(Int) /\ Len(x) = Greater(Len(o), q + Len(b))
          /\ \A i \in 1..Greater(Len(o), q + Len(b)) :
                x[i] = IF q < i /\ i <= q + Len(b) THEN b[i - q]
                       ELSE IF i <= Len(o) THEN o[i] ELSE Hole
      <4>1. o \in Seq(Int) /\ q \in Nat /\ b \in Seq(Int) /\ b # <<>>
        BY <1>3, <2>2, <2>4
      <4> HIDE DEF q
      <4> QED BY <4>1, OverlayFacts, Zenon
    <3>2. Len(o) = n /\ Greater(Len(o), q + Len(b)) = r
      BY <2>2, <2>4
    <3> HIDE DEF x, q
    <3> QED BY <3>1, <3>2
  <2>6. /\ y \in Seq(Int) /\ Len(y) = r
        /\ \A i \in 1..r : y[i] = IF p < i /\ i <= p + (l + m) THEN (a \o b)[i - p]
                                  ELSE IF i <= k THEN c[i] ELSE Hole
    <3> DEFINE ab == a \o b
    <3>1. ab \in Seq(Int) /\ Len(ab) = l + m /\ ab # <<>>
      BY <2>3
    <3>2. /\ y \in Seq(Int) /\ Len(y) = Greater(Len(c), p + Len(ab))
          /\ \A i \in 1..Greater(Len(c), p + Len(ab)) :
                y[i] = IF p < i /\ i <= p + Len(ab) THEN ab[i - p]
                       ELSE IF i <= Len(c) THEN c[i] ELSE Hole
      <4> HIDE DEF ab
      <4> QED BY <3>1, OverlayFacts, Zenon DEF ab
    <3>3. Greater(Len(c), p + Len(ab)) = r
      <4>1. p + (l + m) = p + l + m
        BY <2>1
      <4> QED BY <3>1, <4>1
    <3> HIDE DEF y, ab
    <3>4. \A i \in 1..r : y[i] = IF p < i /\ i <= p + (l + m) THEN ab[i - p]
                                 ELSE IF i <= k THEN c[i] ELSE Hole
      BY <3>1, <3>2, <3>3
    <3> QED BY <3>2, <3>3, <3>4 DEF ab
  <2>7. ASSUME NEW i \in 1..r PROVE x[i] = y[i]
    <3>1. CASE i <= p
      <4>1. i \in 1..r /\ ~(q < i) /\ ~(p < i) /\ (i <= k => i <= n) /\ (i <= n => i \in 1..n)
        BY <2>1, <2>2, <3>1 DEF n, Greater
      <4> QED BY <2>4, <2>5, <2>6, <4>1
    <3>2. CASE p < i /\ i <= q
      <4>1. /\ ~(q < i) /\ i \in 1..n /\ i <= n /\ i <= p + l /\ i <= p + (l + m)
            /\ i - p \in 1..(l + m) /\ i - p <= l
        BY <2>1, <2>2, <3>2 DEF n, Greater
      <4>2. x[i] = a[i - p]
        BY <2>4, <2>5, <3>2, <4>1
      <4>3. y[i] = a[i - p]
        BY <2>3, <2>6, <3>2, <4>1
      <4> QED BY <4>2, <4>3
    <3>3. CASE q < i /\ i <= q + m
      <4>1. /\ p < i /\ i <= p + (l + m) /\ i - p \in 1..(l + m) /\ ~(i - p <= l)
            /\ (i - p) - l = i - q
        BY <2>1, <2>2, <3>3
      <4> QED BY <2>3, <2>5, <2>6, <3>3, <4>1
    <3>4. CASE q + m < i
      <4>1. /\ ~(i <= q + m) /\ ~(i <= p + (l + m)) /\ ~(i <= p + l)
            /\ (i <= n <=> i <= k) /\ (i <= n => i \in 1..n)
        BY <2>1, <2>2, <3>4 DEF n, Greater
      <4> QED BY <2>4, <2>5, <2>6, <4>1
    <3> QED BY <2>1, <2>2, <3>1, <3>2, <3>3, <3>4
  <2> HIDE DEF x, y
  <2>8. x = y
    BY <2>5, <2>6, <2>7, SeqEqual
  <2> QED BY <2>8 DEF x, y, o
<1> QED BY <1>1, <1>2, <1>3
\* The file as it is once the buffer has been written.
Content  == Overlay(out.content, out.pos, w.buf)
Position == out.pos + Len(w.buf)

\* The bytes d were added to the buffer b: x was written of it and y kept.
Pushed(b, d, x, y) ==
    /\ b \in Seq(Int) /\ d \in Seq(Int) /\ x \in Seq(Int) /\ y \in Seq(Int)
    /\ x \o y = b \o d

SameFile(b, d, x, y) ==
    \A c \in Seq(Int), p \in Nat :
        /\ Overlay(c, p, x) \in Seq(Int) /\ p + Len(x) \in Nat
        /\ Overlay(Overlay(c, p, x), p + Len(x), y)
              = Overlay(Overlay(c, p, b), p + Len(b), d)
        /\ p + Len(x) + Len(y) = p + Len(b) + Len(d)

LEMMA PushedSame ==
    ASSUME NEW b, NEW d, NEW x, NEW y, Pushed(b, d, x, y)
    PROVE  SameFile(b, d, x, y)
<1> SUFFICES ASSUME NEW c \in Seq(Int), NEW p \in Nat
    PROVE  /\ Overlay(c, p, x) \in Seq(Int) /\ p + Len(x) \in Nat
           /\ Overlay(Overlay(c, p, x), p + Len(x), y)
                 = Overlay(Overlay(c, p, b), p + Len(b), d)
           /\ p + Len(x) + Len(y) = p + Len(b) + Len(d)
  BY DEF SameFile
<1>1. b \in Seq(Int) /\ d \in Seq(Int) /\ x \in Seq(Int) /\ y \in Seq(Int)
  BY DEF Pushed
<1>2. x \o y = b \o d
  BY DEF Pushed
<1>3. Overlay(c, p, x) \in Seq(Int)
  BY <1>1, OverlayFacts
<1>4. Overlay(Overlay(c, p, x), p + Len(x), y) = Overlay(c, p, x \o y)
  BY <1>1, OverlayTwice
<1>5. Overlay(Overlay(c, p, b), p + Len(b), d) = Overlay(c, p, b \o d)
  BY <1>1, OverlayTwice
<1>6. Len(x) + Len(y) = Len(b) + Len(d)
  BY <1>1, <1>2, ConcatProperties
<1> DEFINE lx == Len(x)  ly == Len(y)  lb == Len(b)  ld == Len(d)
<1>7. lx \in Nat /\ ly \in Nat /\ lb \in Nat /\ ld \in Nat /\ lx + ly = lb + ld
  BY <1>1, <1>6
<1>8. p + lx \in Nat /\ p + lx + ly = p + lb + ld
  <2> HIDE DEF lx, ly, lb, ld
  <2> QED BY <1>7
<1> QED BY <1>2, <1>3, <1>4, <1>5, <1>8

\* What a program puts in comes out in order, however much of it is written
\* now and however much is kept.
LEMMA PushStep ==
    ASSUME WriterInv, NEW d, NEW x, Pushed(w.buf, d, x, w'.buf), out' = Put(out, x),
           w' \in [open : BOOLEAN, bufsize : Nat, buf : Seq(Int)]
    PROVE  /\ WriterInv'
           /\ Content' = Overlay(Content, Position, d)
           /\ Position' = Position + Len(d)
<1>1. out.content \in Seq(Int) /\ out.pos \in Nat
  BY DEF WriterInv
<1>2. /\ Overlay(out.content, out.pos, x) \in Seq(Int) /\ out.pos + Len(x) \in Nat
      /\ Overlay(Overlay(out.content, out.pos, x), out.pos + Len(x), w'.buf)
            = Overlay(Overlay(out.content, out.pos, w.buf), out.pos + Len(w.buf), d)
      /\ out.pos + Len(x) + Len(w'.buf) = out.pos + Len(w.buf) + Len(d)
  <2>1. SameFile(w.buf, d, x, w'.buf)
    BY PushedSame
  <2> QED BY <1>1, <2>1, Zenon DEF SameFile
<1>3. out' = [content |-> Overlay(out.content, out.pos, x), pos |-> out.pos + Len(x)]
  BY DEF Put
<1>4. WriterInv'
  BY <1>2, <1>3 DEF WriterInv
<1>5. /\ Content' = Overlay(Overlay(out.content, out.pos, x), out.pos + Len(x), w'.buf)
      /\ Position' = out.pos + Len(x) + Len(w'.buf)
  BY <1>3 DEF Content, Position
<1> QED BY <1>2, <1>4, <1>5 DEF Content, Position

\* io61_writec
LEMMA WritecStep ==
    ASSUME WriterInv, NEW ch \in Int, Writec(ch)
    PROVE  /\ WriterInv'
           /\ w.open /\ w'.open = w.open
           /\ Content' = Overlay(Content, Position, <<ch>>)
           /\ Position' = Position + Len(<<ch>>)
<1> DEFINE size == BufferSize(PAGESIZE)  full == Len(w.buf) = size
           x == IF full THEN w.buf ELSE <<>>
           y == IF full THEN <<ch>> ELSE Append(w.buf, ch)
<1>1. /\ w \in [open : BOOLEAN, bufsize : Nat, buf : Seq(Int)]
      /\ out \in [content : Seq(Int), pos : Nat]
  BY DEF WriterInv
<1>2. size \in Nat
  BY <1>1, PageAssumption DEF BufferSize
<1>3. /\ w.open
      /\ w' = [w EXCEPT !.bufsize = size, !.buf = y]
      /\ out' = IF full THEN Put(out, w.buf) ELSE out
  BY DEF Writec
<1>4. x \in Seq(Int) /\ y \in Seq(Int) /\ x \o y = w.buf \o <<ch>>
  <2>1. w.buf \in Seq(Int) /\ <<ch>> \in Seq(Int)
    BY <1>1
  <2>2. Append(w.buf, ch) \in Seq(Int) /\ Append(w.buf, ch) = w.buf \o <<ch>>
    BY <2>1, AppendProperties, AppendIsConcat
  <2>3. <<>> \o Append(w.buf, ch) = Append(w.buf, ch)
    BY <2>2, ConcatEmptySeq
  <2>4. CASE full
    BY <2>1, <2>4
  <2>5. CASE ~full
    BY <2>2, <2>3, <2>5
  <2> QED BY <2>4, <2>5
<1>5. out' = Put(out, x)
  <2>1. CASE full
    BY <1>3, <2>1
  <2>2. CASE ~full
    <3>1. Put(out, <<>>) = [content |-> out.content, pos |-> out.pos]
      BY <1>1 DEF Put, Overlay
    <3> QED BY <1>1, <1>3, <2>2, <3>1
  <2> QED BY <2>1, <2>2
<1> HIDE DEF size, x, y
<1>6. /\ w' \in [open : BOOLEAN, bufsize : Nat, buf : Seq(Int)]
      /\ w'.buf = y /\ w'.open = w.open
  BY <1>1, <1>2, <1>3, <1>4
<1>7. <<ch>> \in Seq(Int)
  OBVIOUS
<1>8. Pushed(w.buf, <<ch>>, x, w'.buf)
  BY <1>1, <1>4, <1>6, <1>7 DEF Pushed
<1> QED BY <1>3, <1>5, <1>6, <1>8, PushStep

\* A number of whole caches that fit in n bytes.
LEMMA WholeCaches ==
    ASSUME NEW n \in Nat, NEW size \in Nat \ {0}
    PROVE  (n \div size) * size \in 0..n
<1>1. /\ n \div size \in Nat
      /\ (n \div size) * size + (n % size) = n
      /\ n % size \in Nat
  BY SMTT(30)
<1> QED BY <1>1

\* io61_write
LEMMA WriteStep ==
    ASSUME WriterInv, NEW d \in Seq(Int), Write(d)
    PROVE  /\ WriterInv'
           /\ w.open /\ w'.open = w.open
           /\ Content' = Overlay(Content, Position, d)
           /\ Position' = Position + Len(d)
<1> DEFINE size == BufferSize(WRITEPAGES * PAGESIZE)  all == w.buf \o d
           gone == (Len(all) \div size) * size
           x == SubSeq(all, 1, gone)  y == SubSeq(all, gone + 1, Len(all))
<1>1. /\ w \in [open : BOOLEAN, bufsize : Nat, buf : Seq(Int)]
      /\ out \in [content : Seq(Int), pos : Nat]
  BY DEF WriterInv
<1>2. size \in Nat \ {0}
  <2> DEFINE m == WRITEPAGES * PAGESIZE
  <2>1. size = BufferSize(m)
    OBVIOUS
  <2>2. m \in Nat \ {0}
    BY PageAssumption, WriteAssumption
  <2>3. w.bufsize \in Nat
    BY <1>1
  <2> HIDE DEF m, size
  <2> QED BY <2>1, <2>2, <2>3 DEF BufferSize
<1>3. /\ w.open
      /\ w' = [w EXCEPT !.bufsize = size, !.buf = y]
      /\ out' = Put(out, x)
  BY DEF Write
<1>4. all \in Seq(Int) /\ Len(all) \in Nat
  BY <1>1, ConcatProperties
<1> HIDE DEF size, all
<1>5. gone \in 0..Len(all)
  BY <1>2, <1>4, WholeCaches
<1> HIDE DEF gone
<1>6. x \o y = all
  <2>1. /\ 1 \in 1..(Len(all) + 1) /\ gone \in (1 - 1)..Len(all)
        /\ Len(all) \in gone..Len(all)
    BY <1>4, <1>5
  <2>2. x \o y = SubSeq(all, 1, Len(all))
    BY <1>4, <2>1, ConcatAdjacentSubSeq
  <2> QED BY <1>4, <2>2, SubSeqFull
<1>7. x \in Seq(Int) /\ y \in Seq(Int)
  <2>1. /\ \A i \in 1..gone : all[i] \in Int
        /\ \A i \in (gone + 1)..Len(all) : all[i] \in Int
        /\ gone \in Int /\ gone + 1 \in Int /\ Len(all) \in Int
    BY <1>4, <1>5
  <2> QED BY <2>1, SubSeqProperties
<1> HIDE DEF x, y
<1>8. /\ w' \in [open : BOOLEAN, bufsize : Nat, buf : Seq(Int)]
      /\ w'.buf = y /\ w'.open = w.open
  BY <1>1, <1>2, <1>3, <1>7
<1>9. x \o y = w.buf \o d
  BY <1>6 DEF all
<1>10. Pushed(w.buf, d, x, w'.buf)
  BY <1>1, <1>7, <1>8, <1>9 DEF Pushed
<1> QED BY <1>3, <1>8, <1>10, PushStep

\* io61_flush, and what io61_seek and io61_close begin with.
LEMMA FlushFacts ==
    ASSUME WriterInv
    PROVE  /\ Put(out, w.buf) = [content |-> Content, pos |-> Position]
           /\ Content \in Seq(Int) /\ Position \in Nat
           /\ \A p : Overlay(Content, p, <<>>) = Content
           /\ Position + Len(<<>>) = Position
<1>1. /\ out.content \in Seq(Int) /\ out.pos \in Nat /\ w.buf \in Seq(Int)
  BY DEF WriterInv
<1>2. Content \in Seq(Int) /\ Position \in Nat
  <2>1. Len(w.buf) \in Nat /\ Position \in Nat
    BY <1>1 DEF Position
  <2> QED BY <1>1, <2>1, OverlayFacts, Zenon DEF Content
<1> QED BY <1>2 DEF Put, Overlay, Content, Position

LEMMA FlushStep ==
    ASSUME WriterInv, NEW q \in Nat, NEW o \in BOOLEAN,
           out' = [Put(out, w.buf) EXCEPT !.pos = q],
           w' = [w EXCEPT !.open = o, !.buf = <<>>]
    PROVE  /\ WriterInv'
           /\ Content' = Content /\ Position' = q /\ w'.open = o
<1>1. out' = [content |-> Content, pos |-> q]
  BY FlushFacts
<1>2. /\ w' \in [open : BOOLEAN, bufsize : Nat, buf : Seq(Int)]
      /\ w'.buf = <<>> /\ w'.open = o
  <2>1. w \in [open : BOOLEAN, bufsize : Nat, buf : Seq(Int)] /\ <<>> \in Seq(Int)
    BY DEF WriterInv
  <2> QED BY <2>1
<1>3. WriterInv'
  <2>1. Content \in Seq(Int)
    BY FlushFacts
  <2>2. out' \in [content : Seq(Int), pos : Nat]
    BY <1>1, <2>1
  <2> QED BY <1>2, <2>2, Zenon DEF WriterInv
<1>4. Content' = Overlay(Content, q, <<>>) /\ Position' = q + Len(<<>>)
  BY <1>1, <1>2 DEF Content, Position
<1> QED BY <1>2, <1>3, <1>4, FlushFacts

LEMMA ConsumedIsAt ==
    ReaderInv /\ call.buf = <<>> => Consumed = At(f) /\ At(f) \in Nat
<1> SUFFICES ASSUME ReaderInv, call.buf = <<>> PROVE Consumed = At(f) /\ At(f) \in Nat
  OBVIOUS
<1>1. /\ Caches(f) /\ input \in InputType /\ input.taken \in Nat
      /\ input.kind = "pipe" => InOrder(f, input.taken)
  BY DEF ReaderInv, InputType
<1>2. /\ At(f) \in Nat
      /\ f.currentCache # NoCache => getCurrentCache(f) \in CacheType
  BY <1>1, CurrentFacts
<1>3. CASE f.currentCache = NoCache
  BY <1>3 DEF Consumed, At
<1>4. CASE f.currentCache # NoCache
  <2> DEFINE c == getCurrentCache(f)
  <2>1. c.start \in Nat /\ c.offset \in Nat /\ Len(call.buf) = 0
    BY <1>2, <1>4 DEF CacheType
  <2>2. Consumed = c.start + c.offset - Len(call.buf) /\ At(f) = c.start + c.offset
    BY <1>4 DEF Consumed, At
  <2> HIDE DEF c
  <2> QED BY <1>2, <2>1, <2>2
<1> QED BY <1>2, <1>3, <1>4

LEMMA ConsumedIsAtNext ==
    (ReaderInv /\ call.buf = <<>> => Consumed = At(f) /\ At(f) \in Nat)'
BY ConsumedIsAt, PTL

-----------------------------------------------------------------------------
(* The calls as a program sees them: by what has been consumed.                *)

LEMMA ReaderStill ==
    ASSUME ReaderInv, UNCHANGED readerVars
    PROVE  ReaderInv' /\ Consumed' = Consumed
<1>1. f' = f /\ call' = call /\ got' = got /\ input' = input
  BY DEF readerVars
<1>2. Caches(f)' <=> Caches(f)
  BY <1>1 DEF Caches, Held, CurrentFilled
<1>3. CurrentAlive(f)' <=> CurrentAlive(f)
  BY <1>1 DEF CurrentAlive, Exhausted, getCurrentCache
<1>4. InOrder(f, input.taken)' <=> InOrder(f, input.taken)
  BY <1>1 DEF InOrder, getCurrentCache
<1>5. Consumed' = Consumed
  BY <1>1 DEF Consumed, getCurrentCache
<1>6. Reading' <=> Reading
  BY <1>1, <1>5 DEF Reading, getCurrentCache
<1> QED BY <1>1, <1>2, <1>3, <1>4, <1>5, <1>6 DEF ReaderInv

LEMMA WriterStill ==
    ASSUME WriterInv, UNCHANGED writerVars
    PROVE  WriterInv' /\ Content' = Content /\ Position' = Position
BY DEF WriterInv, writerVars, Content, Position

LEMMA ReadcReads ==
    ASSUME ReaderInv, Readc
    PROVE  /\ ReaderInv' /\ call.op = "none" /\ call' = call
           /\ input'.bytes = input.bytes /\ input'.ended = input.ended
           /\ \/ /\ got' = <<>> /\ Consumed' = Consumed
                 /\ input.bytes <= Consumed /\ input.ended
              \/ /\ got' = Returned(Consumed) /\ Consumed' = Consumed + 1
                 /\ Consumed < input.bytes
<1>1. call.op = "none" /\ call' = call /\ call.buf = <<>> /\ call'.buf = <<>>
  BY DEF Readc, ReaderInv
<1>2. /\ ReaderInv'
      /\ input'.bytes = input.bytes /\ input'.ended = input.ended
      /\ \/ got' = <<>> /\ At(f)' = At(f) /\ input.bytes <= At(f) /\ input.ended
         \/ got' = Returned(At(f)) /\ At(f)' = At(f) + 1 /\ At(f) < input.bytes
  BY ReadcStep
<1>3. Consumed = At(f) /\ Consumed' = At(f)'
  BY <1>1, <1>2, ConsumedIsAt, ConsumedIsAtNext
<1> QED BY <1>1, <1>2, <1>3

LEMMA ReadBegins ==
    ASSUME ReaderInv, input.kind = "file", NEW sz \in Nat \ {0}, Read(sz)
    PROVE  /\ ReaderInv' /\ call.op = "none"
           /\ input' = input /\ Consumed' = Consumed
           /\ \/ /\ got' = <<>> /\ call'.op = "none"
                 /\ input.bytes <= Consumed /\ input.ended
              \/ call'.op = "read" /\ call'.sz = sz
<1>1. call.op = "none" /\ call.buf = <<>>
  BY DEF Read, ReaderInv
<1>2. /\ ReaderInv' /\ input' = input /\ At(f)' = At(f)
      /\ \/ got' = <<>> /\ call' = call /\ input.bytes <= At(f) /\ input.ended
         \/ got' = got /\ call'.op = "read" /\ call'.buf = <<>> /\ call'.sz = sz
  BY ReadStep
<1>3. Consumed = At(f) /\ Consumed' = At(f)'
  BY <1>1, <1>2, ConsumedIsAt, ConsumedIsAtNext
<1> QED BY <1>1, <1>2, <1>3

LEMMA RoundReads ==
    ASSUME ReaderInv, ReadRound
    PROVE  /\ ReaderInv' /\ call.op = "read" /\ call.sz \in Nat \ {0}
           /\ input' = input /\ input.ended
           /\ Consumed \in Nat /\ Consumed <= input.bytes
           /\ \/ /\ call'.op = "read" /\ call'.sz = call.sz
                 /\ got' = got /\ Consumed' = Consumed
              \/ /\ call'.op = "none"
                 /\ got' = Bytes(Consumed, Lesser(call.sz, input.bytes - Consumed))
                 /\ Consumed' = Consumed + Lesser(call.sz, input.bytes - Consumed)
<1>1. /\ ReaderInv'
      /\ input' = input /\ input.ended /\ call.sz \in Nat \ {0}
      /\ call.op = "read"
      /\ Consumed \in Nat /\ Consumed <= input.bytes
      /\ \/ /\ call'.op = "read" /\ call'.sz = call.sz
            /\ got' = got /\ Consumed' = Consumed
         \/ /\ call' = NoCall
            /\ got' = Bytes(Consumed, Lesser(call.sz, input.bytes - Consumed))
            /\ At(f)' = Consumed + Lesser(call.sz, input.bytes - Consumed)
  BY ReadRoundStep
<1>2. ASSUME call' = NoCall PROVE call'.op = "none" /\ Consumed' = At(f)'
  BY <1>1, <1>2, ConsumedIsAtNext DEF NoCall
<1> QED BY <1>1, <1>2

LEMMA SeekMoves ==
    ASSUME ReaderInv, NEW pos \in Nat, Seek(pos)
    PROVE  /\ ReaderInv' /\ call.op = "none" /\ call' = call
           /\ input' = input /\ Consumed' = pos
<1>1. /\ ReaderInv' /\ input' = input /\ call' = call /\ call.op = "none"
      /\ At(f)' = pos
  BY SeekStep
<1>2. call'.buf = <<>>
  BY <1>1 DEF ReaderInv
<1> QED BY <1>1, <1>2, ConsumedIsAtNext

LEMMA FeedsNothing ==
    ASSUME ReaderInv, (\E n \in Nat : Feed(n)) \/ HangUp
    PROVE  /\ ReaderInv' /\ input.kind = "pipe" /\ ~input.ended
           /\ input'.kind = "pipe" /\ input.bytes <= input'.bytes
           /\ call' = call /\ got' = got /\ Consumed' = Consumed
<1>1. ReaderInv' /\ call' = call /\ got' = got /\ At(f)' = At(f)
  BY PipeStep
<1>2. f' = f /\ input.kind = "pipe" /\ ~input.ended
  BY DEF Feed, HangUp
<1>3. Consumed' = Consumed
  BY <1>1, <1>2 DEF Consumed, getCurrentCache
<1>4. input'.kind = "pipe" /\ input.bytes <= input'.bytes
  <2>1. input \in InputType /\ input.bytes \in Nat
    BY DEF ReaderInv, InputType
  <2> QED BY <1>2, <2>1 DEF Feed, HangUp, InputType
<1> QED BY <1>1, <1>2, <1>3, <1>4

LEMMA SeekOutMoves ==
    ASSUME WriterInv, NEW pos \in Nat, SeekOut(pos)
    PROVE  /\ WriterInv' /\ w.open /\ w'.open = w.open
           /\ Content' = Content /\ Position' = pos
<1>1. w \in [open : BOOLEAN, bufsize : Nat, buf : Seq(Int)]
  BY DEF WriterInv
<1>2. /\ w.open
      /\ out' = [Put(out, w.buf) EXCEPT !.pos = pos]
      /\ w' = [w EXCEPT !.open = w.open, !.buf = <<>>]
  BY <1>1 DEF SeekOut
<1>3. w.open \in BOOLEAN
  BY <1>1
<1> QED BY <1>2, <1>3, FlushStep

LEMMA CloseWrites ==
    ASSUME WriterInv, CloseWriter
    PROVE  /\ WriterInv' /\ w.open /\ w'.open = FALSE
           /\ Content' = Content /\ Position' = Position /\ out'.content = Content
<1>1. /\ w \in [open : BOOLEAN, bufsize : Nat, buf : Seq(Int)]
      /\ Position \in Nat
      /\ Put(out, w.buf) = [content |-> Content, pos |-> Position]
  BY FlushFacts DEF WriterInv
<1>2. /\ w.open
      /\ out' = [Put(out, w.buf) EXCEPT !.pos = Position]
      /\ w' = [w EXCEPT !.open = FALSE, !.buf = <<>>]
      /\ out'.content = Content
  BY <1>1 DEF CloseWriter
<1>3. WriterInv' /\ Content' = Content /\ Position' = Position /\ w'.open = FALSE
  BY <1>1, <1>2, FlushStep
<1> QED BY <1>2, <1>3
=============================================================================
