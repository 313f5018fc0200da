------------------------------ MODULE Io61Proofs ------------------------------
(* Proofs about io61.c for any number and size of caches, any input and any    *)
(* calls.                                                                      *)
EXTENDS Io61Properties, Io61FileProofs

-----------------------------------------------------------------------------
(* The inductive invariant: that of the reader and of the writer, and that the *)
(* size of an io61_read in progress is one the program passed.                 *)

SizePassed == call.op = "read" => call.sz \in Sizes

IInv == mode \in {"O_RDONLY", "O_WRONLY"} /\ ReaderInv /\ SizePassed /\ WriterInv

\* A step of a writer writes at the position, moves it or closes.
LEMMA WriterStepFacts ==
    ASSUME WriterInv, WriterStep
    PROVE  /\ WriterInv' /\ w.open
           /\ \/ /\ w'.open = w.open
                 /\ \E d \in Seq(Int) :
                       /\ \/ d \in Blocks
                          \/ \E b \in Blocks : \E i \in DOMAIN b : d = <<b[i]>>
                       /\ Content' = Overlay(Content, Position, d)
                       /\ Position' = Position + Len(d)
              \/ /\ w'.open = w.open /\ Content' = Content
                 /\ Position' = Position \/ Position' \in Positions
              \/ w'.open = FALSE /\ Content' = Content /\ Position' = Position
<1>1. /\ w \in [open : BOOLEAN, bufsize : Nat, buf : Seq(Int)]
      /\ out \in [content : Seq(Int), pos : Nat]
  BY DEF WriterInv
<1>2. Position \in Nat /\ Put(out, w.buf) = [content |-> Content, pos |-> Position]
  BY FlushFacts
<1>3. ASSUME NEW d \in Blocks, Write(d)
      PROVE  /\ WriterInv' /\ w.open /\ w'.open = w.open /\ d \in Seq(Int)
             /\ Content' = Overlay(Content, Position, d)
             /\ Position' = Position + Len(d)
  <2>1. d \in Seq(Int)
    BY CallerAssumption
  <2> QED BY <1>3, <2>1, WriteStep
<1>4. ASSUME NEW b \in Blocks, NEW i \in DOMAIN b, Writec(b[i])
      PROVE  /\ WriterInv' /\ w.open /\ w'.open = w.open /\ <<b[i]>> \in Seq(Int)
             /\ Content' = Overlay(Content, Position, <<b[i]>>)
             /\ Position' = Position + Len(<<b[i]>>)
  <2> DEFINE ch == b[i]
  <2>1. b \in Seq(Int)
    BY CallerAssumption
  <2>2. ch \in Int /\ Writec(ch)
    BY <1>4, <2>1
  <2> HIDE DEF ch
  <2>3. <<ch>> \in Seq(Int)
    BY <2>2
  <2> QED BY <2>2, <2>3, WritecStep DEF ch
<1>5. CASE Flush
  <2>1. /\ w.open
        /\ out' = [Put(out, w.buf) EXCEPT !.pos = Position]
        /\ w' = [w EXCEPT !.open = w.open, !.buf = <<>>]
    <3>1. w.open /\ out' = Put(out, w.buf) /\ w' = [w EXCEPT !.buf = <<>>]
      BY <1>5 DEF Flush
    <3>2. [w EXCEPT !.buf = <<>>] = [w EXCEPT !.open = w.open, !.buf = <<>>]
      BY <1>1
    <3>3. Put(out, w.buf) = [Put(out, w.buf) EXCEPT !.pos = Position]
      BY <1>2
    <3> QED BY <3>1, <3>2, <3>3
  <2>2. w.open \in BOOLEAN
    BY <1>1
  <2>3. WriterInv' /\ Content' = Content /\ Position' = Position /\ w'.open = w.open
    BY <1>2, <2>1, <2>2, FlushStep
  <2> QED BY <2>1, <2>3
<1>6. ASSUME NEW pos \in Positions, SeekOut(pos)
      PROVE  /\ WriterInv' /\ w.open /\ w'.open = w.open
             /\ Content' = Content /\ Position' \in Positions
  BY <1>6, CallerAssumption, SeekOutMoves
<1>7. CASE CloseWriter
  BY <1>7, CloseWrites
<1>8. CASE \E d \in Blocks : Write(d)
  BY <1>3, <1>8
<1>9. CASE \E b \in Blocks : \E i \in DOMAIN b : Writec(b[i])
  BY <1>4, <1>9
<1> QED BY <1>5, <1>6, <1>7, <1>8, <1>9 DEF WriterStep, Flush

-----------------------------------------------------------------------------
(* The invariant is inductive                                                  *)

LEMMA InitInv == Init => IInv
<1> SUFFICES ASSUME Init PROVE IInv
  OBVIOUS
<1>1. /\ mode \in {"O_RDONLY", "O_WRONLY"}
      /\ f = [caches |-> [i \in Slot |-> EmptyCache], currentCache |-> NoCache]
      /\ call = NoCall /\ got = <<>>
  BY DEF Init, ReaderInit
<1>2. /\ input \in InputType /\ (input.kind = "file" => input.ended)
      /\ input.kind = "pipe" => input.taken = 0
      /\ input.bytes \in Nat
  <2>1. PICK in \in Inputs : input = in
    BY DEF Init, ReaderInit
  <2>2. in.bytes \in Nat /\ in \in {File(in.bytes), EmptyPipe}
    BY InputAssumption
  <2>3. CASE in = File(in.bytes)
    <3> DEFINE n == in.bytes
    <3>1. /\ n \in Nat
          /\ input = [kind |-> "file", bytes |-> n, taken |-> 0, ended |-> TRUE]
      BY <2>1, <2>2, <2>3 DEF File
    <3> HIDE DEF n
    <3> QED BY <3>1 DEF InputType
  <2>4. CASE in = EmptyPipe
    BY <2>1, <2>4 DEF EmptyPipe, InputType
  <2> QED BY <2>2, <2>3, <2>4
<1>3. EmptyCache \in CacheType
  BY DEF EmptyCache, CacheType
<1>4. f \in FileType /\ (\A i \in Slot : f.caches[i] = EmptyCache)
  BY <1>1, <1>3 DEF FileType
<1>5. Caches(f)
  BY <1>1, <1>4 DEF Caches, Held, CurrentFilled, EmptyCache
<1>6. call \in [op : {"none", "read", "crashed", "closed"}, sz : Nat,
                cache : Slot, buf : Seq(Nat)]
      /\ call.op = "none" /\ call.buf = <<>>
  <2>1. 0 \in Slot
    BY CacheAssumption DEF Slot
  <2> QED BY <1>1, <2>1 DEF NoCall
<1>7. CurrentAlive(f)
  BY <1>1 DEF CurrentAlive, Exhausted
<1>8. input.kind = "pipe" => InOrder(f, input.taken)
  BY <1>1, <1>2 DEF InOrder
<1>9. WriterInv
  BY DEF Init, WriterInit, NothingWritten, WriterInv
<1>10. got \in Seq(Nat)
  BY <1>1
<1> QED BY <1>1, <1>2, <1>5, <1>6, <1>7, <1>8, <1>9, <1>10 DEF IInv, ReaderInv, SizePassed

LEMMA ReaderStepInv ==
    ReaderInv /\ SizePassed /\ ReaderStep => ReaderInv' /\ SizePassed'
<1> SUFFICES ASSUME ReaderInv, SizePassed, ReaderStep PROVE ReaderInv' /\ SizePassed'
  OBVIOUS
<1>1. CASE Readc
  BY <1>1, ReadcStep DEF Readc, SizePassed
<1>2. ASSUME NEW sz \in Sizes, CharsFromPipes, Read(sz)
      PROVE  ReaderInv' /\ SizePassed'
  <2>1. /\ ReaderInv' /\ call.op = "none"
        /\ call' = call \/ call'.sz = sz
    BY <1>2, CallerAssumption, ReadStep DEF CharsFromPipes, Read
  <2> QED BY <2>1 DEF SizePassed
<1>3. CASE ReadRound
  <2>1. /\ ReaderInv' /\ call.op = "read"
        /\ call' = NoCall \/ call'.sz = call.sz
    BY <1>3, ReadRoundStep
  <2> QED BY <2>1 DEF SizePassed, NoCall
<1>4. ASSUME NEW pos \in Positions, Seek(pos) PROVE ReaderInv' /\ SizePassed'
  BY <1>4, CallerAssumption, SeekStep DEF SizePassed
<1>5. ASSUME NEW pos \in Positions, SeekCrashes(pos) PROVE ReaderInv' /\ SizePassed'
  BY <1>5, CallerAssumption, SeekCrashesStep DEF SizePassed
<1>6. CASE CloseReader
  BY <1>6, CloseReaderStep DEF SizePassed
<1>7. CASE (\E n \in Sizes : Feed(n)) \/ HangUp
  BY <1>7, CallerAssumption, PipeStep DEF SizePassed
<1> QED BY <1>1, <1>2, <1>3, <1>4, <1>5, <1>6, <1>7 DEF ReaderStep

LEMMA NextInv == IInv /\ [Next]_vars => IInv'
<1> SUFFICES ASSUME IInv, [Next]_vars PROVE IInv'
  OBVIOUS
<1>1. CASE ReaderStep /\ UNCHANGED <<mode, w, out>>
  <2>1. ReaderInv' /\ SizePassed'
    BY <1>1, ReaderStepInv DEF IInv
  <2> QED BY <1>1, <2>1 DEF IInv, WriterInv
<1>2. ASSUME UNCHANGED <<f, call, got, input>> PROVE ReaderInv' /\ SizePassed'
  BY <1>2, ReaderStill DEF IInv, SizePassed, readerVars
<1>3. CASE WriterStep /\ UNCHANGED <<mode, f, call, got, input>>
  <2>1. WriterInv'
    BY <1>3, WriterStepFacts DEF IInv
  <2>2. ReaderInv' /\ SizePassed'
    BY <1>2, <1>3
  <2> QED BY <1>3, <2>1, <2>2 DEF IInv
<1>4. CASE UNCHANGED vars
  <2>1. ReaderInv' /\ SizePassed'
    BY <1>2, <1>4 DEF vars
  <2> QED BY <1>4, <2>1 DEF vars, IInv, WriterInv
<1> QED BY <1>1, <1>3, <1>4 DEF Next

\* Whatever a program does with an io61_file, its invariant holds.
THEOREM Io61Invariant == Spec => []IInv
<1> QED BY InitInv, NextInv, PTL DEF Spec

\* The io61 variables keep their types (io61.c 17-43).
THEOREM Io61TypeCorrect == Spec => []TypeOK
<1>1. IInv => TypeOK
  BY DEF IInv, ReaderInv, WriterInv, Caches, TypeOK
<1> QED BY <1>1, Io61Invariant, PTL

\* A cache of a file holds the bytes its pos says, whatever was evicted, sought
\* and read before (io61.c 71-118), for any number and size of caches.
THEOREM CachesStayTruthful == Spec => []CachesTruthful
<1>1. IInv => CachesTruthful
  BY DEF IInv, ReaderInv, Caches, Held, CachesTruthful
<1> QED BY <1>1, Io61Invariant, PTL

\* No byte is taken from a buffer that was freed: a slot given up by a failing
\* read (io61.c 86-88) is one that is used up.
THEOREM FreedBuffersStayUnread == Spec => []NoReadFromFreedBuffer
<1>1. IInv => NoReadFromFreedBuffer
  <2> SUFFICES ASSUME IInv PROVE NoReadFromFreedBuffer
    OBVIOUS
  <2>1. ~Exhausted(f) /\ call.op = "none" => getCurrentCache(f).state = "ACTIVE"
    BY DEF IInv, ReaderInv, CurrentAlive
  <2>2. ASSUME call.op = "read"
        PROVE  \/ f.caches[call.cache].state = "ACTIVE"
               \/ f.caches[call.cache].offset = f.caches[call.cache].bufsize
    <3>1. CASE /\ call.cache = f.currentCache
               /\ f.caches[call.cache].offset < f.caches[call.cache].bufsize
      <4>1. CurrentAlive(f) /\ f.currentCache # NoCache /\ f \in FileType
        BY <2>2 DEF IInv, ReaderInv, Reading, Caches
      <4>2. f.caches[f.currentCache] \in CacheType
        BY <4>1 DEF FileType
      <4>3. ~Exhausted(f)
        BY <3>1, <4>1, <4>2 DEF Exhausted, getCurrentCache, CacheType
      <4> QED BY <3>1, <4>1, <4>3 DEF CurrentAlive, getCurrentCache
    <3> QED BY <2>2, <3>1 DEF IInv, ReaderInv, Reading
  <2> QED BY <2>1, <2>2 DEF NoReadFromFreedBuffer
<1> QED BY <1>1, Io61Invariant, PTL

-----------------------------------------------------------------------------
(* The refinement.  Its variables by name, as Io61Properties maps them.  A     *)
(* byte 0xFF is left out: for io61_readc it is the end of the file.            *)

SOpen    == IF mode = "O_RDONLY" THEN call.op # "closed" ELSE w.open
SContent == IF mode = "O_RDONLY" THEN Bytes(0, input.bytes) ELSE Content
SEnded   == mode = "O_RDONLY" /\ input.ended
SPos     == IF mode = "O_RDONLY" THEN Consumed ELSE Position

\* A call that returns the next n bytes, or what there is of them.
LEMMA SReadHolds ==
    ASSUME mode = "O_RDONLY", mode' = mode, call.op # "closed", call'.op # "closed",
           NEW size \in Nat, input.bytes = size, input'.bytes = size,
           input'.ended = input.ended,
           NEW n \in Nat, NEW p \in Nat, Consumed = p,
           \/ /\ got' = <<>> /\ Consumed' = p /\ size <= p /\ input.ended
           \/ /\ p <= size /\ (p + n <= size \/ input.ended)
              /\ got' = Bytes(p, Lesser(n, size - p))
              /\ Consumed' = p + Lesser(n, size - p)
    PROVE  Stream!SRead(n)
<1> DEFINE a == Bytes(0, size)  e == Lesser(p + n, size)
<1>1. a \in Seq(Nat) /\ Len(a) = size
  BY BytesFacts
<1>2. e \in Nat /\ p + n \in Nat
  BY DEF Lesser
<1>4. ASSUME p <= size, p + n <= size \/ input.ended,
             got' = Bytes(p, Lesser(n, size - p)),
             Consumed' = p + Lesser(n, size - p)
      PROVE  got' = SubSeq(a, p + 1, e) /\ Consumed' = Greater(p, e)
  <2>1. SubSeq(a, p + 1, e) = Bytes(p, Lesser(n, size - p))
    BY <1>4, BytesSlice
  <2>2. Greater(p, e) = p + Lesser(n, size - p)
    BY <1>4 DEF Greater, Lesser
  <2> QED BY <1>4, <2>1, <2>2
<1>5. /\ got' = SubSeq(a, p + 1, e) /\ Consumed' = Greater(p, e)
      /\ p + n <= size \/ input.ended
  <2>1. CASE got' = <<>> /\ Consumed' = p /\ size <= p /\ input.ended
    <3>1. e = size /\ Greater(p, e) = p
      BY <2>1 DEF Lesser, Greater
    <3>2. SubSeq(a, p + 1, e) = <<>>
      <4>1. e < p + 1 /\ e \in Int /\ p + 1 \in Int
        BY <1>2, <2>1, <3>1
      <4> HIDE DEF a, e
      <4> QED BY <1>1, <4>1, SubSeqEmpty
    <3> QED BY <2>1, <3>1, <3>2
  <2> QED BY <1>4, <2>1
<1>6. /\ \A x, y : Stream!Lesser(x, y) = Lesser(x, y)
      /\ \A x, y : Stream!Greater(x, y) = Greater(x, y)
  BY DEF Lesser, Greater, Stream!Lesser, Stream!Greater
<1>7. /\ SContent = a /\ SContent' = a /\ SPos = p /\ SPos' = Consumed'
      /\ SOpen = TRUE /\ SOpen' = TRUE /\ SEnded' = SEnded
      /\ input.ended => SEnded
  BY DEF SContent, SPos, SOpen, SEnded, Content, Position
<1> HIDE DEF e
<1> QED BY <1>1, <1>5, <1>6, <1>7
        DEF Stream!SRead, Stream!CanCall, SOpen, SContent, SEnded, SPos,
            Content, Position, e

LEMMA SStutter ==
    ASSUME mode' = mode, got' = got, SOpen' = SOpen, SContent' = SContent,
           SEnded' = SEnded, SPos' = SPos
    PROVE  UNCHANGED Stream!vars
BY DEF SOpen, SContent, SEnded, SPos, Content, Position, Stream!vars

\* Every call on a reader does what it does to the file itself.
LEMMA ReaderRefines ==
    ASSUME Byte255 = {}, ReaderInv, ReaderInv', SizePassed, mode = "O_RDONLY", mode' = mode,
           ReaderStep
    PROVE  Stream!SNext \/ UNCHANGED Stream!vars
<1>1. /\ input \in InputType /\ input' \in InputType
      /\ call.op # "read" => call.buf = <<>>
      /\ call'.op # "read" => call'.buf = <<>>
      /\ At(f) \in Nat \/ call.buf # <<>>
  BY ConsumedIsAt DEF ReaderInv
<1>2. input.bytes \in Nat /\ input'.bytes \in Nat
  BY <1>1 DEF InputType
<1>3. /\ call.buf = <<>> => Consumed = At(f) /\ At(f) \in Nat
      /\ call'.buf = <<>> => Consumed' = At(f)' /\ At(f)' \in Nat
  BY ConsumedIsAt, ConsumedIsAtNext
<1>4. CASE Readc
  <2>1. /\ input'.bytes = input.bytes /\ input'.ended = input.ended
        /\ \/ got' = <<>> /\ At(f)' = At(f) /\ input.bytes <= At(f) /\ input.ended
           \/ got' = Returned(At(f)) /\ At(f)' = At(f) + 1 /\ At(f) < input.bytes
    BY <1>4, ReadcStep
  <2>2. call.op = "none" /\ call' = call
    BY <1>4 DEF Readc
  <2>3. Consumed = At(f) /\ Consumed' = At(f)' /\ At(f) \in Nat
    BY <1>1, <1>3, <2>2
  <2>4. Returned(At(f)) = <<At(f)>>
    BY DEF Returned
  <2>5. ASSUME At(f) < input.bytes
        PROVE  /\ Lesser(1, input.bytes - At(f)) = 1
               /\ Bytes(At(f), 1) = <<At(f)>>
               /\ At(f) + 1 <= input.bytes
    <3> DEFINE p == At(f)  b == Bytes(p, 1)
    <3>1. p \in Nat /\ p < input.bytes
      BY <2>3, <2>5
    <3> HIDE DEF p
    <3>2. b \in Seq(Nat) /\ Len(b) = 1 /\ b[1] = p + 1 - 1
      <4>1. 1 \in Nat /\ 1 \in 1..1 /\ p \in Nat
        BY <3>1
      <4>2. b \in Seq(Nat) /\ Len(b) = 1 /\ \A i \in 1..1 : b[i] = p + i - 1
        BY <4>1, BytesFacts
      <4> HIDE DEF b
      <4> QED BY <4>1, <4>2
    <3>3. b = <<p>>
      <4> HIDE DEF b
      <4>1. p + 1 - 1 = p
        BY <3>1
      <4>2. <<p>> \in Seq(Nat) /\ Len(<<p>>) = 1 /\ <<p>>[1] = p
        BY <3>1
      <4>3. \A i \in 1..Len(b) : b[i] = <<p>>[i]
        BY <3>2, <4>1, <4>2
      <4> QED BY <3>2, <4>2, <4>3, SeqEqual
    <3>4. Lesser(1, input.bytes - p) = 1 /\ p + 1 <= input.bytes
      BY <1>2, <3>1 DEF Lesser
    <3> QED BY <3>3, <3>4 DEF p
  <2> DEFINE p == At(f)
  <2>6. \/ got' = <<>> /\ Consumed' = p /\ input.bytes <= p /\ input.ended
        \/ /\ p <= input.bytes /\ (p + 1 <= input.bytes \/ input.ended)
           /\ got' = Bytes(p, Lesser(1, input.bytes - p))
           /\ Consumed' = p + Lesser(1, input.bytes - p)
    BY <1>2, <2>1, <2>3, <2>4, <2>5
  <2>7. call.op # "closed" /\ call'.op # "closed" /\ p \in Nat /\ Consumed = p
    BY <2>2, <2>3
  <2> HIDE DEF p
  <2>8. Stream!SRead(1)
    BY <1>2, <2>1, <2>6, <2>7, SReadHolds
  <2> QED BY <2>8 DEF Stream!SNext, Stream!SReadc
<1>5. ASSUME NEW sz \in Sizes, CharsFromPipes, Read(sz)
      PROVE  Stream!SNext \/ UNCHANGED Stream!vars
  <2>1. /\ input' = input /\ At(f)' = At(f)
        /\ \/ got' = <<>> /\ call' = call /\ input.bytes <= At(f) /\ input.ended
           \/ got' = got /\ call'.op = "read" /\ call'.buf = <<>>
    BY <1>5, CallerAssumption, ReadStep DEF CharsFromPipes
  <2>2. call.op = "none" /\ call.buf = <<>> /\ call'.buf = <<>> /\ sz \in Nat
    BY <1>1, <1>5, <2>1, CallerAssumption DEF Read
  <2>3. Consumed = At(f) /\ Consumed' = At(f) /\ At(f) \in Nat
    BY <1>3, <2>1, <2>2
  <2>4. CASE got' = <<>> /\ call' = call /\ input.bytes <= At(f) /\ input.ended
    <3> DEFINE p == At(f)
    <3>1. /\ call.op # "closed" /\ call'.op # "closed" /\ p \in Nat /\ Consumed = p
          /\ input'.bytes = input.bytes /\ input'.ended = input.ended
          /\ got' = <<>> /\ Consumed' = p /\ input.bytes <= p /\ input.ended
      BY <2>1, <2>2, <2>3, <2>4
    <3> HIDE DEF p
    <3>2. Stream!SRead(sz)
      BY <1>2, <2>2, <3>1, SReadHolds
    <3> QED BY <3>2 DEF Stream!SNext
  <2>5. CASE got' = got /\ call'.op = "read"
    <3>1. SOpen' = SOpen /\ SContent' = SContent /\ SEnded' = SEnded /\ SPos' = SPos
      BY <2>1, <2>2, <2>3, <2>5 DEF SOpen, SContent, SEnded, SPos
    <3> QED BY <2>5, <3>1, SStutter
  <2> QED BY <2>1, <2>4, <2>5
<1>6. CASE ReadRound
  <2>1. /\ input' = input /\ input.ended /\ call.sz \in Sizes /\ call.op = "read"
        /\ Consumed \in Nat /\ Consumed <= input.bytes
        /\ \/ call'.op = "read" /\ got' = got /\ Consumed' = Consumed
           \/ /\ call' = NoCall
              /\ got' = Bytes(Consumed, Lesser(call.sz, input.bytes - Consumed))
              /\ At(f)' = Consumed + Lesser(call.sz, input.bytes - Consumed)
    BY <1>6, ReadRoundStep DEF SizePassed
  <2>2. CASE call'.op = "read" /\ got' = got /\ Consumed' = Consumed
    <3>1. SOpen' = SOpen /\ SContent' = SContent /\ SEnded' = SEnded /\ SPos' = SPos
      BY <2>1, <2>2 DEF SOpen, SContent, SEnded, SPos
    <3> QED BY <2>2, <3>1, SStutter
  <2>3. CASE /\ call' = NoCall
             /\ got' = Bytes(Consumed, Lesser(call.sz, input.bytes - Consumed))
             /\ At(f)' = Consumed + Lesser(call.sz, input.bytes - Consumed)
    <3> DEFINE p == Consumed
    <3>1. call'.op = "none" /\ call'.buf = <<>> /\ Consumed' = At(f)'
      BY <1>3, <2>3 DEF NoCall
    <3>2. /\ call.op # "closed" /\ call'.op # "closed" /\ p \in Nat /\ Consumed = p
          /\ input'.bytes = input.bytes /\ input'.ended = input.ended
          /\ p <= input.bytes /\ (p + call.sz <= input.bytes \/ input.ended)
          /\ got' = Bytes(p, Lesser(call.sz, input.bytes - p))
          /\ Consumed' = p + Lesser(call.sz, input.bytes - p)
      BY <2>1, <2>3, <3>1
    <3>3. call.sz \in Nat
      BY <2>1, CallerAssumption
    <3> HIDE DEF p
    <3>4. Stream!SRead(call.sz)
      BY <1>2, <3>2, <3>3, SReadHolds
    <3> QED BY <2>1, <3>4 DEF Stream!SNext
  <2> QED BY <2>1, <2>2, <2>3
<1>7. ASSUME NEW pos \in Positions, Seek(pos)
      PROVE  Stream!SNext \/ UNCHANGED Stream!vars
  <2>1. /\ input' = input /\ call' = call /\ call.op = "none"
        /\ got' = <<>> /\ At(f)' = pos
    BY <1>7, CallerAssumption, SeekStep
  <2>2. Consumed' = pos
    BY <1>1, <1>3, <2>1
  <2>3. /\ SOpen = TRUE /\ SOpen' = SOpen /\ SContent' = SContent
        /\ SEnded' = SEnded /\ SPos' = pos
    BY <2>1, <2>2 DEF SOpen, SContent, SEnded, SPos
  <2>4. Stream!SSeek(pos)
    BY <2>1, <2>3 DEF Stream!SSeek, SOpen, SContent, SEnded, SPos, Content, Position
  <2> QED BY <2>4 DEF Stream!SNext
<1>8. ASSUME NEW pos \in Positions, SeekCrashes(pos)
      PROVE  Stream!SNext \/ UNCHANGED Stream!vars
  <2>1. /\ input' = input /\ got' = got /\ At(f)' = At(f)
        /\ call.op = "none" /\ call'.op = "crashed" /\ call'.buf = <<>>
    BY <1>8, CallerAssumption, SeekCrashesStep
  <2>2. Consumed' = Consumed
    BY <1>1, <1>3, <2>1
  <2>3. SOpen' = SOpen /\ SContent' = SContent /\ SEnded' = SEnded /\ SPos' = SPos
    BY <2>1, <2>2 DEF SOpen, SContent, SEnded, SPos
  <2> QED BY <2>1, <2>3, SStutter
<1>9. CASE CloseReader
  <2>1. /\ input' = input /\ got' = got /\ At(f)' = At(f)
        /\ call.op = "none" /\ call'.op = "closed" /\ call'.buf = <<>>
    BY <1>9, CloseReaderStep
  <2>2. Consumed' = Consumed
    BY <1>1, <1>3, <2>1
  <2>3. /\ SOpen = TRUE /\ SOpen' = FALSE /\ SContent' = SContent
        /\ SEnded' = SEnded /\ SPos' = SPos
    BY <2>1, <2>2 DEF SOpen, SContent, SEnded, SPos
  <2>4. Stream!SClose
    BY <2>1, <2>3 DEF Stream!SClose, SOpen, SContent, SEnded, SPos, Content, Position
  <2> QED BY <2>4 DEF Stream!SNext
<1>10. ASSUME (\E n \in Sizes : Feed(n)) \/ HangUp
       PROVE  /\ call' = call /\ got' = got /\ Consumed' = Consumed
              /\ SOpen' = SOpen /\ SPos' = SPos
  <2>1. call' = call /\ got' = got /\ At(f)' = At(f) /\ f' = f
    BY <1>10, CallerAssumption, PipeStep DEF Feed, HangUp
  <2>2. Consumed' = Consumed
    BY <2>1 DEF Consumed, getCurrentCache
  <2> QED BY <2>1, <2>2 DEF SOpen, SPos
<1>11. ASSUME NEW n \in Sizes, Feed(n)
       PROVE  Stream!SNext \/ UNCHANGED Stream!vars
  <2>1. /\ call' = call /\ got' = got /\ Consumed' = Consumed
        /\ SOpen' = SOpen /\ SPos' = SPos
    BY <1>10, <1>11
  <2>2. /\ n \in Nat
        /\ input.ended = FALSE /\ input' = [input EXCEPT !.bytes = input.bytes + n]
    BY <1>1, <1>11, CallerAssumption DEF Feed, InputType
  <2>3. input'.bytes = input.bytes + n /\ input'.ended = input.ended
    BY <1>1, <2>2 DEF InputType
  <2>4. SEnded = FALSE /\ SEnded' = SEnded
    BY <2>2, <2>3 DEF SEnded
  <2>5. /\ Len(SContent) = input.bytes
        /\ SContent' = SContent \o Stream!Bytes(Len(SContent), n)
    <3> DEFINE b == input.bytes
    <3>1. b \in Nat /\ n \in Nat /\ 0 + b = b
      BY <1>2, <2>2
    <3>2. Bytes(0, b) \o Bytes(b, n) = Bytes(0, b + n) /\ Len(Bytes(0, b)) = b
      <4> HIDE DEF b
      <4>1. Bytes(0, b) \o Bytes(0 + b, n) = Bytes(0, b + n)
        BY <3>1, BytesConcat
      <4> QED BY <3>1, <4>1, BytesFacts
    <3>3. SContent = Bytes(0, b) /\ SContent' = Bytes(0, b + n)
      BY <2>3 DEF SContent
    <3>4. Stream!Bytes(b, n) = Bytes(b, n)
      BY DEF Stream!Bytes, Bytes
    <3> QED BY <3>2, <3>3, <3>4
  <2>6. Stream!Arrive(Stream!Bytes(Len(SContent), n))
    BY <2>1, <2>4, <2>5 DEF Stream!Arrive, SOpen, SContent, SEnded, SPos, Content, Position
  <2> QED BY <2>6 DEF Stream!SNext, SContent, Content
<1>12. CASE HangUp
  <2>1. /\ call' = call /\ got' = got /\ Consumed' = Consumed
        /\ SOpen' = SOpen /\ SPos' = SPos
    BY <1>10, <1>12
  <2>2. input.ended = FALSE /\ input' = [input EXCEPT !.ended = TRUE]
    BY <1>1, <1>12 DEF HangUp, InputType
  <2>3. input'.bytes = input.bytes /\ input'.ended = TRUE
    BY <1>1, <2>2 DEF InputType
  <2>4. SEnded = FALSE /\ SEnded' = TRUE /\ SContent' = SContent
    BY <2>2, <2>3 DEF SEnded, SContent
  <2>5. Stream!End
    BY <2>1, <2>4 DEF Stream!End, SOpen, SContent, SEnded, SPos, Content, Position
  <2> QED BY <2>5 DEF Stream!SNext
<1> QED BY <1>4, <1>5, <1>6, <1>7, <1>8, <1>9, <1>11, <1>12 DEF ReaderStep

\* Every call on a writer does, but for what is still in its buffer, what it
\* does to the file itself.
LEMMA WriterRefines ==
    ASSUME WriterInv, mode = "O_WRONLY", mode' = mode, got = <<>>, got' = got,
           WriterStep
    PROVE  Stream!SNext \/ UNCHANGED Stream!vars
<1>1. /\ SEnded = FALSE /\ SEnded' = FALSE
      /\ SContent = Content /\ SContent' = Content'
      /\ SPos = Position /\ SPos' = Position'
      /\ SOpen = w.open /\ SOpen' = w'.open
  BY DEF SEnded, SContent, SPos, SOpen
<1>2. w.open = TRUE
  BY WriterStepFacts DEF WriterInv
<1>3. \A c, p, d : Stream!Overlay(c, p, d) = Overlay(c, p, d)
  BY DEF Stream!Overlay, Overlay, Stream!Greater, Greater, Stream!Hole, Hole
<1>4. ASSUME NEW d, w'.open = w.open,
             Content' = Overlay(Content, Position, d), Position' = Position + Len(d)
      PROVE  Stream!SWrite(d)
  BY <1>1, <1>2, <1>3, <1>4
     DEF Stream!SWrite, Stream!CanCall, SOpen, SContent, SEnded, SPos, Content, Position
<1>5. CASE /\ w'.open = w.open /\ Content' = Content
           /\ Position' = Position \/ Position' \in Positions
  <2>1. CASE Position' = Position
    BY <1>1, <1>5, <2>1, SStutter
  <2>2. ASSUME NEW p \in Positions, Position' = p PROVE Stream!SSeek(p)
    BY <1>1, <1>2, <1>5, <2>2
       DEF Stream!SSeek, SOpen, SContent, SEnded, SPos, Content, Position
  <2> QED BY <1>5, <2>1, <2>2 DEF Stream!SNext
<1>6. CASE w'.open = FALSE /\ Content' = Content /\ Position' = Position
  <2>1. Stream!SClose
    BY <1>1, <1>2, <1>6
       DEF Stream!SClose, SOpen, SContent, SEnded, SPos, Content, Position
  <2> QED BY <2>1 DEF Stream!SNext
<1>7. CASE /\ w'.open = w.open
           /\ \E d \in Seq(Int) :
                 /\ \/ d \in Blocks
                    \/ \E b \in Blocks : \E i \in DOMAIN b : d = <<b[i]>>
                 /\ Content' = Overlay(Content, Position, d)
                 /\ Position' = Position + Len(d)
  <2>1. PICK d \in Seq(Int) :
           /\ \/ d \in Blocks
              \/ \E b \in Blocks : \E i \in DOMAIN b : d = <<b[i]>>
           /\ Content' = Overlay(Content, Position, d)
           /\ Position' = Position + Len(d)
    BY <1>7
  <2>2. Stream!SWrite(d)
    BY <1>4, <1>7, <2>1
  <2>3. CASE d \in Blocks
    BY <2>2, <2>3 DEF Stream!SNext
  <2>4. ASSUME NEW b \in Blocks, NEW i \in DOMAIN b, d = <<b[i]>>
        PROVE  Stream!SNext
    BY <2>2, <2>4 DEF Stream!SNext, Stream!SWritec
  <2> QED BY <2>1, <2>3, <2>4
<1> QED BY <1>5, <1>6, <1>7, WriterStepFacts

\* A writer has got nothing.
WriterGetsNothing == mode = "O_WRONLY" => got = <<>>

LEMMA InitRefines == Init => Stream!SInit /\ WriterGetsNothing
<1> SUFFICES ASSUME Init PROVE Stream!SInit /\ WriterGetsNothing
  OBVIOUS
<1>1. /\ mode \in {"O_RDONLY", "O_WRONLY"} /\ got = <<>>
      /\ call.op = "none" /\ call.buf = <<>>
      /\ f.currentCache = NoCache
      /\ w = [open |-> TRUE, bufsize |-> 0, buf |-> <<>>]
      /\ out = [content |-> <<>>, pos |-> 0]
  BY DEF Init, ReaderInit, WriterInit, NothingWritten, NoCall
<1>2. input.bytes \in Nat /\ input.ended \in BOOLEAN
  BY InitInv DEF IInv, ReaderInv, InputType
<1>3. Content = <<>> /\ Position = 0
  BY <1>1 DEF Content, Position, Overlay
<1>4. SOpen = TRUE /\ SPos = 0
  BY <1>1, <1>3 DEF SOpen, SPos, Consumed
<1>5. CASE mode = "O_RDONLY"
  <2>1. SEnded \in BOOLEAN /\ SContent = Bytes(0, input.bytes)
    BY <1>2, <1>5 DEF SEnded, SContent
  <2>2. SContent = Stream!Bytes(0, Len(SContent))
    BY <1>2, <2>1, BytesFacts DEF Stream!Bytes, Bytes
  <2> QED BY <1>1, <1>4, <1>5, <2>1, <2>2
          DEF Stream!SInit, WriterGetsNothing, SOpen, SContent, SEnded, SPos,
              Content, Position
<1>6. CASE mode = "O_WRONLY"
  <2>1. SEnded = FALSE /\ SContent = <<>>
    BY <1>3, <1>6 DEF SEnded, SContent
  <2> QED BY <1>1, <1>4, <1>6, <2>1
          DEF Stream!SInit, WriterGetsNothing, SOpen, SContent, SEnded, SPos,
              Content, Position
<1> QED BY <1>1, <1>5, <1>6

LEMMA NextRefines ==
    ASSUME Byte255 = {}, IInv, IInv', WriterGetsNothing, [Next]_vars
    PROVE  (Stream!SNext \/ UNCHANGED Stream!vars) /\ WriterGetsNothing'
<1>1. CASE mode = "O_RDONLY" /\ ReaderStep /\ UNCHANGED <<mode, w, out>>
  <2>1. ReaderInv /\ ReaderInv' /\ SizePassed /\ mode' = mode
    BY <1>1 DEF IInv
  <2>2. Stream!SNext \/ UNCHANGED Stream!vars
    BY <1>1, <2>1, ReaderRefines
  <2> QED BY <1>1, <2>2 DEF WriterGetsNothing
<1>2. CASE mode = "O_WRONLY" /\ WriterStep /\ UNCHANGED <<mode, f, call, got, input>>
  <2>1. WriterInv /\ got = <<>> /\ got' = got /\ mode' = mode
    BY <1>2 DEF IInv, WriterGetsNothing
  <2>2. Stream!SNext \/ UNCHANGED Stream!vars
    BY <1>2, <2>1, WriterRefines
  <2> QED BY <1>2, <2>1, <2>2 DEF WriterGetsNothing
<1>3. CASE UNCHANGED vars
  <2>1. /\ mode' = mode /\ f' = f /\ call' = call /\ got' = got
        /\ input' = input /\ w' = w /\ out' = out
    BY <1>3 DEF vars
  <2>2. SOpen' = SOpen /\ SContent' = SContent /\ SEnded' = SEnded /\ SPos' = SPos
    BY <2>1 DEF SOpen, SContent, SEnded, SPos, Consumed, getCurrentCache,
                Content, Position
  <2> QED BY <2>1, <2>2, SStutter DEF WriterGetsNothing
<1> QED BY <1>1, <1>2, <1>3 DEF Next

\* A file of io61.c does what one of slow-io61.c does, for any number and size
\* of caches and any calls, as long as no byte 0xFF is read: caches, evictions,
\* buffers and the order of flushing and seeking cannot be told from outside.
THEOREM Io61ImplementsByteStream ==
    ASSUME Byte255 = {}
    PROVE  Spec => ImplementsByteStream
<1>1. Init => Stream!SInit /\ WriterGetsNothing
  BY InitRefines
<1>2. IInv /\ IInv' /\ WriterGetsNothing /\ [Next]_vars
         => [Stream!SNext]_(Stream!vars) /\ WriterGetsNothing'
  BY NextRefines
<1> QED BY <1>1, <1>2, Io61Invariant, PTL DEF Spec, ImplementsByteStream, Stream!SSpec
=============================================================================
