----------------------------- MODULE Copy61Proofs -----------------------------
(* Proofs that the programs that copy through io61 write what they are to      *)
(* write, for any input, any block size and stride, and any caches.            *)
EXTENDS Copy61Properties, Io61FileProofs

\* cat61 takes a byte 0xFF for the end of its input: there is none in what it
\* reads.  The other programs may read any byte.
CatMeetsNo255 ==
    \A j \in Jobs : j.program = "cat61" =>
        \A p \in Byte255 : j.input.bytes <= p /\ InputBound <= p

-----------------------------------------------------------------------------
(* The inductive invariant                                                     *)

Sequential == {"cat61", "blockcat61", "randomcat61"}
Striding   == {"stridecat61", "ostridecat61"}

LocalsType ==
    [block_size : Nat, pos : Nat, written : Nat, in_size : Nat, permute : SUBSET Nat]

\* What holds of every program: its files are as io61 leaves them, its input
\* keeps its size unless it is a pipe, and only a read goes on for several steps.
FilesInv ==
    /\ ReaderInv /\ WriterInv
    /\ job \in Jobs
    /\ v \in LocalsType
    /\ job.program \notin Striding => v.block_size = job.b
    /\ input.kind = job.input.kind
    /\ input.kind = "file" => size = job.input.bytes
    /\ call.op = "read" => pc = "check"
    /\ pc # "done" => call.op \in {"none", "read"}

\* cat61, blockcat61 and randomcat61 have written what they have consumed, but
\* for the block in their hands.
SequentialInv ==
    /\ pc \in {"top", "check", "close", "done"}
    /\ pc # "done" => Consumed <= size /\ Content = Bytes(0, Position)
    /\ pc \in {"top", "close"} \/ call.op = "read" => Position = Consumed
    /\ pc = "check" /\ call.op = "none" =>
          /\ Position + Len(got) = Consumed
          /\ got = Bytes(Position, Len(got))
          /\ got = <<>> => input.ended /\ Consumed = size
    /\ pc = "check" /\ Runs({"cat61"}) => call.op = "none" /\ Len(got) <= 1
    /\ Runs({"cat61"}) => \A p \in Byte255 : size <= p
    /\ pc = "close" => input.ended /\ Consumed = size
    /\ pc = "done" => input.ended /\ out.content = Bytes(0, size)

\* reverse61 has written the bytes from in_size on, the last one first.
Backwards(total, n) == [i \in 1..n |-> total - i]
ReverseInv ==
    /\ pc \in {"top", "readc", "writec", "close", "done"}
    /\ v.in_size \in 0..size
    /\ pc # "done" => Content = Backwards(size, Position)
    /\ pc = "top" => Position = size - v.in_size
    /\ pc \in {"readc", "writec"} => v.in_size < size /\ Position = size - v.in_size - 1
    /\ pc = "readc" => Consumed = v.in_size
    /\ pc = "writec" => got = Returned(v.in_size)
    /\ pc = "close" => Position = size
    /\ pc = "done" => out.content = Backwards(size, size)

\* reordercat61 has put every block in its place that is not left to copy and
\* not in its hands.
InPlace(c, q) == q < Len(c) /\ c[q + 1] = q
Blocks == size \div job.b
InHand == IF pc \in {"read", "check", "write"} THEN {v.pos \div job.b} ELSE {}
ReorderInv ==
    /\ pc \in {"top", "read", "check", "write", "close", "done"}
    /\ v.permute \subseteq 0..(Blocks - 1)
    /\ pc # "done" =>
          /\ Len(Content) <= Blocks * job.b
          /\ \A q \in 0..(Blocks * job.b - 1) :
                q \div job.b \in v.permute \cup InHand \/ InPlace(Content, q)
    /\ pc \in {"read", "check", "write"} =>
          \E k \in 0..(Blocks - 1) : v.pos = k * job.b
    /\ pc = "read" \/ call.op = "read" => Consumed = v.pos
    /\ call.op = "read" => call.sz = job.b
    /\ pc = "check" /\ call.op = "none" => got = Bytes(v.pos, job.b)
    /\ pc = "write" => got = Bytes(v.pos, job.b) /\ Position = v.pos
    /\ pc = "close" => Content = Bytes(0, Blocks * job.b)
    /\ pc = "done" => out.content = Bytes(0, Blocks * job.b)

\* stridecat61 and ostridecat61 go through a file of n bytes in columns of b,
\* the last of which may be narrower, of rows of s.
Column(b, s, q)     == (q % s) \div b
Earlier(b, s, x, y) == \/ Column(b, s, x) < Column(b, s, y)
                       \/ Column(b, s, x) = Column(b, s, y) /\ x < y
Before(b, s, n, p)  == {q \in 0..(n - 1) : Earlier(b, s, q, p)}

\* Where a block begins, how wide its column is, and what is there of it.
Begins(b, s, n, p) == p \in 0..(n - 1) /\ (p % s) % b = 0
Width(b, s, p)     == Lesser(b, s - (p % s))
Amount(b, s, n, p) == Lesser(Width(b, s, p), n - p)
Block(b, s, n, p)  == p..(p + Amount(b, s, n, p) - 1)

\* What they have gone through, and how much of it they do next.
Visited == IF v.written < size THEN Before(job.b, job.s, size, v.pos) ELSE 0..(size - 1)
Ahead   == Amount(job.b, job.s, size, v.pos)
StridesInv ==
    /\ pc \in {"top", "check", "seek", "close", "done"}
    /\ v.written \in 0..size
    /\ v.written < size =>
          /\ Begins(job.b, job.s, size, v.pos)
          /\ v.block_size = Width(job.b, job.s, v.pos)
          /\ Cardinality(Before(job.b, job.s, size, v.pos)) = v.written
    /\ pc = "check" => v.written < size
    /\ pc \in {"close", "done"} => v.written = size

\* What stridecat61 has written is what it has gone through, in that order.
Sorted(b, s, c, A) ==
    /\ \A i \in 1..Len(c) : c[i] \in A
    /\ \A x \in A : \E i \in 1..Len(c) : c[i] = x
    /\ \A i, j \in 1..Len(c) : i < j => Earlier(b, s, c[i], c[j])
StridecatInv ==
    /\ pc = "top" /\ v.written < size => Consumed = v.pos
    /\ call.op = "read" => Consumed = v.pos /\ call.sz = v.block_size
    /\ pc = "check" /\ call.op = "none" => got = Bytes(v.pos, Ahead)
    /\ pc # "done" =>
          /\ Position = v.written /\ Len(Content) = v.written
          /\ Sorted(job.b, job.s, Content, Visited)
    /\ pc = "done" =>
          /\ Len(out.content) = size
          /\ Sorted(job.b, job.s, out.content, 0..(size - 1))

\* ostridecat61 has put what it has read where it has gone, in that order.
ByteAt(c, q) == c[q + 1]
Placed(b, s, c, A, n) ==
    /\ \A q \in A : q < Len(c) /\ ByteAt(c, q) \in 0..(n - 1)
    /\ \A k \in 0..(n - 1) : \E q \in A : ByteAt(c, q) = k
    /\ \A x, y \in A : Earlier(b, s, x, y) => ByteAt(c, x) < ByteAt(c, y)
OstridecatInv ==
    /\ pc \in {"top", "seek"} \/ call.op = "read" => Consumed = v.written
    /\ pc \in {"top", "check"} /\ v.written < size => Position = v.pos
    /\ call.op = "read" => call.sz = Ahead
    /\ pc = "check" /\ call.op = "none" =>
          got = Bytes(v.written, Ahead) /\ Consumed = v.written + Ahead
    /\ pc # "done" =>
          Len(Content) <= size /\ Placed(job.b, job.s, Content, Visited, v.written)
    /\ pc = "done" =>
          /\ out.content \in Seq(Int) /\ Len(out.content) <= size
          /\ Placed(job.b, job.s, out.content, 0..(size - 1), size)

-----------------------------------------------------------------------------
(* Sequences of bytes                                                          *)

LEMMA ConcatFacts ==
    ASSUME NEW c \in Seq(Int), NEW d \in Seq(Int), NEW n \in Nat, NEW m \in Nat,
           n = Len(c), m = Len(d)
    PROVE  /\ c \o d \in Seq(Int) /\ Len(c \o d) = n + m
           /\ \A i \in 1..n : (c \o d)[i] = c[i]
           /\ \A i \in 1..m : (c \o d)[n + i] = d[i]
<1>1. /\ c \o d \in Seq(Int) /\ Len(c \o d) = Len(c) + Len(d)
      /\ \A i \in 1..Len(c) + Len(d) :
            (c \o d)[i] = IF i <= Len(c) THEN c[i] ELSE d[i - Len(c)]
  BY ConcatProperties
<1>2. \A i \in 1..(n + m) : (c \o d)[i] = IF i <= n THEN c[i] ELSE d[i - n]
  BY <1>1
<1>3. ASSUME NEW i \in 1..n PROVE (c \o d)[i] = c[i]
  <2>1. i \in 1..(n + m) /\ i <= n
    OBVIOUS
  <2> QED BY <1>2, <2>1
<1>4. ASSUME NEW i \in 1..m PROVE (c \o d)[n + i] = d[i]
  <2>1. n + i \in 1..(n + m) /\ ~(n + i <= n) /\ (n + i) - n = i
    OBVIOUS
  <2> QED BY <1>2, <2>1
<1> QED BY <1>1, <1>3, <1>4

LEMMA ConcatHas ==
    ASSUME NEW c \in Seq(Int), NEW d \in Seq(Int), NEW i \in 1..Len(d)
    PROVE  (c \o d)[Len(c) + i] = d[i]
BY ConcatFacts

\* What is written at the end of a file is appended to it.
LEMMA OverlayAppends ==
    ASSUME NEW c \in Seq(Int), NEW d \in Seq(Int), NEW n \in Nat, n = Len(c)
    PROVE  Overlay(c, n, d) = c \o d
<1> DEFINE o == Overlay(c, n, d)  e == c \o d
<1>1. PICK m \in Nat : m = Len(d)
  OBVIOUS
<1>2. CASE d = <<>>
  BY <1>2 DEF Overlay
<1>3. CASE d # <<>>
  <2>1. m > 0 /\ Greater(Len(c), n + Len(d)) = n + m
    BY <1>1, <1>3 DEF Greater
  <2>2. /\ o \in Seq(Int) /\ Len(o) = Greater(Len(c), n + Len(d))
        /\ \A i \in 1..Greater(Len(c), n + Len(d)) :
              o[i] = IF n < i /\ i <= n + Len(d) THEN d[i - n]
                     ELSE IF i <= Len(c) THEN c[i] ELSE Hole
    BY <1>3, OverlayFacts
  <2>3. /\ Len(o) = n + m
        /\ \A i \in 1..(n + m) :
              o[i] = IF n < i /\ i <= n + m THEN d[i - n]
                     ELSE IF i <= n THEN c[i] ELSE Hole
    BY <1>1, <2>1, <2>2
  <2>4. /\ e \in Seq(Int) /\ Len(e) = n + m
        /\ \A i \in 1..n : e[i] = c[i]
        /\ \A i \in 1..m : e[n + i] = d[i]
    BY <1>1, ConcatFacts
  <2> HIDE DEF o, e
  <2>5. ASSUME NEW i \in 1..(n + m) PROVE o[i] = e[i]
    <3>1. i \in Int /\ i <= n + m
      BY <1>1
    <3>2. CASE i <= n
      <4>1. i \in 1..n
        BY <3>2
      <4> QED BY <2>3, <2>4, <3>1, <3>2, <4>1 DEF Hole
    <3>3. CASE i > n
      <4>1. PICK j \in 1..m : i = n + j
        <5>1. i - n \in 1..m /\ i = n + (i - n)
          BY <1>1, <3>1, <3>3
        <5> QED BY <5>1
      <4>2. o[i] = d[i - n]
        BY <2>3, <3>1, <3>3 DEF Hole
      <4>3. i - n = j
        BY <4>1
      <4> QED BY <2>4, <4>1, <4>2, <4>3
    <3> QED BY <3>1, <3>2, <3>3
  <2>6. \A i \in 1..Len(o) : o[i] = e[i]
    BY <2>3, <2>5
  <2>7. o = e
    BY <2>2, <2>3, <2>4, <2>6, SeqEqual
  <2> QED BY <2>7 DEF o, e
<1> QED BY <1>2, <1>3

\* A copy of the first n bytes grows by the next ones.
LEMMA CopyGrows ==
    ASSUME NEW n \in Nat, NEW m \in Nat
    PROVE  Overlay(Bytes(0, n), n, Bytes(n, m)) = Bytes(0, n + m)
<1>1. /\ Bytes(0, n) \in Seq(Nat) /\ Len(Bytes(0, n)) = n
      /\ Bytes(n, m) \in Seq(Nat)
  BY BytesFacts
<1>2. Bytes(0, n) \in Seq(Int) /\ Bytes(n, m) \in Seq(Int)
  BY <1>1
<1>3. Overlay(Bytes(0, n), n, Bytes(n, m)) = Bytes(0, n) \o Bytes(n, m)
  BY <1>1, <1>2, OverlayAppends
<1>4. Bytes(0, n) \o Bytes(0 + n, m) = Bytes(0, n + m)
  BY BytesConcat
<1>5. 0 + n = n
  OBVIOUS
<1> QED BY <1>3, <1>4, <1>5

LEMMA OneByte ==
    ASSUME NEW p \in Nat
    PROVE  Bytes(p, 1) = <<p>>
<1> DEFINE b == Bytes(p, 1)
<1>1. 1 \in Nat /\ 1 \in 1..1 /\ p \in Nat
  OBVIOUS
<1>2. b \in Seq(Nat) /\ Len(b) = 1 /\ \A i \in 1..1 : b[i] = p + i - 1
  BY <1>1, BytesFacts
<1> HIDE DEF b
<1>3. <<p>> \in Seq(Nat) /\ Len(<<p>>) = 1 /\ <<p>>[1] = p
  BY <1>1
<1>4. \A i \in 1..Len(b) : b[i] = <<p>>[i]
  BY <1>1, <1>2, <1>3
<1>5. b = <<p>>
  BY <1>2, <1>3, <1>4, SeqEqual
<1> QED BY <1>5 DEF b

LEMMA NoBytes ==
    ASSUME NEW p \in Nat
    PROVE  Bytes(p, 0) = <<>>
<1>1. Bytes(p, 0) \in Seq(Nat) /\ Len(Bytes(p, 0)) = 0
  <2>1. 0 \in Nat
    OBVIOUS
  <2> QED BY <2>1, BytesFacts
<1> QED BY <1>1

LEMMA ConcatIs ==
    ASSUME NEW c \in Seq(Int), NEW d \in Seq(Int), NEW e \in Seq(Int),
           NEW n \in Nat, NEW m \in Nat, n = Len(c), m = Len(d), Len(e) = n + m,
           \A i \in 1..n : e[i] = c[i], \A i \in 1..m : e[n + i] = d[i]
    PROVE  c \o d = e
<1> DEFINE o == c \o d
<1>1. /\ o \in Seq(Int) /\ Len(o) = n + m
      /\ \A i \in 1..n : o[i] = c[i]
      /\ \A i \in 1..m : o[n + i] = d[i]
  BY ConcatFacts
<1> HIDE DEF o
<1>2. ASSUME NEW i \in 1..(n + m) PROVE o[i] = e[i]
  <2>1. i \in 1..n \/ (i - n \in 1..m /\ i = n + (i - n))
    OBVIOUS
  <2>2. CASE i \in 1..n
    BY <1>1, <2>2
  <2>3. CASE i \notin 1..n
    <3>1. PICK j \in 1..m : i = n + j
      BY <2>1, <2>3
    <3> QED BY <1>1, <3>1
  <2> QED BY <2>2, <2>3
<1>3. \A i \in 1..Len(o) : o[i] = e[i]
  BY <1>1, <1>2
<1>4. o = e
  BY <1>1, <1>3, SeqEqual
<1> QED BY <1>4 DEF o

LEMMA OneAppended ==
    ASSUME NEW c \in Seq(Int), NEW n \in Nat, n = Len(c), NEW x \in Int,
           NEW e \in Seq(Int), Len(e) = n + 1,
           \A i \in 1..n : e[i] = c[i], e[n + 1] = x
    PROVE  Overlay(c, n, <<x>>) = e
<1>1. PICK m \in Nat : m = 1
  OBVIOUS
<1>2. PICK d \in Seq(Int) : d = <<x>>
  <2>1. <<x>> \in Seq(Int)
    OBVIOUS
  <2> QED BY <2>1
<1>3. m = Len(d) /\ Len(e) = n + m /\ \A i \in 1..m : e[n + i] = d[i]
  BY <1>1, <1>2
<1>4. c \o d = e
  BY <1>3, ConcatIs
<1> QED BY <1>2, <1>4, OverlayAppends

LEMMA BackwardsGrows ==
    ASSUME NEW total \in Nat, NEW n \in Nat
    PROVE  /\ Backwards(total, n) \in Seq(Int) /\ Len(Backwards(total, n)) = n
           /\ Overlay(Backwards(total, n), n, <<total - n - 1>>) = Backwards(total, n + 1)
<1> DEFINE c == Backwards(total, n)  x == total - n - 1  e == Backwards(total, n + 1)
<1>1. c \in Seq(Int) /\ Len(c) = n /\ \A i \in 1..n : c[i] = total - i
  BY DEF Backwards
<1>2. e \in Seq(Int) /\ Len(e) = n + 1 /\ \A i \in 1..(n + 1) : e[i] = total - i
  BY DEF Backwards
<1>3. x \in Int /\ x = total - (n + 1)
  OBVIOUS
<1> HIDE DEF c, x, e
<1>4. (\A i \in 1..n : e[i] = c[i]) /\ e[n + 1] = x
  BY <1>1, <1>2, <1>3
<1>5. Overlay(c, n, <<x>>) = e
  BY <1>1, <1>2, <1>3, <1>4, OneAppended
<1> QED BY <1>1, <1>5 DEF c, x, e

-----------------------------------------------------------------------------
(* The files of the programs                                                   *)

LEMMA JobFacts ==
    ASSUME FilesInv
    PROVE  /\ job.program \in Programs
           /\ job.b \in Nat \ {0} /\ job.s \in Nat \ {0}
           /\ job.program \in Striding => job.b <= job.s
           /\ size \in Nat /\ input.kind \in {"file", "pipe"}
           /\ job.program # "cat61" => input.kind = "file" /\ input.ended
           /\ got \in Seq(Nat)
           /\ Content \in Seq(Int) /\ Position \in Nat
           /\ call.op # "read" => Consumed \in Nat
           /\ call.op = "read" => input.kind = "file"
           /\ v \in LocalsType
<1>1. /\ job \in Jobs /\ ReaderInv /\ WriterInv /\ input.kind = job.input.kind
      /\ v \in LocalsType
  BY DEF FilesInv
<1>2. /\ job.program \in Programs
      /\ job.b \in Nat \ {0} /\ job.s \in Nat \ {0}
      /\ job.program \in Striding => job.b <= job.s
      /\ job.input = File(job.input.bytes) \/ (job.program = "cat61" /\ job.input = EmptyPipe)
  BY <1>1, JobAssumption DEF Striding
<1>3. job.program # "cat61" => input.kind = "file"
  BY <1>1, <1>2 DEF File
<1>4. input \in InputType /\ got \in Seq(Nat) /\ (input.kind = "file" => input.ended)
  BY <1>1 DEF ReaderInv
<1>5. size \in Nat /\ input.kind \in {"file", "pipe"}
  BY <1>4 DEF InputType, size
<1>6. call.op # "read" => Consumed \in Nat
  BY <1>1, ConsumedIsAt DEF ReaderInv
<1>7. call.op = "read" => input.kind = "file"
  BY <1>1 DEF ReaderInv, Reading
<1> QED BY <1>1, <1>2, <1>3, <1>4, <1>5, <1>6, <1>7, FlushFacts

LEMMA FilesStep ==
    ASSUME FilesInv, ReaderInv', WriterInv', job' = job, v' \in LocalsType,
           job.program \notin Striding => v'.block_size = v.block_size,
           input'.kind = input.kind,
           input.kind = "file" => input'.bytes = input.bytes,
           call'.op = "read" => pc' = "check",
           pc' # "done" => call'.op \in {"none", "read"}
    PROVE  FilesInv'
BY DEF FilesInv, size

\* A program that only reads, and one that only writes.
LEMMA OnlyReads ==
    ASSUME FilesInv, ReaderInv', NoOut, job' = job, v' = v,
           input'.kind = input.kind,
           input.kind = "file" => input'.bytes = input.bytes,
           call'.op = "read" => pc' = "check",
           pc' # "done" => call'.op \in {"none", "read"}
    PROVE  FilesInv' /\ Content' = Content /\ Position' = Position
<1>1. WriterInv' /\ Content' = Content /\ Position' = Position
  BY WriterStill DEF FilesInv, NoOut
<1>2. v' \in LocalsType
  BY DEF FilesInv
<1> QED BY <1>1, <1>2, FilesStep

LEMMA OnlyWrites ==
    ASSUME FilesInv, WriterInv', NoIn, job' = job, v' \in LocalsType,
           job.program \notin Striding => v'.block_size = v.block_size,
           call.op = "none", pc' # "done"
    PROVE  FilesInv' /\ Consumed' = Consumed /\ got' = got /\ call' = call /\ input' = input
<1>1. ReaderInv' /\ Consumed' = Consumed
  BY ReaderStill DEF FilesInv, NoIn
<1>2. got' = got /\ call' = call /\ input' = input
  BY DEF NoIn, readerVars
<1> QED BY <1>1, <1>2, FilesStep

\* The rounds of a read.
LEMMA Continues ==
    ASSUME FilesInv, ContinueRead
    PROVE  /\ FilesInv' /\ Content' = Content /\ Position' = Position
           /\ call.op = "read" /\ call.sz \in Nat \ {0} /\ pc = "check" /\ pc' = pc
           /\ job' = job /\ v' = v
           /\ input' = input /\ input.ended
           /\ Consumed \in Nat /\ Consumed <= size
           /\ \/ /\ call'.op = "read" /\ call'.sz = call.sz
                 /\ got' = got /\ Consumed' = Consumed
              \/ /\ call'.op = "none"
                 /\ got' = Bytes(Consumed, Lesser(call.sz, size - Consumed))
                 /\ Consumed' = Consumed + Lesser(call.sz, size - Consumed)
<1>1. ReadRound /\ pc' = pc /\ job' = job /\ NoOut /\ v' = v /\ ReaderInv
  BY DEF ContinueRead, Then, FilesInv
<1>2. /\ ReaderInv' /\ call.op = "read" /\ call.sz \in Nat \ {0}
      /\ input' = input /\ input.ended
      /\ Consumed \in Nat /\ Consumed <= size
      /\ \/ /\ call'.op = "read" /\ call'.sz = call.sz
            /\ got' = got /\ Consumed' = Consumed
         \/ /\ call'.op = "none"
            /\ got' = Bytes(Consumed, Lesser(call.sz, size - Consumed))
            /\ Consumed' = Consumed + Lesser(call.sz, size - Consumed)
  BY <1>1, RoundReads DEF size
<1>3. pc = "check"
  BY <1>2 DEF FilesInv
<1>4. FilesInv' /\ Content' = Content /\ Position' = Position
  BY <1>1, <1>2, <1>3, OnlyReads
<1> QED BY <1>1, <1>2, <1>3, <1>4

LEMMA Closes ==
    ASSUME FilesInv, Close
    PROVE  /\ FilesInv' /\ pc = "close" /\ pc' = "done"
           /\ job' = job /\ v' = v /\ input' = input /\ out'.content = Content
<1>1. /\ CloseReader /\ CloseWriter /\ pc = "close" /\ pc' = "done"
      /\ job' = job /\ v' = v /\ ReaderInv /\ WriterInv
  BY DEF Close, Then, FilesInv
<1>2. ReaderInv' /\ input' = input /\ call'.op = "closed"
  BY <1>1, CloseReaderStep DEF CloseReader, NoCall
<1>3. WriterInv' /\ out'.content = Content
  BY <1>1, CloseWrites
<1>4. v' \in LocalsType
  BY <1>1 DEF FilesInv
<1> QED BY <1>1, <1>2, <1>3, <1>4, FilesStep

LEMMA Stutters ==
    ASSUME FilesInv, UNCHANGED vars
    PROVE  /\ FilesInv' /\ pc' = pc /\ job' = job /\ v' = v /\ got' = got
           /\ call' = call /\ input' = input /\ out' = out
           /\ Consumed' = Consumed /\ Content' = Content /\ Position' = Position
<1>1. /\ UNCHANGED readerVars /\ UNCHANGED writerVars /\ job' = job /\ pc' = pc /\ v' = v
      /\ call' = call /\ input' = input /\ got' = got /\ out' = out
  BY DEF vars, readerVars, writerVars
<1>2. ReaderInv' /\ WriterInv' /\ Consumed' = Consumed /\ Content' = Content /\ Position' = Position
  BY <1>1, ReaderStill, WriterStill DEF FilesInv
<1>3. v' \in LocalsType
  BY <1>1 DEF FilesInv
<1>4. (call.op = "read" => pc = "check") /\ (pc # "done" => call.op \in {"none", "read"})
  BY DEF FilesInv
<1>5. FilesInv'
  BY <1>1, <1>2, <1>3, <1>4, FilesStep
<1> QED BY <1>1, <1>2, <1>5

\* Only cat61 has a pipe that brings more.
LEMMA Feeds ==
    ASSUME FilesInv, Feeder
    PROVE  /\ FilesInv' /\ job.program = "cat61" /\ ~input.ended
           /\ pc' = pc /\ job' = job /\ v' = v /\ call' = call /\ got' = got
           /\ out' = out /\ size' \in Nat /\ size <= size'
           /\ size' = size \/ size' <= InputBound
           /\ Consumed' = Consumed /\ Content' = Content /\ Position' = Position
<1>1. /\ (\E n \in Nat : Feed(n)) \/ HangUp
      /\ pc' = pc /\ job' = job /\ v' = v /\ NoOut /\ out' = out /\ ReaderInv
  BY ChunkAssumption DEF Feeder, NoOut, writerVars, FilesInv
<1>2. /\ ReaderInv' /\ input.kind = "pipe" /\ ~input.ended
      /\ input'.kind = "pipe" /\ input.bytes <= input'.bytes
      /\ call' = call /\ got' = got /\ Consumed' = Consumed
  BY <1>1, FeedsNothing
<1>3. (call.op = "read" => pc = "check") /\ (pc # "done" => call.op \in {"none", "read"})
  BY DEF FilesInv
<1>4. FilesInv' /\ Content' = Content /\ Position' = Position
  BY <1>1, <1>2, <1>3, OnlyReads
<1>5. job.program = "cat61"
  BY <1>2, JobFacts
<1>6. size' \in Nat
  BY <1>2 DEF ReaderInv, InputType, size
<1>7. size' = size \/ size' <= InputBound
  <2>1. CASE HangUp
    BY <1>1, <2>1 DEF HangUp, size, ReaderInv, InputType
  <2>2. CASE \E n \in ChunkSizes : size + n <= InputBound /\ Feed(n)
    BY <1>1, <2>2 DEF Feed, size, ReaderInv, InputType
  <2> QED BY <2>1, <2>2 DEF Feeder
<1> QED BY <1>1, <1>2, <1>4, <1>5, <1>6, <1>7 DEF size

-----------------------------------------------------------------------------
(* cat61, blockcat61 and randomcat61                                           *)

LEMMA SequentialNext ==
    ASSUME CatMeetsNo255, FilesInv, SequentialInv, Runs(Sequential), [Next]_vars
    PROVE  FilesInv' /\ SequentialInv'
<1> DEFINE P == Position  C == Consumed
<1>1. /\ job.program \in {"cat61", "blockcat61", "randomcat61"}
      /\ ReaderInv /\ WriterInv /\ v.block_size = job.b /\ job.b \in Nat \ {0}
      /\ v \in LocalsType
      /\ size \in Nat /\ got \in Seq(Nat) /\ P \in Nat /\ Content \in Seq(Int)
      /\ (call.op # "read" => C \in Nat) /\ (call.op = "read" => pc = "check")
      /\ job.program # "cat61" => input.kind = "file" /\ input.ended
      /\ (pc # "done" => call.op \in {"none", "read"})
  BY JobFacts DEF FilesInv, Runs, Sequential, Striding
<1>2. /\ pc \in {"top", "check", "close", "done"}
      /\ pc # "done" => C <= size /\ Content = Bytes(0, P)
      /\ pc \in {"top", "close"} \/ call.op = "read" => P = C
      /\ pc = "check" /\ call.op = "none" =>
            /\ P + Len(got) = C
            /\ got = Bytes(P, Len(got))
            /\ got = <<>> => input.ended /\ C = size
      /\ pc = "check" /\ Runs({"cat61"}) => call.op = "none" /\ Len(got) <= 1
      /\ Runs({"cat61"}) => \A p \in Byte255 : size <= p
      /\ pc = "close" => input.ended /\ C = size
      /\ pc = "done" => input.ended /\ out.content = Bytes(0, size)
  BY DEF SequentialInv
<1>3. CASE ReadChar
  <2>1. /\ Readc /\ pc = "top" /\ pc' = "check" /\ job' = job /\ v' = v /\ NoOut
        /\ job.program = "cat61"
    BY <1>3 DEF ReadChar, Then, Runs
  <2>2. /\ ReaderInv' /\ call.op = "none" /\ call' = call
        /\ input'.bytes = input.bytes /\ input'.ended = input.ended
        /\ \/ got' = <<>> /\ Consumed' = C /\ input.bytes <= C /\ input.ended
           \/ got' = <<C>> /\ Consumed' = C + 1 /\ C < input.bytes
    <3>1. /\ ReaderInv' /\ call.op = "none" /\ call' = call
          /\ input'.bytes = input.bytes /\ input'.ended = input.ended
          /\ \/ got' = <<>> /\ Consumed' = C /\ input.bytes <= C /\ input.ended
             \/ got' = Returned(C) /\ Consumed' = C + 1 /\ C < input.bytes
      BY <1>1, <2>1, ReadcReads
    <3>2. ASSUME C < input.bytes PROVE Returned(C) = <<C>>
      <4>1. C \in Nat /\ C < size /\ size \in Nat
        BY <1>1, <2>1, <3>1, <3>2 DEF size
      <4>2. \A p \in Byte255 : size <= p
        BY <1>2, <2>1 DEF Runs
      <4>3. C \notin Byte255
        BY <4>1, <4>2
      <4> QED BY <4>3 DEF Returned
    <3> QED BY <3>1, <3>2
  <2>3. size' = size /\ C \in Nat /\ P = C
    BY <1>1, <1>2, <2>1, <2>2 DEF size
  <2>4. input'.kind = input.kind
    BY <2>1 DEF Readc, Refill, Taken
  <2>5. FilesInv' /\ Content' = Content /\ Position' = P
    BY <2>1, <2>2, <2>4, OnlyReads
  <2>6. CASE got' = <<>> /\ Consumed' = C /\ input.bytes <= C /\ input.ended
    <3>1. Bytes(P, 0) = <<>> /\ Len(got') = 0 /\ P + 0 = C /\ C = size
      <4>1. C <= size /\ size <= C
        BY <1>2, <2>1, <2>6 DEF size
      <4> QED BY <1>1, <2>3, <2>6, <4>1, NoBytes
    <3> QED BY <1>2, <2>1, <2>2, <2>3, <2>5, <2>6, <3>1 DEF SequentialInv, Runs
  <2>7. CASE got' = <<C>> /\ Consumed' = C + 1 /\ C < input.bytes
    <3>1. Bytes(P, 1) = <<C>> /\ Len(got') = 1 /\ got' # <<>> /\ C + 1 <= size
      BY <2>3, <2>7, <1>1, OneByte DEF size
    <3> QED BY <1>2, <2>1, <2>2, <2>3, <2>5, <2>7, <3>1 DEF SequentialInv, Runs
  <2> QED BY <2>2, <2>6, <2>7
<1>4. CASE ReadBlock
  <2>1. PICK n \in Amounts : Read(n)
    BY <1>4 DEF ReadBlock
  <2>2. /\ pc = "top" /\ pc' = "check" /\ job' = job /\ v' = v /\ NoOut
        /\ job.program \in {"blockcat61", "randomcat61"}
    BY <1>1, <1>4 DEF ReadBlock, Then, Runs
  <2>3. n \in Nat \ {0}
    BY <1>1, <2>2 DEF Amounts, Runs, Greater
  <2>4. /\ ReaderInv' /\ call.op = "none" /\ input' = input /\ Consumed' = C
        /\ \/ got' = <<>> /\ call'.op = "none" /\ input.bytes <= C /\ input.ended
           \/ call'.op = "read" /\ call'.sz = n
    BY <1>1, <2>1, <2>2, <2>3, ReadBegins
  <2>5. FilesInv' /\ Content' = Content /\ Position' = P /\ size' = size
    BY <2>2, <2>4, OnlyReads DEF size
  <2>6. C \in Nat /\ P = C /\ C <= size /\ Content = Bytes(0, P) /\ ~(Runs({"cat61"})')
    BY <1>1, <1>2, <2>2, <2>4 DEF Runs
  <2>7. CASE got' = <<>> /\ call'.op = "none" /\ input.bytes <= C /\ input.ended
    <3>1. Bytes(P, 0) = <<>> /\ Len(got') = 0 /\ P + 0 = C /\ C = size
      <4>1. C <= size /\ size <= C
        BY <2>6, <2>7 DEF size
      <4> QED BY <1>1, <2>6, <2>7, <4>1, NoBytes
    <3> QED BY <2>2, <2>4, <2>5, <2>6, <2>7, <3>1 DEF SequentialInv
  <2>8. CASE call'.op = "read" /\ call'.sz = n
    BY <2>2, <2>4, <2>5, <2>6, <2>8 DEF SequentialInv
  <2> QED BY <2>4, <2>7, <2>8
<1>5. CASE ContinueRead
  <2>1. /\ FilesInv' /\ Content' = Content /\ Position' = P
        /\ call.op = "read" /\ call.sz \in Nat \ {0} /\ pc = "check" /\ pc' = pc
        /\ job' = job /\ input' = input /\ input.ended
        /\ C \in Nat /\ C <= size
        /\ \/ call'.op = "read" /\ got' = got /\ Consumed' = C
           \/ /\ call'.op = "none"
              /\ got' = Bytes(C, Lesser(call.sz, size - C))
              /\ Consumed' = C + Lesser(call.sz, size - C)
    BY <1>5, Continues
  <2>2. /\ size' = size /\ ~(Runs({"cat61"})')
        /\ P = C /\ Content = Bytes(0, P)
    BY <1>2, <2>1 DEF size, Runs
  <2>3. CASE call'.op = "read" /\ got' = got /\ Consumed' = C
    BY <2>1, <2>2, <2>3 DEF SequentialInv
  <2>4. CASE /\ call'.op = "none"
             /\ got' = Bytes(C, Lesser(call.sz, size - C))
             /\ Consumed' = C + Lesser(call.sz, size - C)
    <3>1. PICK n \in Nat : /\ n = Lesser(call.sz, size - C)
                           /\ n <= size - C /\ (n = 0 => C = size)
      <4>1. Lesser(call.sz, size - C) \in Nat
        BY <1>1, <2>1 DEF Lesser
      <4>2. Lesser(call.sz, size - C) = 0 => C = size
        BY <1>1, <2>1 DEF Lesser
      <4>3. Lesser(call.sz, size - C) <= size - C
        BY <1>1, <2>1 DEF Lesser
      <4> QED BY <4>1, <4>2, <4>3
    <3>2. got' = Bytes(P, n) /\ Len(got') = n /\ Consumed' = C + n
      BY <2>1, <2>2, <2>4, <3>1, BytesFacts
    <3>3. Consumed' <= size /\ (n = 0 => Consumed' = size)
      BY <1>1, <2>1, <3>1, <3>2
    <3>4. got' = <<>> => n = 0
      BY <3>2
    <3> QED BY <2>1, <2>2, <2>4, <3>2, <3>3, <3>4 DEF SequentialInv
  <2> QED BY <2>1, <2>3, <2>4
<1>6. CASE AtEnd
  <2>1. /\ pc = "check" /\ call.op = "none" /\ got = <<>> /\ pc' = "close" /\ job' = job
        /\ v' = v /\ NoIn /\ NoOut
    BY <1>6 DEF AtEnd, Then
  <2>2. /\ ReaderInv' /\ Consumed' = C /\ call' = call /\ input' = input
    BY <1>1, <2>1, ReaderStill DEF NoIn, readerVars
  <2>3. FilesInv' /\ Content' = Content /\ Position' = P
    BY <2>1, <2>2, OnlyReads
  <2>4. size' = size /\ P + Len(got) = C /\ Len(got) = 0 /\ input.ended /\ C = size
    BY <1>2, <2>1, <2>2 DEF size
  <2>5. P = C
    BY <1>1, <2>4
  <2> QED BY <1>2, <2>1, <2>2, <2>3, <2>4, <2>5 DEF SequentialInv, Runs
<1>7. CASE WriteChar \/ WriteBlock
  <2>1. /\ pc = "check" /\ pc' = "top" /\ job' = job /\ v' = v /\ NoIn /\ got # <<>>
        /\ call.op = "none" /\ got = Bytes(P, Len(got)) /\ P + Len(got) = C
        /\ C <= size /\ Content = Bytes(0, P)
    BY <1>1, <1>2, <1>7 DEF WriteChar, WriteBlock, Then, Runs
  <2>2. got \in Seq(Int) /\ Len(got) \in Nat
    BY <1>1
  <2>3. /\ WriterInv' /\ Content' = Overlay(Content, P, got) /\ Position' = P + Len(got)
    <3>1. CASE WriteBlock
      BY <1>1, <2>2, <3>1, WriteStep DEF WriteBlock
    <3>2. CASE WriteChar
      <4>1. Writec(got[1]) /\ Len(got) = 1
        <5>1. Writec(got[1]) /\ Len(got) <= 1
          BY <1>2, <2>1, <3>2 DEF WriteChar
        <5>2. got # <<>> => Len(got) # 0
          BY <2>2
        <5>3. Len(got) \in Int /\ Len(got) >= 0
          BY <2>2
        <5>4. got # <<>>
          BY <2>1
        <5>5. ASSUME NEW n \in Int, n <= 1, n >= 0, n # 0 PROVE n = 1
          BY <5>5
        <5>6. Len(got) # 0 /\ Len(got) <= 1
          BY <5>1, <5>2, <5>4
        <5>7. Len(got) = 1
          BY <5>3, <5>5, <5>6
        <5> QED BY <5>1, <5>7
      <4>2. got[1] \in Int /\ got = <<got[1]>>
        BY <2>2, <4>1
      <4> QED BY <1>1, <4>1, <4>2, WritecStep
    <3> QED BY <1>7, <3>1, <3>2
  <2>4. FilesInv' /\ Consumed' = C /\ call' = call /\ input' = input
    BY <1>1, <2>1, <2>3, OnlyWrites
  <2>5. Content' = Bytes(0, P + Len(got))
    BY <1>1, <2>1, <2>2, <2>3, CopyGrows
  <2> QED BY <2>1, <2>3, <2>4, <2>5 DEF SequentialInv, Runs, size
<1>8. CASE Close
  <2>1. /\ FilesInv' /\ pc = "close" /\ pc' = "done" /\ job' = job /\ input' = input
        /\ out'.content = Content
    BY <1>8, Closes
  <2>2. call'.op # "read"
    BY <2>1 DEF FilesInv
  <2> QED BY <1>2, <2>1, <2>2 DEF SequentialInv, Runs, size
<1>9. CASE Feeder
  <2>1. /\ FilesInv' /\ ~input.ended /\ pc' = pc /\ job' = job /\ call' = call /\ got' = got
        /\ out' = out /\ size' \in Nat /\ size <= size'
        /\ Consumed' = C /\ Content' = Content /\ Position' = P
    BY <1>9, Feeds
  <2>2. call.op # "read" /\ C \in Nat
    <3>1. job.program = "cat61"
      BY <1>9, Feeds
    <3> QED BY <1>1, <1>2, <3>1 DEF Runs
  <2>3. C <= size => C <= size'
    BY <1>1, <2>1, <2>2
  <2>4. \A p \in Byte255 : size' <= p
    <3>1. size' = size \/ size' <= InputBound
      BY <1>9, Feeds
    <3>2. job \in Jobs /\ job.program = "cat61"
      BY <1>9, Feeds DEF FilesInv
    <3>3. \A p \in Byte255 : p \in Nat /\ size <= p /\ InputBound <= p
      BY <1>2, <3>2, ByteAssumption DEF Runs, CatMeetsNo255
    <3> QED BY <1>1, <2>1, <3>1, <3>3, ChunkAssumption
  <2> QED BY <1>2, <2>1, <2>2, <2>3, <2>4 DEF SequentialInv, Runs
<1>10. CASE Exited \/ UNCHANGED vars
  <2>1. UNCHANGED vars
    BY <1>10 DEF Exited
  <2>2. /\ FilesInv' /\ pc' = pc /\ job' = job /\ got' = got
        /\ call' = call /\ input' = input /\ out' = out
        /\ Consumed' = C /\ Content' = Content /\ Position' = P
    BY <2>1, Stutters
  <2> QED BY <1>2, <2>2 DEF SequentialInv, Runs, size
<1>11. /\ ~(WriteStride \/ SeekStride \/ SeekBack \/ ReadBack \/ WriteBack)
       /\ ~(SeekRandom \/ ReadRandom \/ SeekSame \/ WriteSame \/ AllDone)
  <2>1. /\ ~(WriteStride \/ SeekBack \/ SeekRandom \/ SeekSame \/ AllDone)
    BY <1>1 DEF WriteStride, SeekBack, SeekRandom, SeekSame, AllDone, Runs
  <2>2. ~(SeekStride \/ ReadBack \/ WriteBack \/ ReadRandom \/ WriteSame)
    BY <1>2 DEF SeekStride, ReadBack, WriteBack, ReadRandom, WriteSame
  <2> QED BY <2>1, <2>2
<1> QED BY <1>3, <1>4, <1>5, <1>6, <1>7, <1>8, <1>9, <1>10, <1>11 DEF Next, Program

-----------------------------------------------------------------------------
(* reverse61                                                                   *)

LEMMA ReverseNext ==
    ASSUME FilesInv, ReverseInv, Runs({"reverse61"}), [Next]_vars
    PROVE  FilesInv' /\ ReverseInv'
<1> DEFINE P == Position  C == Consumed
<1>1. /\ job.program = "reverse61"
      /\ ReaderInv /\ WriterInv
      /\ v \in LocalsType
      /\ size \in Nat /\ P \in Nat /\ Content \in Seq(Int)
      /\ input.kind = "file"
  BY JobFacts DEF FilesInv, Runs
<1>2. /\ pc \in {"top", "readc", "writec", "close", "done"}
      /\ v.in_size \in 0..size
      /\ pc # "done" => Content = Backwards(size, P)
      /\ pc = "top" => P = size - v.in_size
      /\ pc \in {"readc", "writec"} => v.in_size < size /\ P = size - v.in_size - 1
      /\ pc = "readc" => C = v.in_size
      /\ pc = "writec" => got = Returned(v.in_size)
      /\ pc = "close" => P = size
      /\ pc = "done" => out.content = Backwards(size, size)
  BY DEF ReverseInv
<1>3. /\ call.op # "read" /\ (pc # "done" => call.op = "none")
  BY <1>2 DEF FilesInv
<1>4. CASE SeekBack
  <2>1. /\ Seek(v.in_size - 1) /\ pc = "top" /\ v.in_size # 0
        /\ v' = [v EXCEPT !.in_size = v.in_size - 1]
        /\ pc' = "readc" /\ job' = job /\ NoOut
    BY <1>4 DEF SeekBack, Then
  <2>2. v.in_size - 1 \in Nat /\ v.in_size - 1 < size
    BY <1>1, <1>2, <2>1
  <2>3. ReaderInv' /\ call' = call /\ input' = input /\ Consumed' = v.in_size - 1
    BY <1>1, <2>1, <2>2, SeekMoves
  <2>4. WriterInv' /\ Content' = Content /\ Position' = P
    BY <1>1, <2>1, WriterStill DEF NoOut
  <2>5. v' \in LocalsType /\ v'.in_size = v.in_size - 1 /\ v'.block_size = v.block_size
    BY <1>1, <2>1, <2>2 DEF LocalsType
  <2>6. FilesInv'
    BY <1>3, <2>1, <2>3, <2>4, <2>5, FilesStep
  <2>7. P = size - (v.in_size - 1) - 1 /\ v.in_size - 1 \in 0..size
    <3>1. ASSUME NEW k \in 0..size, P = size - k, k # 0
          PROVE  P = size - (k - 1) - 1 /\ k - 1 \in 0..size
      BY <1>1, <3>1
    <3> QED BY <1>2, <2>1, <3>1
  <2> QED BY <1>2, <2>1, <2>2, <2>3, <2>4, <2>5, <2>6, <2>7 DEF ReverseInv, size
<1>5. CASE ReadBack
  <2>1. Readc /\ pc = "readc" /\ pc' = "writec" /\ job' = job /\ v' = v /\ NoOut
    BY <1>5 DEF ReadBack, Then
  <2>2. /\ ReaderInv' /\ call' = call
        /\ input'.bytes = input.bytes
        /\ \/ input.bytes <= C
           \/ got' = Returned(C) /\ Consumed' = C + 1
    BY <1>1, <2>1, ReadcReads
  <2>3. C = v.in_size /\ v.in_size < size /\ ~(input.bytes <= C)
    BY <1>1, <1>2, <2>1 DEF size
  <2>4. input'.kind = input.kind
    BY <2>1 DEF Readc, Refill, Taken
  <2>5. FilesInv' /\ Content' = Content /\ Position' = P
    BY <1>3, <2>1, <2>2, <2>4, OnlyReads
  <2>6. size' = size /\ got' = Returned(v.in_size)
    BY <2>2, <2>3 DEF size
  <2> QED BY <1>2, <2>1, <2>5, <2>6 DEF ReverseInv
<1>6. CASE WriteBack
  <2>1. Writec(Char) /\ pc = "writec" /\ pc' = "top" /\ job' = job /\ v' = v /\ NoIn
    BY <1>6 DEF WriteBack, Then
  <2>2. Char = v.in_size /\ v.in_size \in Int
    BY <1>1, <1>2, <2>1 DEF Char, Returned
  <2>3. /\ WriterInv' /\ Content' = Overlay(Content, P, <<v.in_size>>) /\ Position' = P + 1
    <3>1. /\ WriterInv' /\ Content' = Overlay(Content, P, <<v.in_size>>)
          /\ Position' = P + Len(<<v.in_size>>)
      BY <1>1, <2>1, <2>2, WritecStep
    <3> QED BY <3>1
  <2>4. v' \in LocalsType
    BY <1>1, <2>1
  <2>5. FilesInv' /\ input' = input
    BY <1>3, <2>1, <2>3, <2>4, OnlyWrites
  <2>6. v.in_size = size - P - 1 /\ P + 1 = size - v.in_size
    <3>1. ASSUME NEW k \in Int, P = size - k - 1
          PROVE  k = size - P - 1 /\ P + 1 = size - k
      BY <1>1, <3>1
    <3> QED BY <1>2, <2>1, <2>2, <3>1
  <2>7. Content' = Backwards(size, P + 1)
    BY <1>1, <1>2, <2>1, <2>3, <2>6, BackwardsGrows
  <2> QED BY <1>2, <2>1, <2>3, <2>5, <2>6, <2>7 DEF ReverseInv, size
<1>7. CASE AllDone
  <2>1. /\ pc = "top" /\ v.in_size = 0 /\ pc' = "close" /\ job' = job /\ v' = v /\ NoIn /\ NoOut
    BY <1>1, <1>7 DEF AllDone, Then, Runs
  <2>2. ReaderInv' /\ Consumed' = C /\ call' = call /\ input' = input
    BY <1>1, <2>1, ReaderStill DEF NoIn, readerVars
  <2>3. FilesInv' /\ Content' = Content /\ Position' = P
    BY <1>3, <2>1, <2>2, OnlyReads
  <2>4. P = size
    BY <1>1, <1>2, <2>1
  <2> QED BY <1>2, <2>1, <2>2, <2>3, <2>4 DEF ReverseInv, size
<1>8. CASE Close
  <2>1. /\ FilesInv' /\ pc = "close" /\ pc' = "done" /\ v' = v /\ input' = input
        /\ out'.content = Content
    BY <1>8, Closes
  <2> QED BY <1>2, <2>1 DEF ReverseInv, size
<1>9. CASE Exited \/ UNCHANGED vars
  <2>1. UNCHANGED vars
    BY <1>9 DEF Exited
  <2>2. /\ FilesInv' /\ pc' = pc /\ v' = v /\ got' = got /\ input' = input /\ out' = out
        /\ Consumed' = C /\ Content' = Content /\ Position' = P
    BY <2>1, Stutters
  <2> QED BY <1>2, <2>2 DEF ReverseInv, size
<1>10. ~(ContinueRead \/ Feeder)
  BY <1>1, <1>3, Continues, Feeds
<1>11. ~(ReadChar \/ ReadBlock \/ AtEnd \/ WriteChar \/ WriteBlock \/ WriteStride)
  <2>1. ~(ReadChar \/ ReadBlock)
    BY <1>1 DEF ReadChar, ReadBlock, Runs
  <2>2. ~(AtEnd \/ WriteChar \/ WriteBlock \/ WriteStride)
    BY <1>2 DEF AtEnd, WriteChar, WriteBlock, WriteStride
  <2> QED BY <2>1, <2>2
<1>12. ~(SeekStride \/ SeekRandom \/ ReadRandom \/ SeekSame \/ WriteSame)
  <2>1. ~(SeekStride \/ ReadRandom \/ WriteSame)
    BY <1>2 DEF SeekStride, ReadRandom, WriteSame
  <2>2. ~(SeekRandom \/ SeekSame)
    BY <1>1 DEF SeekRandom, SeekSame, Runs
  <2> QED BY <2>1, <2>2
<1> QED BY <1>4, <1>5, <1>6, <1>7, <1>8, <1>9, <1>10, <1>11, <1>12 DEF Next, Program

-----------------------------------------------------------------------------
(* reordercat61                                                                *)

\* What is written anywhere stands there, and the rest stays.
LEMMA OverlayAt ==
    ASSUME NEW c \in Seq(Int), NEW p \in Nat, NEW d \in Seq(Int), d # <<>>
    PROVE  /\ Overlay(c, p, d) \in Seq(Int)
           /\ Len(Overlay(c, p, d)) = Greater(Len(c), p + Len(d))
           /\ \A q \in Nat : p <= q /\ q < p + Len(d)
                                => Overlay(c, p, d)[q + 1] = d[q - p + 1]
           /\ \A q \in Nat : q < Len(c) /\ ~(p <= q /\ q < p + Len(d))
                                => Overlay(c, p, d)[q + 1] = c[q + 1]
<1>1. PICK n \in Nat, m \in Nat : n = Len(c) /\ m = Len(d)
  OBVIOUS
<1> DEFINE o == Overlay(c, p, d)  k == Greater(n, p + m)
<1>2. /\ o \in Seq(Int) /\ Len(o) = Greater(Len(c), p + Len(d))
      /\ \A i \in 1..Greater(Len(c), p + Len(d)) :
            o[i] = IF p < i /\ i <= p + Len(d) THEN d[i - p]
                   ELSE IF i <= Len(c) THEN c[i] ELSE Hole
  BY OverlayFacts
<1>3. /\ Len(o) = k
      /\ \A i \in 1..k :
            o[i] = IF p < i /\ i <= p + m THEN d[i - p] ELSE IF i <= n THEN c[i] ELSE Hole
  BY <1>1, <1>2
<1>4. k \in Nat /\ n <= k /\ p + m <= k
  BY DEF Greater
<1> HIDE DEF o, k
<1>5. ASSUME NEW q \in Nat, p <= q, q < p + m PROVE o[q + 1] = d[q - p + 1]
  <2>1. q + 1 \in 1..k /\ p < q + 1 /\ q + 1 <= p + m /\ q + 1 - p = q - p + 1
    BY <1>4, <1>5
  <2> QED BY <1>3, <2>1 DEF Hole
<1>6. ASSUME NEW q \in Nat, q < n, ~(p <= q /\ q < p + m) PROVE o[q + 1] = c[q + 1]
  <2>1. q + 1 \in 1..k /\ ~(p < q + 1 /\ q + 1 <= p + m) /\ q + 1 <= n
    BY <1>4, <1>6
  <2> QED BY <1>3, <2>1 DEF Hole
<1> QED BY <1>1, <1>2, <1>3, <1>5, <1>6 DEF o, k

LEMMA BlockInPlace ==
    ASSUME NEW c \in Seq(Int), NEW p \in Nat, NEW b \in Nat \ {0}
    PROVE  /\ Overlay(c, p, Bytes(p, b)) \in Seq(Int)
           /\ Len(Overlay(c, p, Bytes(p, b))) = Greater(Len(c), p + b)
           /\ \A q \in Nat : (p <= q /\ q < p + b) \/ InPlace(c, q)
                                => InPlace(Overlay(c, p, Bytes(p, b)), q)
<1>1. PICK d \in Seq(Nat) : /\ d = Bytes(p, b) /\ Len(d) = b
                            /\ \A i \in 1..b : d[i] = p + i - 1
  BY BytesFacts
<1>2. PICK n \in Nat : n = Len(c)
  OBVIOUS
<1>3. d \in Seq(Int) /\ b = Len(d)
  BY <1>1
<1> DEFINE o == Overlay(c, p, d)
<1>4. /\ o \in Seq(Int) /\ Len(o) = Greater(Len(c), p + Len(d))
      /\ \A q \in Nat : p <= q /\ q < p + Len(d) => o[q + 1] = d[q - p + 1]
      /\ \A q \in Nat : q < Len(c) /\ ~(p <= q /\ q < p + Len(d)) => o[q + 1] = c[q + 1]
  <2>1. d # <<>>
    BY <1>3
  <2>2. o \in Seq(Int)
    BY <1>3, <2>1, OverlayAt
  <2>3. Len(o) = Greater(Len(c), p + Len(d))
    BY <1>3, <2>1, OverlayAt
  <2>4. \A q \in Nat : p <= q /\ q < p + Len(d) => o[q + 1] = d[q - p + 1]
    BY <1>3, <2>1, OverlayAt
  <2>5. \A q \in Nat : q < Len(c) /\ ~(p <= q /\ q < p + Len(d)) => o[q + 1] = c[q + 1]
    BY <1>3, <2>1, OverlayAt
  <2> QED BY <2>2, <2>3, <2>4, <2>5
<1>5. /\ o \in Seq(Int) /\ Len(o) = Greater(n, p + b)
      /\ \A q \in Nat : p <= q /\ q < p + b => o[q + 1] = d[q - p + 1]
      /\ \A q \in Nat : q < n /\ ~(p <= q /\ q < p + b) => o[q + 1] = c[q + 1]
  BY <1>1, <1>2, <1>4
<1>6. n <= Greater(n, p + b) /\ p + b <= Greater(n, p + b)
  BY DEF Greater
<1> HIDE DEF o
<1>7. ASSUME NEW q \in Nat, (p <= q /\ q < p + b) \/ InPlace(c, q) PROVE InPlace(o, q)
  <2>1. CASE p <= q /\ q < p + b
    <3>1. q - p + 1 \in 1..b /\ p + (q - p + 1) - 1 = q
      BY <2>1
    <3>2. d[q - p + 1] = q
      BY <1>1, <3>1
    <3>3. q < Greater(n, p + b)
      BY <1>6, <2>1 DEF Greater
    <3> QED BY <1>5, <2>1, <3>2, <3>3 DEF InPlace
  <2>2. CASE ~(p <= q /\ q < p + b)
    <3>1. q < n /\ c[q + 1] = q
      BY <1>2, <1>7, <2>2 DEF InPlace
    <3>2. q < Greater(n, p + b)
      BY <1>6, <3>1 DEF Greater
    <3> QED BY <1>5, <2>2, <3>1, <3>2 DEF InPlace
  <2> QED BY <2>1, <2>2
<1> QED BY <1>1, <1>2, <1>5, <1>7 DEF o

\* A file whose bytes all stand in their places is a copy.
LEMMA AllInPlace ==
    ASSUME NEW c \in Seq(Int), NEW n \in Nat, Len(c) <= n,
           \A q \in 0..(n - 1) : InPlace(c, q)
    PROVE  c = Bytes(0, n)
<1> DEFINE d == Bytes(0, n)
<1>1. d \in Seq(Nat) /\ Len(d) = n /\ \A i \in 1..n : d[i] = 0 + i - 1
  BY BytesFacts
<1> HIDE DEF d
<1>2. Len(c) = n
  <2>1. CASE n = 0
    BY <2>1
  <2>2. CASE n # 0
    <3>1. n - 1 \in 0..(n - 1) /\ Len(c) \in Nat
      BY <2>2
    <3>2. n - 1 < Len(c)
      BY <3>1 DEF InPlace
    <3> QED BY <3>1, <3>2
  <2> QED BY <2>1, <2>2
<1>3. ASSUME NEW i \in 1..n PROVE c[i] = d[i]
  <2>1. i - 1 \in 0..(n - 1) /\ (i - 1) + 1 = i /\ 0 + i - 1 = i - 1
    OBVIOUS
  <2>2. c[i] = i - 1
    BY <2>1 DEF InPlace
  <2> QED BY <1>1, <2>1, <2>2
<1>4. \A i \in 1..Len(c) : c[i] = d[i]
  BY <1>2, <1>3
<1>5. c = d
  BY <1>1, <1>2, <1>4, SeqEqual
<1> QED BY <1>5 DEF d

\* Block k is the bytes from k * b on.
LEMMA BlockOf ==
    ASSUME NEW b \in Nat \ {0}, NEW k \in Nat, NEW q \in Nat
    PROVE  /\ q \div b = k <=> k * b <= q /\ q < k * b + b
           /\ (k * b) \div b = k
           /\ k * b \in Nat
<1>1. /\ q \div b \in Nat
      /\ (q \div b) * b + (q % b) = q
      /\ q % b \in 0..(b - 1)
  BY SMTT(30)
<1>2. k * b \in Nat
  OBVIOUS
<1>3. (k * b) \div b = k
  OBVIOUS
<1>4. ASSUME NEW x \in Nat, NEW y \in 0..(b - 1), x * b + y = q,
             k * b <= q, q < k * b + b
      PROVE  x = k
  <2>1. CASE x < k
    <3>1. x + 1 <= k
      BY <2>1
    <3>2. (x + 1) * b <= k * b /\ (x + 1) * b = x * b + b
      BY <3>1
    <3> QED BY <1>4, <3>2
  <2>2. CASE x > k
    <3>1. k + 1 <= x
      BY <2>2
    <3>2. (k + 1) * b <= x * b /\ (k + 1) * b = k * b + b
      BY <3>1
    <3> QED BY <1>4, <3>2
  <2> QED BY <2>1, <2>2
<1>5. q \div b = k => k * b <= q /\ q < k * b + b
  BY <1>1
<1> QED BY <1>1, <1>2, <1>3, <1>4, <1>5

LEMMA ReorderNext ==
    ASSUME FilesInv, ReorderInv, Runs({"reordercat61"}), [Next]_vars
    PROVE  FilesInv' /\ ReorderInv'
<1> DEFINE P == Position  C == Consumed  b == job.b  n == Blocks * b
<1>1. /\ job.program = "reordercat61" /\ b \in Nat \ {0}
      /\ ReaderInv /\ WriterInv
      /\ v \in LocalsType /\ v.block_size = b
      /\ size \in Nat /\ P \in Nat /\ Content \in Seq(Int)
      /\ input.kind = "file"
      /\ (call.op = "read" => pc = "check") /\ (pc # "done" => call.op \in {"none", "read"})
  BY JobFacts DEF FilesInv, Runs, Striding
<1>2. /\ pc \in {"top", "read", "check", "write", "close", "done"}
      /\ v.permute \subseteq 0..(Blocks - 1)
      /\ pc # "done" =>
            /\ Len(Content) <= n
            /\ \A q \in 0..(n - 1) : q \div b \in v.permute \cup InHand \/ InPlace(Content, q)
      /\ pc \in {"read", "check", "write"} => \E k \in 0..(Blocks - 1) : v.pos = k * b
      /\ pc = "read" \/ call.op = "read" => C = v.pos
      /\ call.op = "read" => call.sz = b
      /\ pc = "check" /\ call.op = "none" => got = Bytes(v.pos, b)
      /\ pc = "write" => got = Bytes(v.pos, b) /\ P = v.pos
      /\ pc = "close" => Content = Bytes(0, n)
      /\ pc = "done" => out.content = Bytes(0, n)
  BY DEF ReorderInv
<1>3. /\ Blocks \in Nat /\ n \in Nat /\ n <= size
      /\ \A k \in 0..(Blocks - 1) : /\ k * b \in Nat /\ (k * b) \div b = k
                                    /\ k * b + b <= n
  <2>1. size \div b \in Nat /\ (size \div b) * b \in 0..size
    BY <1>1, WholeCaches
  <2>2. ASSUME NEW m \in Nat, NEW k \in 0..(m - 1)
        PROVE  k * b \in Nat /\ (k * b) \div b = k /\ k * b + b <= m * b
    <3>1. k * b \in Nat /\ (k * b) \div b = k
      BY <1>1, BlockOf
    <3>2. k + 1 <= m /\ (k + 1) * b <= m * b /\ (k + 1) * b = k * b + b
      BY <1>1
    <3> QED BY <3>1, <3>2
  <2> QED BY <2>1, <2>2 DEF Blocks
<1> HIDE DEF n
<1>4. ASSUME pc \in {"read", "check", "write"}
      PROVE  v.pos \in Nat /\ v.pos + b <= n /\ v.pos \div b \in 0..(Blocks - 1)
  BY <1>2, <1>3, <1>4
<1>5. ASSUME job' = job, input' = input PROVE Blocks' = Blocks /\ n' = n
  BY <1>5 DEF Blocks, n, size
<1>6. CASE SeekRandom
  <2>1. PICK i \in v.permute :
           /\ Seek(i * v.block_size)
           /\ v' = [v EXCEPT !.permute = @ \ {i}, !.pos = i * v.block_size]
    BY <1>6 DEF SeekRandom
  <2>2. pc = "top" /\ pc' = "read" /\ job' = job /\ NoOut
    BY <1>6 DEF SeekRandom, Then
  <2>3. i \in 0..(Blocks - 1) /\ i * b \in Nat /\ (i * b) \div b = i
    BY <1>2, <1>3
  <2>4. ReaderInv' /\ call.op = "none" /\ call' = call /\ input' = input /\ Consumed' = i * b
    BY <1>1, <2>1, <2>3, SeekMoves
  <2>5. WriterInv' /\ Content' = Content /\ Position' = P
    BY <1>1, <2>2, WriterStill DEF NoOut
  <2>6. /\ v' \in LocalsType /\ v'.permute = v.permute \ {i} /\ v'.pos = i * b
        /\ v'.block_size = v.block_size
    BY <1>1, <2>1, <2>3 DEF LocalsType
  <2>7. FilesInv'
    BY <2>2, <2>4, <2>5, <2>6, FilesStep
  <2>8. v'.permute \cup InHand' = v.permute \cup InHand
    BY <2>2, <2>3, <2>6 DEF InHand
  <2> QED BY <1>2, <1>5, <2>2, <2>3, <2>4, <2>5, <2>6, <2>7, <2>8 DEF ReorderInv, n
<1>7. CASE ReadRandom
  <2>1. /\ Read(Lesser(v.block_size, size - v.pos)) /\ pc = "read" /\ pc' = "check"
        /\ job' = job /\ v' = v /\ NoOut
    BY <1>7 DEF ReadRandom, Then
  <2>2. v.pos \in Nat /\ v.pos + b <= n /\ C = v.pos
    BY <1>2, <1>4, <2>1
  <2>3. Lesser(v.block_size, size - v.pos) = b /\ v.pos < size
    BY <1>1, <1>3, <2>2 DEF Lesser
  <2>4. Read(b)
    BY <2>1, <2>3
  <2>5. /\ ReaderInv' /\ input' = input /\ Consumed' = C
        /\ input.bytes <= C \/ (call'.op = "read" /\ call'.sz = b)
    BY <1>1, <2>4, ReadBegins
  <2>6. ~(input.bytes <= C)
    BY <1>1, <2>2, <2>3 DEF size
  <2>7. FilesInv' /\ Content' = Content /\ Position' = P
    BY <1>1, <2>1, <2>5, <2>6, OnlyReads
  <2>8. InHand' = InHand
    BY <2>1 DEF InHand
  <2> QED BY <1>2, <1>5, <2>1, <2>2, <2>5, <2>6, <2>7, <2>8 DEF ReorderInv, n
<1>8. CASE ContinueRead
  <2>1. /\ FilesInv' /\ Content' = Content /\ Position' = P
        /\ call.op = "read" /\ pc = "check" /\ pc' = pc
        /\ job' = job /\ v' = v /\ input' = input
        /\ \/ call'.op = "read" /\ call'.sz = call.sz /\ Consumed' = C
           \/ call'.op = "none" /\ got' = Bytes(C, Lesser(call.sz, size - C))
    BY <1>8, Continues
  <2>2. C = v.pos /\ call.sz = b /\ v.pos \in Nat /\ v.pos + b <= n
    BY <1>2, <1>4, <2>1
  <2>3. Lesser(call.sz, size - C) = b
    BY <1>1, <1>3, <2>2 DEF Lesser
  <2>4. InHand' = InHand
    BY <2>1 DEF InHand
  <2> QED BY <1>2, <1>5, <2>1, <2>2, <2>3, <2>4 DEF ReorderInv, n
<1>9. CASE SeekSame
  <2>1. /\ SeekOut(v.pos) /\ pc = "check" /\ call.op = "none" /\ pc' = "write"
        /\ job' = job /\ v' = v /\ NoIn
    BY <1>9 DEF SeekSame, Then
  <2>2. WriterInv' /\ Content' = Content /\ Position' = v.pos
    BY <1>1, <1>4, <2>1, SeekOutMoves
  <2>3. FilesInv' /\ Consumed' = C /\ got' = got /\ call' = call /\ input' = input
    BY <1>1, <2>1, <2>2, OnlyWrites
  <2>4. InHand' = InHand
    BY <2>1 DEF InHand
  <2> QED BY <1>2, <1>5, <2>1, <2>2, <2>3, <2>4 DEF ReorderInv, n
<1>10. CASE WriteSame
  <2>1. Write(got) /\ pc = "write" /\ pc' = "top" /\ job' = job /\ v' = v /\ NoIn
    BY <1>10 DEF WriteSame, Then
  <2>2. /\ got = Bytes(v.pos, b) /\ P = v.pos /\ call.op = "none"
        /\ v.pos \in Nat /\ v.pos + b <= n
    BY <1>1, <1>2, <1>4, <2>1
  <2>3. WriterInv' /\ Content' = Overlay(Content, v.pos, Bytes(v.pos, b))
    <3>1. got \in Seq(Int)
      BY <1>1, JobFacts
    <3> QED BY <1>1, <2>1, <2>2, <3>1, WriteStep
  <2>4. FilesInv' /\ call' = call /\ input' = input
    BY <1>1, <2>1, <2>2, <2>3, OnlyWrites
  <2>5. /\ Len(Content') = Greater(Len(Content), v.pos + b)
        /\ \A q \in Nat : (v.pos <= q /\ q < v.pos + b) \/ InPlace(Content, q)
                             => InPlace(Content', q)
    BY <1>1, <2>2, <2>3, BlockInPlace
  <2>6. Len(Content') <= n
    BY <1>2, <2>1, <2>2, <2>5 DEF Greater
  <2>7. ASSUME NEW q \in 0..(n - 1)
        PROVE  q \div b \in v.permute \/ InPlace(Content', q)
    <3>1. q \in Nat /\ (q \div b \in v.permute \/ q \div b = v.pos \div b \/ InPlace(Content, q))
      BY <1>2, <1>3, <2>1 DEF InHand
    <3>2. PICK k \in 0..(Blocks - 1) : v.pos = k * b
      BY <1>2, <2>1
    <3>3. q \div b = v.pos \div b => v.pos <= q /\ q < v.pos + b
      <4>1. k \in Nat /\ v.pos \div b = k
        BY <1>3, <3>2
      <4>2. q \div b = k <=> k * b <= q /\ q < k * b + b
        BY <1>1, <3>1, <4>1, BlockOf
      <4> QED BY <3>2, <4>1, <4>2
    <3> QED BY <2>5, <3>1, <3>3
  <2>8. InHand' = {}
    BY <2>1 DEF InHand
  <2> QED BY <1>2, <1>5, <2>1, <2>2, <2>4, <2>6, <2>7, <2>8 DEF ReorderInv, n
<1>11. CASE AllDone
  <2>1. /\ pc = "top" /\ v.permute = {} /\ pc' = "close" /\ job' = job /\ v' = v
        /\ NoIn /\ NoOut
    BY <1>1, <1>11 DEF AllDone, Then, Runs
  <2>2. ReaderInv' /\ Consumed' = C /\ call' = call /\ input' = input
    BY <1>1, <2>1, ReaderStill DEF NoIn, readerVars
  <2>3. FilesInv' /\ Content' = Content /\ Position' = P
    BY <1>1, <2>1, <2>2, OnlyReads
  <2>4. \A q \in 0..(n - 1) : InPlace(Content, q)
    BY <1>2, <2>1 DEF InHand
  <2>5. Content = Bytes(0, n)
    BY <1>1, <1>2, <1>3, <2>1, <2>4, AllInPlace
  <2>6. InHand' = InHand
    BY <2>1 DEF InHand
  <2> QED BY <1>1, <1>2, <1>5, <2>1, <2>2, <2>3, <2>5, <2>6 DEF ReorderInv, n
<1>12. CASE Close
  <2>1. /\ FilesInv' /\ pc = "close" /\ pc' = "done" /\ job' = job /\ v' = v
        /\ input' = input /\ out'.content = Content
    BY <1>12, Closes
  <2>2. call'.op # "read"
    BY <2>1 DEF FilesInv
  <2> QED BY <1>2, <1>5, <2>1, <2>2 DEF ReorderInv, n
<1>13. CASE Exited \/ UNCHANGED vars
  <2>1. UNCHANGED vars
    BY <1>13 DEF Exited
  <2>2. /\ FilesInv' /\ pc' = pc /\ job' = job /\ v' = v /\ got' = got
        /\ call' = call /\ input' = input /\ out' = out
        /\ Consumed' = C /\ Content' = Content /\ Position' = P
    BY <2>1, Stutters
  <2>3. InHand' = InHand
    BY <2>2 DEF InHand
  <2> QED BY <1>2, <1>5, <2>2, <2>3 DEF ReorderInv, n
<1>14. ~AtEnd
  <2>1. ASSUME AtEnd PROVE FALSE
    <3>1. pc = "check" /\ call.op = "none" /\ got = <<>>
      BY <2>1 DEF AtEnd
    <3>2. got = Bytes(v.pos, b) /\ v.pos \in Nat
      BY <1>2, <1>4, <3>1
    <3>3. Len(got) = b
      BY <1>1, <3>2, BytesFacts
    <3> QED BY <1>1, <3>1, <3>3
  <2> QED BY <2>1
<1>15. ~(ReadChar \/ ReadBlock \/ WriteChar \/ WriteBlock \/ WriteStride \/ Feeder)
  <2>1. ~(ReadChar \/ ReadBlock \/ WriteChar)
    BY <1>1 DEF ReadChar, ReadBlock, WriteChar, Runs
  <2>2. ~(WriteBlock \/ WriteStride)
    BY <1>1 DEF WriteBlock, WriteStride, Runs
  <2>3. ~Feeder
    BY <1>1, Feeds
  <2> QED BY <2>1, <2>2, <2>3
<1>16. ~(SeekStride \/ SeekBack \/ ReadBack \/ WriteBack)
  <2>1. ~(SeekStride \/ ReadBack \/ WriteBack)
    BY <1>2 DEF SeekStride, ReadBack, WriteBack
  <2>2. ~SeekBack
    BY <1>1 DEF SeekBack, Runs
  <2> QED BY <2>1, <2>2
<1> QED BY <1>6, <1>7, <1>8, <1>9, <1>10, <1>11, <1>12, <1>13, <1>14, <1>15, <1>16
     DEF Next, Program

-----------------------------------------------------------------------------
(* Columns of blocks                                                           *)

LEMMA DivMod ==
    ASSUME NEW q \in Nat, NEW s \in Nat \ {0}
    PROVE  /\ q \div s \in Nat /\ q % s \in 0..(s - 1)
           /\ q = (q \div s) * s + (q % s)
BY SMTT(30)

LEMMA ModIs ==
    ASSUME NEW s \in Nat \ {0}, NEW i \in Nat, NEW r \in 0..(s - 1)
    PROVE  (i * s + r) % s = r
<1>1. PICK q \in Nat : q = i * s + r
  OBVIOUS
<1>2. i * s <= q /\ q < i * s + s
  BY <1>1
<1>3. q \div s = i
  BY <1>2, BlockOf
<1>4. q = (q \div s) * s + (q % s) /\ q % s \in 0..(s - 1)
  BY DivMod
<1>5. q = i * s + (q % s)
  BY <1>3, <1>4
<1>6. ASSUME NEW x \in Int, NEW y \in Int, q = x + r, q = x + y PROVE y = r
  BY <1>6
<1>7. i * s \in Int /\ q % s \in Int
  BY <1>4
<1>8. q % s = r
  BY <1>1, <1>5, <1>6, <1>7
<1> QED BY <1>1, <1>8

\* The column of a byte against the column of a block, by what is to the left.
LEMMA ColumnOrder ==
    ASSUME NEW b \in Nat \ {0}, NEW s \in Nat \ {0}, NEW p \in Nat, (p % s) % b = 0
    PROVE  /\ Column(b, s, p) \in Nat /\ p % s = Column(b, s, p) * b
           /\ Width(b, s, p) \in 1..b /\ (p % s) + Width(b, s, p) <= s
           /\ (p % s) + Width(b, s, p) < s => Width(b, s, p) = b
           /\ \A q \in Nat : /\ Column(b, s, q) \in Nat
                             /\ Column(b, s, q) < Column(b, s, p) <=> q % s < p % s
                             /\ Column(b, s, q) <= Column(b, s, p)
                                   <=> q % s < (p % s) + Width(b, s, p)
<1> DEFINE r == p % s  c == r \div b  W == Width(b, s, p)
<1>1. r \in 0..(s - 1)
  BY DivMod
<1>2. c \in Nat /\ r = c * b
  <2>1. r \in Nat
    BY <1>1
  <2>2. c \in Nat /\ r = c * b + (r % b) /\ r % b = 0
    BY <2>1, DivMod
  <2>3. c * b \in Int
    BY <2>2
  <2> HIDE DEF c
  <2> QED BY <2>2, <2>3
<1>3. W \in 1..b /\ r + W <= s /\ (r + W < s => W = b) /\ W <= b /\ (W = b \/ r + W = s)
  BY <1>1 DEF Width, Lesser
<1>4. ASSUME NEW q \in Nat
      PROVE  /\ (q % s) \div b \in Nat
             /\ (q % s) \div b < c <=> q % s < r
             /\ (q % s) \div b <= c <=> q % s < r + W
  <2> DEFINE x == q % s  k == x \div b
  <2>1. x \in 0..(s - 1)
    BY DivMod
  <2>2. k \in Nat /\ k * b <= x /\ x < k * b + b
    <3>1. x \in Nat
      BY <2>1
    <3>2. k \in Nat
      BY <3>1, DivMod
    <3> QED BY <3>1, <3>2, BlockOf
  <2> HIDE DEF x, k, c, r, W
  <2>3. CASE k < c
    <3>1. k + 1 <= c /\ (k + 1) * b <= c * b /\ (k + 1) * b = k * b + b
      BY <1>2, <2>2, <2>3
    <3>2. x < r
      BY <1>1, <1>2, <2>1, <2>2, <3>1
    <3> QED BY <1>1, <1>2, <1>3, <2>1, <2>2, <2>3, <3>2 DEF x, k
  <2>4. CASE k = c
    <3>1. ~(x < r) /\ x < r + b
      BY <1>1, <1>2, <2>1, <2>2, <2>4
    <3>2. x < r + W
      BY <1>1, <1>3, <2>1, <3>1
    <3> QED BY <1>2, <2>2, <2>4, <3>1, <3>2 DEF x, k
  <2>5. CASE k > c
    <3>1. c + 1 <= k /\ (c + 1) * b <= k * b /\ (c + 1) * b = c * b + b
      BY <1>2, <2>2, <2>5
    <3>2. r + b <= x
      BY <1>1, <1>2, <2>1, <2>2, <3>1
    <3>3. ~(x < r) /\ ~(x < r + W)
      BY <1>1, <1>3, <2>1, <3>2
    <3> QED BY <1>2, <2>2, <2>5, <3>3 DEF x, k
  <2> QED BY <1>2, <2>2, <2>3, <2>4, <2>5
<1> QED BY <1>2, <1>3, <1>4 DEF Column

LEMMA ColumnNat ==
    ASSUME NEW b \in Nat \ {0}, NEW s \in Nat \ {0}, NEW q \in Nat
    PROVE  Column(b, s, q) \in Nat
<1>1. q % s \in Nat
  BY DivMod
<1>2. (q % s) \div b \in Nat
  BY <1>1, DivMod
<1> QED BY <1>2 DEF Column

LEMMA ColumnLess ==
    ASSUME NEW b \in Nat \ {0}, NEW s \in Nat \ {0}, NEW p \in Nat, (p % s) % b = 0,
           NEW q \in Nat
    PROVE  Column(b, s, q) < Column(b, s, p) <=> q % s < p % s
BY ColumnOrder

LEMMA ColumnUpTo ==
    ASSUME NEW b \in Nat \ {0}, NEW s \in Nat \ {0}, NEW p \in Nat, (p % s) % b = 0,
           NEW q \in Nat
    PROVE  Column(b, s, q) <= Column(b, s, p) <=> q % s < (p % s) + Width(b, s, p)
BY ColumnOrder

\* Within a row the bytes of a column are those of a block.
LEMMA InBlock ==
    ASSUME NEW b \in Nat \ {0}, NEW s \in Nat \ {0}, NEW p \in Nat, (p % s) % b = 0,
           NEW q \in Nat
    PROVE  Column(b, s, q) = Column(b, s, p) /\ p <= q /\ q < p + s
              <=> p <= q /\ q < p + Width(b, s, p)
<1> DEFINE r == p % s  i == p \div s  x == q % s  j == q \div s  W == Width(b, s, p)
<1>1. /\ i \in Nat /\ r \in 0..(s - 1) /\ p = i * s + r
      /\ j \in Nat /\ x \in 0..(s - 1) /\ q = j * s + x
  BY DivMod
<1>2. W \in Nat /\ 1 <= W /\ r + W <= s
  BY ColumnOrder
<1>3. /\ Column(b, s, q) \in Nat /\ Column(b, s, p) \in Nat
      /\ Column(b, s, q) < Column(b, s, p) <=> x < r
      /\ Column(b, s, q) <= Column(b, s, p) <=> x < r + W
  BY ColumnOrder
<1>4. Column(b, s, q) = Column(b, s, p) <=> r <= x /\ x < r + W
  <2> HIDE DEF r, x, W
  <2> QED BY <1>1, <1>2, <1>3
<1>5. ASSUME r <= x, x < r + W, p <= q, q < p + s PROVE q < p + W
  <2> HIDE DEF r, i, x, j, W
  <2>1. CASE j < i
    <3>1. j + 1 <= i /\ (j + 1) * s <= i * s /\ (j + 1) * s = j * s + s
      BY <1>1, <2>1
    <3>2. q < p
      BY <1>1, <3>1
    <3> QED BY <1>1, <1>5, <3>2
  <2>2. CASE j > i
    <3>1. i + 1 <= j /\ (i + 1) * s <= j * s /\ (i + 1) * s = i * s + s
      BY <1>1, <2>2
    <3>2. p + s <= q
      BY <1>1, <1>5, <3>1
    <3> QED BY <1>1, <1>5, <3>2
  <2>3. CASE j = i
    BY <1>1, <1>2, <1>5, <2>3
  <2> QED BY <1>1, <2>1, <2>2, <2>3
<1>6. ASSUME p <= q, q < p + W PROVE r <= x /\ x < r + W /\ q < p + s
  <2> DEFINE t == r + (q - p)
  <2>1. t \in 0..(s - 1) /\ r <= t /\ t < r + W /\ q < p + s
    <3> HIDE DEF r, W
    <3> QED BY <1>1, <1>2, <1>6
  <2>2. q = i * s + t
    <3> HIDE DEF r, i, x, j, W
    <3>1. i * s \in Int /\ r \in Int
      BY <1>1
    <3>2. ASSUME NEW y \in Int, p = y + r PROVE q = y + (r + (q - p))
      BY <3>1, <3>2
    <3> QED BY <1>1, <3>1, <3>2
  <2>3. x = t
    <3>1. (i * s + t) % s = t
      BY <1>1, <2>1, ModIs
    <3> QED BY <2>2, <3>1
  <2> QED BY <2>1, <2>3
<1> HIDE DEF r, x, W
<1> QED BY <1>4, <1>5, <1>6 DEF W

\* What a block is, and what has been gone through with it.
LEMMA BlockFacts ==
    ASSUME NEW b \in Nat \ {0}, NEW s \in Nat \ {0}, NEW n \in Nat, NEW p,
           Begins(b, s, n, p)
    PROVE  /\ p \in Nat /\ p < n
           /\ Width(b, s, p) \in 1..b
           /\ Amount(b, s, n, p) \in 1..(n - p)
           /\ \A q \in Nat : q \in Block(b, s, n, p) <=>
                 q < n /\ Column(b, s, q) = Column(b, s, p) /\ p <= q /\ q < p + s
           /\ \A q \in Nat : q \in Before(b, s, n, p) <=>
                 q < n /\ (\/ Column(b, s, q) < Column(b, s, p)
                           \/ Column(b, s, q) = Column(b, s, p) /\ q < p)
           /\ Block(b, s, n, p) \subseteq 0..(n - 1)
           /\ Before(b, s, n, p) \subseteq 0..(n - 1)
<1>1. p \in Nat /\ p < n /\ p \in 0..(n - 1) /\ (p % s) % b = 0
  BY DEF Begins
<1> DEFINE W == Width(b, s, p)  m == Amount(b, s, n, p)
<1>2. W \in 1..b
  BY <1>1, ColumnOrder
<1>3. m \in 1..(n - p) /\ m = Lesser(W, n - p)
  BY <1>1, <1>2 DEF Amount, Lesser
<1>4. ASSUME NEW q \in Nat PROVE q \in Block(b, s, n, p) <=> q < n /\ p <= q /\ q < p + W
  <2>1. q \in Block(b, s, n, p) <=> p <= q /\ q <= p + m - 1
    BY <1>1, <1>3 DEF Block
  <2> HIDE DEF W, m
  <2>2. p <= q /\ q <= p + m - 1 <=> q < n /\ p <= q /\ q < p + W
    BY <1>1, <1>2, <1>3 DEF Lesser
  <2> QED BY <2>1, <2>2
<1>5. ASSUME NEW q \in Nat
      PROVE  q \in Block(b, s, n, p) <=>
                q < n /\ Column(b, s, q) = Column(b, s, p) /\ p <= q /\ q < p + s
  BY <1>1, <1>4, InBlock
<1>6. Block(b, s, n, p) \subseteq 0..(n - 1)
  BY <1>1, <1>3 DEF Block
<1>7. \A q \in Nat : q \in Before(b, s, n, p) <=>
         q < n /\ (\/ Column(b, s, q) < Column(b, s, p)
                   \/ Column(b, s, q) = Column(b, s, p) /\ q < p)
  BY DEF Before, Earlier
<1>8. Before(b, s, n, p) \subseteq 0..(n - 1)
  BY DEF Before
<1> QED BY <1>1, <1>2, <1>3, <1>5, <1>6, <1>7, <1>8

LEMMA BlockHas ==
    ASSUME NEW b \in Nat \ {0}, NEW s \in Nat \ {0}, NEW n \in Nat, NEW p,
           Begins(b, s, n, p), NEW q \in Nat
    PROVE  q \in Block(b, s, n, p) <=>
              q < n /\ Column(b, s, q) = Column(b, s, p) /\ p <= q /\ q < p + s
BY BlockFacts

LEMMA BeforeHas ==
    ASSUME NEW b \in Nat \ {0}, NEW s \in Nat \ {0}, NEW n \in Nat, NEW p,
           Begins(b, s, n, p), NEW q \in Nat
    PROVE  q \in Before(b, s, n, p) <=>
              q < n /\ (\/ Column(b, s, q) < Column(b, s, p)
                        \/ Column(b, s, q) = Column(b, s, p) /\ q < p)
BY BlockFacts

LEMMA BlockIn ==
    ASSUME NEW b \in Nat \ {0}, NEW s \in Nat \ {0}, NEW n \in Nat, NEW p,
           Begins(b, s, n, p)
    PROVE  /\ p \in Nat /\ p < n /\ (p % s) % b = 0
           /\ Block(b, s, n, p) \subseteq 0..(n - 1)
           /\ Before(b, s, n, p) \subseteq 0..(n - 1)
           /\ Amount(b, s, n, p) \in 1..(n - p)
BY BlockFacts DEF Begins

\* The next row is at the same offset.
LEMMA SameOffset ==
    ASSUME NEW s \in Nat \ {0}, NEW p \in Nat
    PROVE  (p + s) % s = p % s
<1>1. PICK i \in Nat, r \in 0..(s - 1) : p = i * s + r /\ p % s = r
  BY DivMod
<1>2. PICK k \in Nat : k = i + 1
  OBVIOUS
<1>3. (k * s + r) % s = r
  BY ModIs
<1>4. k * s + r = p + s
  <2>1. (i + 1) * s = i * s + s /\ i * s \in Int /\ r \in Int
    OBVIOUS
  <2> QED BY <1>1, <1>2, <2>1
<1> QED BY <1>1, <1>3, <1>4

\* The next row of the column.
LEMMA RowMoves ==
    ASSUME NEW b \in Nat \ {0}, NEW s \in Nat \ {0}, NEW n \in Nat, NEW p,
           Begins(b, s, n, p), p + s < n
    PROVE  /\ Begins(b, s, n, p + s) /\ Width(b, s, p + s) = Width(b, s, p)
           /\ Before(b, s, n, p + s) = Before(b, s, n, p) \cup Block(b, s, n, p)
<1>1. p \in Nat /\ p < n /\ (p % s) % b = 0
  BY BlockIn
<1>2. (p + s) % s = p % s
  BY <1>1, SameOffset
<1>3. p + s \in 0..(n - 1)
  BY <1>1
<1>4. Begins(b, s, n, p + s)
  BY <1>1, <1>2, <1>3 DEF Begins
<1>5. Width(b, s, p + s) = Width(b, s, p) /\ Column(b, s, p + s) = Column(b, s, p)
  BY <1>2 DEF Width, Column
<1>6. ASSUME NEW q \in Nat
      PROVE  q \in Before(b, s, n, p + s)
                <=> q \in Before(b, s, n, p) \/ q \in Block(b, s, n, p)
  <2> DEFINE k == Column(b, s, q)  c == Column(b, s, p)
  <2>1. q \in Before(b, s, n, p + s) <=> q < n /\ (k < c \/ (k = c /\ q < p + s))
    BY <1>1, <1>4, <1>5, BeforeHas
  <2>2. q \in Before(b, s, n, p) <=> q < n /\ (k < c \/ (k = c /\ q < p))
    BY BeforeHas
  <2>3. q \in Block(b, s, n, p) <=> q < n /\ k = c /\ p <= q /\ q < p + s
    BY BlockHas
  <2>4. q < p + s <=> q < p \/ (p <= q /\ q < p + s)
    BY <1>1
  <2> HIDE DEF k, c
  <2> QED BY <2>1, <2>2, <2>3, <2>4
<1>7. Before(b, s, n, p + s) = Before(b, s, n, p) \cup Block(b, s, n, p)
  <2>1. /\ Before(b, s, n, p + s) \subseteq Nat /\ Before(b, s, n, p) \subseteq Nat
        /\ Block(b, s, n, p) \subseteq Nat
    BY <1>4, BlockIn
  <2> QED BY <1>6, <2>1
<1> QED BY <1>4, <1>5, <1>7

\* The top of the next column, and how wide that is; or there is none.
LEMMA ColumnMoves ==
    ASSUME NEW b \in Nat \ {0}, NEW s \in Nat \ {0}, NEW n \in Nat, NEW p,
           Begins(b, s, n, p), n <= p + s, NEW z, z = ((p + s) % s) + Width(b, s, p)
    PROVE  /\ z \in Nat /\ z <= s
           /\ z < s /\ z < n =>
                 /\ Begins(b, s, n, z)
                 /\ Before(b, s, n, z) = Before(b, s, n, p) \cup Block(b, s, n, p)
                 /\ Width(b, s, z)
                       = IF z + Width(b, s, p) > s THEN s - z ELSE Width(b, s, p)
           /\ ~(z < s /\ z < n) =>
                 Before(b, s, n, p) \cup Block(b, s, n, p) = 0..(n - 1)
<1>1. p \in Nat /\ p < n /\ (p % s) % b = 0
  BY BlockIn
<1> DEFINE r == p % s  c == Column(b, s, p)  W == Width(b, s, p)
           A == Before(b, s, n, p) \cup Block(b, s, n, p)
<1>2. (p + s) % s = r
  BY <1>1, SameOffset
<1>3. /\ r \in 0..(s - 1) /\ c \in Nat /\ r = c * b
      /\ W \in 1..b /\ r + W <= s /\ (r + W < s => W = b)
  <2>1. r \in 0..(s - 1)
    BY <1>1, DivMod
  <2>2. c \in Nat /\ r = c * b
    BY <1>1, ColumnOrder
  <2>3. W \in 1..b /\ r + W <= s /\ (r + W < s => W = b)
    BY <1>1, ColumnOrder
  <2> QED BY <2>1, <2>2, <2>3
<1>4. z = r + W /\ z \in Nat /\ z <= s /\ 0 < z
  BY <1>2, <1>3
<1>5. ASSUME NEW q \in Nat PROVE q \in A <=> q < n /\ q % s < z
  <2> DEFINE k == Column(b, s, q)
  <2>1. q \in Before(b, s, n, p) <=> q < n /\ (k < c \/ (k = c /\ q < p))
    BY BeforeHas
  <2>2. q \in Block(b, s, n, p) <=> q < n /\ k = c /\ p <= q /\ q < p + s
    BY BlockHas
  <2>3. k \in Nat /\ (k <= c <=> q % s < z)
    <3>1. k \in Nat
      BY ColumnNat
    <3>2. k <= c <=> q % s < r + W
      BY <1>1, ColumnUpTo
    <3> QED BY <1>4, <3>1, <3>2
  <2>4. q < n => q < p \/ (p <= q /\ q < p + s)
    BY <1>1
  <2>5. q \in A <=> q \in Before(b, s, n, p) \/ q \in Block(b, s, n, p)
    OBVIOUS
  <2> HIDE DEF k, c, A
  <2> QED BY <1>3, <2>1, <2>2, <2>3, <2>4, <2>5
<1>6. A \subseteq 0..(n - 1)
  BY BlockIn
<1>7. ASSUME z < s, z < n
      PROVE  /\ Begins(b, s, n, z)
             /\ Before(b, s, n, z) = A
             /\ Width(b, s, z) = IF z + W > s THEN s - z ELSE W
  <2>1. z % s = z
    <3>1. 0 \in Nat /\ z \in 0..(s - 1) /\ 0 * s + z = z
      BY <1>4, <1>7
    <3> QED BY <3>1, ModIs
  <2>2. W = b
    BY <1>3, <1>4, <1>7
  <2>3. z % b = 0
    <3>1. c + 1 \in Nat /\ 0 \in 0..(b - 1)
      BY <1>3
    <3>2. ((c + 1) * b + 0) % b = 0
      BY <3>1, ModIs
    <3>3. (c + 1) * b + 0 = z
      <4> HIDE DEF c, r, W
      <4>1. (c + 1) * b = c * b + b /\ c * b \in Int
        BY <1>3
      <4> QED BY <1>3, <1>4, <2>2, <4>1
    <3> QED BY <3>2, <3>3
  <2>4. Begins(b, s, n, z)
    BY <1>4, <1>7, <2>1, <2>3 DEF Begins
  <2>5. Width(b, s, z) = IF z + W > s THEN s - z ELSE W
    BY <1>4, <2>1, <2>2 DEF Width, Lesser
  <2>6. ASSUME NEW q \in Nat PROVE q \in Before(b, s, n, z) <=> q \in A
    <3>1. q \in Before(b, s, n, z) <=>
             q < n /\ (\/ Column(b, s, q) < Column(b, s, z)
                       \/ Column(b, s, q) = Column(b, s, z) /\ q < z)
      BY <1>4, <2>4, BeforeHas
    <3>2. /\ Column(b, s, q) \in Nat /\ Column(b, s, z) \in Nat
          /\ Column(b, s, q) < Column(b, s, z) <=> q % s < z
      <4>1. Column(b, s, q) \in Nat /\ Column(b, s, z) \in Nat
        BY <1>4, ColumnNat
      <4>2. (z % s) % b = 0
        BY <2>1, <2>3
      <4>3. Column(b, s, q) < Column(b, s, z) <=> q % s < z % s
        BY <1>4, <4>2, ColumnLess
      <4> QED BY <2>1, <4>1, <4>3
    <3>3. q % s <= q /\ q % s \in Nat
      <4>1. q \div s \in Nat /\ q % s \in 0..(s - 1) /\ q = (q \div s) * s + (q % s)
        BY DivMod
      <4>2. (q \div s) * s \in Nat
        BY <4>1
      <4> QED BY <4>1, <4>2
    <3>4. q < z => q % s < z
      BY <1>4, <3>3
    <3> HIDE DEF A
    <3> QED BY <1>5, <3>1, <3>2, <3>4
  <2>7. Before(b, s, n, z) = A
    <3>1. Before(b, s, n, z) \subseteq Nat /\ A \subseteq Nat
      BY <1>6, <2>4, BlockIn
    <3> HIDE DEF A
    <3> QED BY <2>6, <3>1
  <2> QED BY <2>4, <2>5, <2>7
<1>8. ASSUME ~(z < s /\ z < n) PROVE A = 0..(n - 1)
  <2>1. ASSUME NEW q \in 0..(n - 1) PROVE q \in A
    <3>1. q \in Nat /\ q < n
      OBVIOUS
    <3>2. q % s \in 0..(s - 1) /\ q % s <= q
      <4>1. q \div s \in Nat /\ q % s \in 0..(s - 1) /\ q = (q \div s) * s + (q % s)
        BY <3>1, DivMod
      <4>2. (q \div s) * s \in Nat
        BY <4>1
      <4> QED BY <4>1, <4>2
    <3>3. q % s < z
      BY <1>4, <1>8, <3>1, <3>2
    <3> QED BY <1>5, <3>1, <3>3
  <2> HIDE DEF A
  <2> QED BY <1>6, <2>1
<1> QED BY <1>4, <1>7, <1>8

\* How much has been gone through.
LEMMA BlockCounts ==
    ASSUME NEW b \in Nat \ {0}, NEW s \in Nat \ {0}, NEW n \in Nat, NEW p,
           Begins(b, s, n, p), NEW A, A = Before(b, s, n, p) \cup Block(b, s, n, p)
    PROVE  /\ Cardinality(Before(b, s, n, p)) \in Nat
           /\ Cardinality(A) = Cardinality(Before(b, s, n, p)) + Amount(b, s, n, p)
           /\ A \subseteq 0..(n - 1) /\ Cardinality(A) <= n
           /\ Cardinality(A) = n => A = 0..(n - 1)
           /\ A = 0..(n - 1) => Cardinality(A) = n
<1> DEFINE B == Before(b, s, n, p)  D == Block(b, s, n, p)  m == Amount(b, s, n, p)
           x == Cardinality(B)  N == 0..(n - 1)
<1>1. p \in Nat /\ m \in 1..(n - p) /\ B \subseteq N /\ D \subseteq N
  BY BlockIn
<1>2. B \cap D = {}
  <2>1. ASSUME NEW q \in Nat PROVE ~(q \in B /\ q \in D)
    <3>1. q \in B <=>
             q < n /\ (\/ Column(b, s, q) < Column(b, s, p)
                       \/ Column(b, s, q) = Column(b, s, p) /\ q < p)
      BY BeforeHas
    <3>2. q \in D <=> q < n /\ Column(b, s, q) = Column(b, s, p) /\ p <= q /\ q < p + s
      BY BlockHas
    <3>3. Column(b, s, p) \in Nat
      BY <1>1, ColumnNat
    <3> HIDE DEF B, D
    <3> QED BY <1>1, <3>1, <3>2, <3>3
  <2>2. B \subseteq Nat
    BY <1>1
  <2> HIDE DEF B, D
  <2> QED BY <2>1, <2>2
<1>3. IsFiniteSet(N) /\ Cardinality(N) = n
  <2>1. 0 \in Int /\ n - 1 \in Int
    OBVIOUS
  <2>2. IsFiniteSet(0..(n - 1)) /\ Cardinality(0..(n - 1)) = IF 0 > n - 1 THEN 0 ELSE n - 1 - 0 + 1
    BY <2>1, FS_Interval
  <2>3. (IF 0 > n - 1 THEN 0 ELSE n - 1 - 0 + 1) = n
    OBVIOUS
  <2> QED BY <2>2, <2>3
<1>4. IsFiniteSet(D) /\ Cardinality(D) = m
  <2>1. p + m - 1 \in Int /\ ~(p > p + m - 1) /\ p + m - 1 - p + 1 = m
    <3> HIDE DEF m
    <3> QED BY <1>1
  <2>2. D = p..(p + m - 1)
    BY DEF Block
  <2> HIDE DEF D, m
  <2> QED BY <1>1, <2>1, <2>2, FS_Interval
<1> HIDE DEF B, D, m, N
<1>5. IsFiniteSet(B) /\ x \in Nat
  BY <1>1, <1>3, FS_Subset, FS_CardinalityType
<1>6. Cardinality(B \cup D) = Cardinality(B) + Cardinality(D) - Cardinality({})
  BY <1>2, <1>4, <1>5, FS_Union
<1>7. Cardinality(A) = x + m
  <2>1. Cardinality({}) = 0
    BY FS_EmptySet
  <2>2. x + m - 0 = x + m
    BY <1>1, <1>5
  <2>3. A = B \cup D
    BY DEF B, D
  <2> QED BY <1>4, <1>6, <2>1, <2>2, <2>3
<1>8. A \in SUBSET N
  <2>1. A = B \cup D
    BY DEF B, D
  <2> QED BY <1>1, <2>1
<1>9. Cardinality(A) <= Cardinality(N) /\ (Cardinality(N) = Cardinality(A) => N = A)
  BY <1>3, <1>8, FS_Subset
<1> QED BY <1>3, <1>5, <1>7, <1>8, <1>9 DEF B, m, N

\* The bytes of a block come after what has been gone through, one by one.
LEMMA BlockOrder ==
    ASSUME NEW b \in Nat \ {0}, NEW s \in Nat \ {0}, NEW n \in Nat, NEW p,
           Begins(b, s, n, p), NEW y \in Block(b, s, n, p)
    PROVE  /\ \A x \in Before(b, s, n, p) : Earlier(b, s, x, y) /\ ~Earlier(b, s, y, x)
           /\ \A x \in Block(b, s, n, p) : Earlier(b, s, x, y) <=> x < y
<1>1. /\ p \in Nat /\ (p % s) % b = 0
      /\ Before(b, s, n, p) \subseteq Nat /\ Block(b, s, n, p) \subseteq Nat
  BY BlockIn
<1>2. y \in Nat /\ Column(b, s, y) = Column(b, s, p) /\ p <= y /\ Column(b, s, p) \in Nat
  <2>1. y \in Nat
    BY <1>1
  <2>2. Column(b, s, p) \in Nat
    BY <1>1, ColumnNat
  <2>3. Column(b, s, y) = Column(b, s, p) /\ p <= y
    BY <2>1, BlockHas
  <2> QED BY <2>1, <2>2, <2>3
<1>3. ASSUME NEW x \in Before(b, s, n, p) PROVE Earlier(b, s, x, y) /\ ~Earlier(b, s, y, x)
  <2>1. x \in Nat /\ Column(b, s, x) \in Nat
    BY <1>1, ColumnNat
  <2>2. \/ Column(b, s, x) < Column(b, s, p)
        \/ Column(b, s, x) = Column(b, s, p) /\ x < p
    BY <1>1, <2>1, BeforeHas
  <2> QED BY <1>1, <1>2, <2>1, <2>2 DEF Earlier
<1>4. ASSUME NEW x \in Block(b, s, n, p) PROVE Earlier(b, s, x, y) <=> x < y
  <2>1. x \in Nat /\ Column(b, s, x) = Column(b, s, p)
    BY <1>1, BlockHas
  <2> QED BY <1>2, <2>1 DEF Earlier
<1> QED BY <1>3, <1>4

\* StrideOrder compares the columns, then the positions.
LEMMA OrderIsEarlier ==
    ASSUME job.b \in Nat \ {0}, job.s \in Nat \ {0}, size \in Nat,
           NEW x \in 0..(size - 1), NEW y \in 0..(size - 1)
    PROVE  StrideOrder(x) < StrideOrder(y) <=> Earlier(job.b, job.s, x, y)
<1> DEFINE b == job.b  s == job.s  n == size  i == (x % s) \div b  j == (y % s) \div b
<1>1. i \in Nat /\ j \in Nat /\ i = Column(b, s, x) /\ j = Column(b, s, y)
  <2>1. x \in Nat /\ y \in Nat
    OBVIOUS
  <2> QED BY <2>1, ColumnNat DEF Column
<1>2. StrideOrder(x) = i * n + x /\ StrideOrder(y) = j * n + y
  BY DEF StrideOrder
<1>3. x \in Nat /\ y \in Nat /\ x < n /\ y < n /\ n \in Nat
  OBVIOUS
<1> HIDE DEF i, j, n
<1>4. i * n \in Nat /\ j * n \in Nat
  BY <1>1, <1>3
<1>5. CASE i < j
  <2>1. i + 1 <= j /\ (i + 1) * n <= j * n /\ (i + 1) * n = i * n + n
    BY <1>1, <1>3, <1>5
  <2>2. i * n + x < j * n + y
    BY <1>3, <1>4, <2>1
  <2> QED BY <1>1, <1>2, <1>5, <2>2 DEF Earlier
<1>6. CASE j < i
  <2>1. j + 1 <= i /\ (j + 1) * n <= i * n /\ (j + 1) * n = j * n + n
    BY <1>1, <1>3, <1>6
  <2>2. ~(i * n + x < j * n + y)
    BY <1>3, <1>4, <2>1
  <2>3. ~(i < j) /\ i # j
    BY <1>1, <1>6
  <2> QED BY <1>1, <1>2, <2>2, <2>3 DEF Earlier
<1>7. CASE i = j
  <2>1. i * n + x < j * n + y <=> x < y
    BY <1>3, <1>4, <1>7
  <2> QED BY <1>1, <1>2, <1>7, <2>1 DEF Earlier
<1> QED BY <1>1, <1>5, <1>6, <1>7

LEMMA AdvanceFields ==
    ASSUME NEW u \in LocalsType, job.s \in Nat \ {0}, size \in Nat,
           NEW z, z = ((u.pos + job.s) % job.s) + u.block_size,
           ~(u.pos + job.s < size) => z \in 0..job.s
    PROVE  /\ Advance(u) \in LocalsType /\ Advance(u).written = u.written
           /\ u.pos + job.s < size =>
                 Advance(u).pos = u.pos + job.s /\ Advance(u).block_size = u.block_size
           /\ ~(u.pos + job.s < size) =>
                 /\ Advance(u).pos = z
                 /\ Advance(u).block_size =
                       IF z + u.block_size > job.s THEN job.s - z ELSE u.block_size
<1> DEFINE t == NextRow(u)
           y == IF z + u.block_size > job.s THEN job.s - z ELSE u.block_size
<1>1. /\ t \in LocalsType /\ t.pos = u.pos + job.s /\ t.block_size = u.block_size
      /\ t.written = u.written /\ t.pos \in Nat /\ u.block_size \in Nat
  BY DEF NextRow, LocalsType
<1>2. Advance(u) = IF u.pos + job.s < size THEN t ELSE NextColumn(t)
  BY <1>1 DEF Advance
<1> HIDE DEF t
<1>3. CASE u.pos + job.s < size
  BY <1>1, <1>2, <1>3
<1>4. CASE ~(u.pos + job.s < size)
  <2>1. z \in 0..job.s /\ y \in Nat
    BY <1>1, <1>4
  <2>2. NextColumn(t) =
           [t EXCEPT !.pos = (t.pos % job.s) + t.block_size,
                     !.block_size = IF (t.pos % job.s) + t.block_size + @ > job.s
                                    THEN job.s - ((t.pos % job.s) + t.block_size) ELSE @]
    BY DEF NextColumn
  <2>3. (t.pos % job.s) + t.block_size = z
    BY <1>1
  <2>4. NextColumn(t) = [t EXCEPT !.pos = z, !.block_size = y]
    BY <1>1, <2>2, <2>3
  <2> HIDE DEF y
  <2>5. ASSUME NEW x \in Nat
        PROVE  /\ [t EXCEPT !.pos = x, !.block_size = y] \in LocalsType
               /\ [t EXCEPT !.pos = x, !.block_size = y].written = t.written
               /\ [t EXCEPT !.pos = x, !.block_size = y].pos = x
               /\ [t EXCEPT !.pos = x, !.block_size = y].block_size = y
    BY <1>1, <2>1 DEF LocalsType
  <2>6. z \in Nat
    BY <2>1
  <2>7. NextColumn(t) \in LocalsType /\ NextColumn(t).written = u.written
    BY <1>1, <2>4, <2>5, <2>6
  <2>8. NextColumn(t).pos = z /\ NextColumn(t).block_size = y
    BY <2>4, <2>5, <2>6
  <2>9. Advance(u) = NextColumn(t)
    BY <1>2, <1>4
  <2> QED BY <1>4, <2>7, <2>8, <2>9 DEF y
<1> QED BY <1>3, <1>4

\* After a block the programs stand at the next one, or have gone through all.
LEMMA StrideMoves ==
    ASSUME FilesInv, StridesInv, Runs(Striding), pc = "check", Len(got) = Ahead,
           v' = Advance([v EXCEPT !.written = @ + Len(got)]),
           job' = job, input' = input
    PROVE  /\ v' \in LocalsType /\ v'.written = v.written + Ahead
           /\ v'.written \in 0..size
           /\ v'.written < size =>
                 /\ Begins(job.b, job.s, size, v'.pos)
                 /\ v'.block_size = Width(job.b, job.s, v'.pos)
                 /\ Cardinality(Before(job.b, job.s, size, v'.pos)) = v'.written
           /\ Visited' = Visited \cup Block(job.b, job.s, size, v.pos)
           /\ Visited = Before(job.b, job.s, size, v.pos)
<1> DEFINE b == job.b  s == job.s  n == size  p == v.pos  m == Ahead
           B == Before(b, s, n, p)  A == B \cup Block(b, s, n, p)
           u == [v EXCEPT !.written = @ + Len(got)]
           z == ((p + s) % s) + v.block_size
<1>1. b \in Nat \ {0} /\ s \in Nat \ {0} /\ n \in Nat /\ v \in LocalsType
  BY JobFacts
<1>2. /\ v.written \in 0..n /\ v.written < n /\ Begins(b, s, n, p)
      /\ v.block_size = Width(b, s, p) /\ Cardinality(B) = v.written
  BY DEF StridesInv
<1>3. p \in Nat /\ m \in 1..(n - p)
  BY <1>1, <1>2, BlockIn DEF Ahead
<1>4. /\ Cardinality(A) = v.written + m /\ v.written + m <= n
      /\ A \subseteq 0..(n - 1) /\ (v.written + m = n => A = 0..(n - 1))
      /\ (A = 0..(n - 1) => v.written + m = n)
  <2>1. PICK D : D = A
    OBVIOUS
  <2>2. m = Amount(b, s, n, p)
    BY DEF Ahead
  <2> HIDE DEF b, s, n, p, m
  <2>3. Cardinality(D) = Cardinality(B) + m
    BY <1>1, <1>2, <2>1, <2>2, BlockCounts
  <2>4. D \subseteq 0..(n - 1) /\ Cardinality(D) <= n
    BY <1>1, <1>2, <2>1, BlockCounts
  <2>5. Cardinality(D) = n => D = 0..(n - 1)
    BY <1>1, <1>2, <2>1, BlockCounts
  <2>6. D = 0..(n - 1) => Cardinality(D) = n
    BY <1>1, <1>2, <2>1, BlockCounts
  <2> HIDE DEF A, B
  <2> QED BY <1>2, <2>1, <2>3, <2>4, <2>5, <2>6
<1>5. /\ u \in LocalsType /\ u.written = v.written + m /\ u.pos = p
      /\ u.block_size = v.block_size
  <2>1. v.written + m \in Nat /\ u = [v EXCEPT !.written = v.written + m]
    BY <1>2, <1>3
  <2> HIDE DEF m, u
  <2> QED BY <1>1, <2>1 DEF LocalsType
<1>6. ASSUME n <= p + s
      PROVE  /\ z \in 0..s
             /\ z < s /\ z < n =>
                   /\ Begins(b, s, n, z) /\ Before(b, s, n, z) = A
                   /\ Width(b, s, z) =
                         IF z + v.block_size > s THEN s - z ELSE v.block_size
             /\ ~(z < s /\ z < n) => A = 0..(n - 1)
  <2>1. z = ((p + s) % s) + Width(b, s, p)
    BY <1>2
  <2>2. /\ z \in Nat /\ z <= s
        /\ z < s /\ z < n =>
              /\ Begins(b, s, n, z) /\ Before(b, s, n, z) = A
              /\ Width(b, s, z)
                    = IF z + Width(b, s, p) > s THEN s - z ELSE Width(b, s, p)
        /\ ~(z < s /\ z < n) => A = 0..(n - 1)
    BY <1>1, <1>2, <1>6, <2>1, ColumnMoves
  <2> QED BY <1>1, <1>2, <2>2
<1> DEFINE a == Advance(u)
<1>7. /\ a \in LocalsType /\ a.written = v.written + m
      /\ p + s < n => a.pos = p + s /\ a.block_size = v.block_size
      /\ ~(p + s < n) =>
            /\ a.pos = z
            /\ a.block_size = IF z + v.block_size > s THEN s - z ELSE v.block_size
  <2>1. ~(u.pos + s < n) => z \in 0..s
    BY <1>1, <1>3, <1>5, <1>6
  <2>2. z = ((u.pos + s) % s) + u.block_size
    BY <1>5
  <2> HIDE DEF z, u
  <2> QED BY <1>1, <1>5, <2>1, <2>2, AdvanceFields
<1>8. ASSUME v.written + m < n
      PROVE  /\ Begins(b, s, n, a.pos) /\ a.block_size = Width(b, s, a.pos)
             /\ Before(b, s, n, a.pos) = A
  <2>1. CASE p + s < n
    <3>1. /\ Begins(b, s, n, p + s) /\ Width(b, s, p + s) = Width(b, s, p)
          /\ Before(b, s, n, p + s) = A
      BY <1>1, <1>2, <2>1, RowMoves
    <3> HIDE DEF a, A
    <3> QED BY <1>2, <1>7, <2>1, <3>1
  <2>2. CASE ~(p + s < n)
    <3>1. n <= p + s /\ A # 0..(n - 1)
      BY <1>1, <1>3, <1>4, <1>8, <2>2
    <3>2. z < s /\ z < n
      BY <1>6, <3>1
    <3> HIDE DEF a, A, z
    <3> QED BY <1>6, <1>7, <2>2, <3>1, <3>2
  <2> QED BY <2>1, <2>2
<1>9. v' = a /\ b' = b /\ s' = s /\ n' = n
  BY DEF size
<1>10. Visited = B
  BY <1>2 DEF Visited
<1>11. Visited' = A
  <2>1. Visited' = IF a.written < n THEN Before(b, s, n, a.pos) ELSE 0..(n - 1)
    BY <1>9 DEF Visited
  <2>2. CASE v.written + m < n
    <3> HIDE DEF a, A
    <3> QED BY <1>7, <1>8, <2>1, <2>2
  <2>3. CASE ~(v.written + m < n)
    <3>1. v.written + m = n
      BY <1>1, <1>2, <1>3, <1>4, <2>3
    <3> HIDE DEF a, A
    <3> QED BY <1>4, <1>7, <2>1, <2>3, <3>1
  <2> QED BY <2>2, <2>3
<1>12. v.written + m \in 0..n
  BY <1>1, <1>2, <1>3, <1>4
<1> HIDE DEF a, A, B
<1> QED BY <1>4, <1>7, <1>8, <1>9, <1>10, <1>11, <1>12 DEF A, B

\* stridecat61 goes on with a block.
LEMMA SortedGrows ==
    ASSUME NEW b \in Nat \ {0}, NEW s \in Nat \ {0}, NEW n \in Nat, NEW p,
           Begins(b, s, n, p), NEW c \in Seq(Int), NEW w1 \in Nat, w1 = Len(c),
           Sorted(b, s, c, Before(b, s, n, p)),
           NEW e, e = Overlay(c, w1, Bytes(p, Amount(b, s, n, p))),
           NEW A, A = Before(b, s, n, p) \cup Block(b, s, n, p)
    PROVE  Sorted(b, s, e, A)
<1> DEFINE m == Amount(b, s, n, p)  B == Before(b, s, n, p)  D == Block(b, s, n, p)
           d == Bytes(p, m)
<1>1. p \in Nat /\ m \in Nat /\ D = p..(p + m - 1)
  BY BlockIn DEF Block
<1>2. d \in Seq(Int) /\ Len(d) = m /\ \A i \in 1..m : d[i] = p + i - 1
  <2>1. d \in Seq(Nat) /\ Len(d) = m
    BY <1>1, BytesFacts
  <2>2. \A i \in 1..m : d[i] = p + i - 1
    BY <1>1, BytesFacts
  <2> QED BY <2>1, <2>2
<1>3. /\ \A i \in 1..w1 : c[i] \in B
      /\ \A x \in B : \E i \in 1..w1 : c[i] = x
      /\ \A i, j \in 1..w1 : i < j => Earlier(b, s, c[i], c[j])
  BY DEF Sorted
<1>4. \A y \in D : /\ \A x \in B : Earlier(b, s, x, y)
                   /\ \A x \in D : x < y => Earlier(b, s, x, y)
  BY BlockOrder
<1> HIDE DEF B, D, m, d
<1>5. e = c \o d
  <2>1. e = Overlay(c, w1, d)
    BY DEF d, m
  <2> QED BY <1>2, <2>1, OverlayAppends
<1>6. /\ Len(e) = w1 + m
      /\ \A i \in 1..w1 : e[i] = c[i]
      /\ \A i \in 1..m : e[w1 + i] = d[i]
  <2>1. w1 = Len(c) /\ m = Len(d)
    BY <1>2
  <2>2. Len(c \o d) = w1 + m
    <3>1. d \in Seq(Int)
      BY <1>2
    <3>2. Len(c \o d) = Len(c) + Len(d)
      BY <3>1, ConcatProperties
    <3> QED BY <2>1, <3>2
  <2>3. \A i \in 1..w1 : (c \o d)[i] = c[i]
    BY <1>1, <1>2, <2>1, ConcatFacts
  <2>4. ASSUME NEW i \in 1..m PROVE (c \o d)[w1 + i] = d[i]
    <3>1. i \in 1..Len(d)
      BY <1>2
    <3>2. (c \o d)[Len(c) + i] = d[i]
      BY <1>2, <3>1, ConcatHas
    <3> QED BY <2>1, <3>2
  <2> QED BY <1>5, <2>2, <2>3, <2>4
<1>7. ASSUME NEW i \in 1..(w1 + m)
      PROVE  \/ i \in 1..w1 /\ e[i] = c[i]
             \/ i \notin 1..w1 /\ e[i] = p + (i - w1) - 1 /\ e[i] \in D
  <2>1. CASE i \in 1..w1
    BY <1>6, <2>1
  <2>2. CASE i \notin 1..w1
    <3>1. PICK j \in 1..m : i = w1 + j
      <4>1. i - w1 \in 1..m /\ i = w1 + (i - w1)
        BY <1>1, <2>2
      <4> QED BY <4>1
    <3>2. e[i] = p + j - 1
      BY <1>2, <1>6, <3>1
    <3>3. j = i - w1 /\ p + j - 1 \in p..(p + m - 1)
      BY <1>1, <3>1
    <3> QED BY <1>1, <2>2, <3>2, <3>3
  <2> QED BY <2>1, <2>2
<1>8. ASSUME NEW i \in 1..(w1 + m) PROVE e[i] \in B \cup D
  BY <1>3, <1>7
<1>9. ASSUME NEW x \in B \cup D PROVE \E i \in 1..(w1 + m) : e[i] = x
  <2>1. CASE x \in B
    <3>1. PICK i \in 1..w1 : c[i] = x
      BY <1>3, <2>1
    <3>2. i \in 1..(w1 + m) /\ e[i] = x
      BY <1>1, <1>6, <3>1
    <3> QED BY <3>2
  <2>2. CASE x \in D
    <3>1. PICK j \in 1..m : x = p + j - 1
      <4>1. x - p + 1 \in 1..m /\ x = p + (x - p + 1) - 1
        BY <1>1, <2>2
      <4> QED BY <4>1
    <3>2. w1 + j \in 1..(w1 + m)
      BY <1>1, <3>1
    <3>3. e[w1 + j] = d[j] /\ d[j] = p + j - 1
      BY <1>2, <1>6
    <3> QED BY <3>1, <3>2, <3>3
  <2> QED BY <1>9, <2>1, <2>2
<1>10. ASSUME NEW i \in 1..(w1 + m), NEW j \in 1..(w1 + m), i < j
       PROVE  Earlier(b, s, e[i], e[j])
  <2>1. CASE j \in 1..w1
    <3>1. i \in 1..w1
      BY <1>10, <2>1
    <3> QED BY <1>3, <1>6, <1>10, <2>1, <3>1
  <2>2. CASE j \notin 1..w1
    <3>1. e[j] \in D /\ e[j] = p + (j - w1) - 1
      BY <1>7, <2>2
    <3>2. CASE i \in 1..w1
      BY <1>3, <1>4, <1>6, <3>1, <3>2
    <3>3. CASE i \notin 1..w1
      <4>1. e[i] \in D /\ e[i] = p + (i - w1) - 1
        BY <1>7, <3>3
      <4>2. e[i] < e[j]
        BY <1>1, <1>10, <3>1, <4>1
      <4> QED BY <1>4, <3>1, <4>1, <4>2
    <3> QED BY <3>2, <3>3
  <2> QED BY <2>1, <2>2
<1>11. Sorted(b, s, e, B \cup D)
  BY <1>6, <1>8, <1>9, <1>10 DEF Sorted
<1>12. A = B \cup D
  BY DEF B, D
<1> QED BY <1>11, <1>12

\* ostridecat61 goes on with a block.
LEMMA PlacedGrows ==
    ASSUME NEW b \in Nat \ {0}, NEW s \in Nat \ {0}, NEW n \in Nat, NEW p,
           Begins(b, s, n, p), NEW c \in Seq(Int), Len(c) <= n, NEW w1 \in Nat,
           Placed(b, s, c, Before(b, s, n, p), w1),
           NEW e, e = Overlay(c, p, Bytes(w1, Amount(b, s, n, p))),
           NEW A, A = Before(b, s, n, p) \cup Block(b, s, n, p),
           NEW t \in Nat, t = w1 + Amount(b, s, n, p)
    PROVE  Len(e) <= n /\ Placed(b, s, e, A, t)
<1> DEFINE m == Amount(b, s, n, p)  B == Before(b, s, n, p)  D == Block(b, s, n, p)
           d == Bytes(w1, m)
<1>1. p \in Nat /\ p < n /\ m \in 1..(n - p) /\ D = p..(p + m - 1) /\ B \subseteq Nat
  BY BlockIn DEF Block
<1>2. d \in Seq(Int) /\ Len(d) = m /\ \A i \in 1..m : d[i] = w1 + i - 1
  <2>1. m \in Nat
    BY <1>1
  <2>2. d \in Seq(Nat) /\ Len(d) = m
    BY <2>1, BytesFacts
  <2>3. \A i \in 1..m : d[i] = w1 + i - 1
    BY <2>1, BytesFacts
  <2> QED BY <2>2, <2>3
<1>3. /\ \A q \in B : q < Len(c) /\ ByteAt(c, q) \in 0..(w1 - 1)
      /\ \A k \in 0..(w1 - 1) : \E q \in B : ByteAt(c, q) = k
      /\ \A x, y \in B : Earlier(b, s, x, y) => ByteAt(c, x) < ByteAt(c, y)
  BY DEF Placed
<1>4. \A y \in D : /\ \A x \in B : Earlier(b, s, x, y) /\ ~Earlier(b, s, y, x)
                   /\ \A x \in D : Earlier(b, s, x, y) => x < y
  BY BlockOrder
<1>5. \A q \in B : q \notin D
  <2>1. ASSUME NEW q \in B, q \in D PROVE FALSE
    <3>1. Earlier(b, s, q, q) /\ ~Earlier(b, s, q, q)
      BY <1>4, <2>1
    <3> QED BY <3>1
  <2> QED BY <2>1
<1> HIDE DEF B, D, m, d
<1>6. e = Overlay(c, p, d)
  BY DEF d, m
<1>7. d # <<>>
  BY <1>1, <1>2
<1>8. PICK k \in Nat : k = Len(c)
  OBVIOUS
<1>9. Len(e) = Greater(k, p + m)
  <2>1. Len(Overlay(c, p, d)) = Greater(Len(c), p + Len(d))
    BY <1>1, <1>2, <1>7, OverlayAt
  <2> QED BY <1>2, <1>6, <1>8, <2>1
<1>10. \A q \in Nat : p <= q /\ q < p + m => e[q + 1] = d[q - p + 1]
  <2>1. \A q \in Nat : p <= q /\ q < p + Len(d) => Overlay(c, p, d)[q + 1] = d[q - p + 1]
    BY <1>1, <1>2, <1>7, OverlayAt
  <2> QED BY <1>2, <1>6, <2>1
<1>11. \A q \in Nat : q < k /\ ~(p <= q /\ q < p + m) => e[q + 1] = c[q + 1]
  <2>1. \A q \in Nat : q < Len(c) /\ ~(p <= q /\ q < p + Len(d))
                          => Overlay(c, p, d)[q + 1] = c[q + 1]
    BY <1>1, <1>2, <1>7, OverlayAt
  <2> QED BY <1>2, <1>6, <1>8, <2>1
<1>12. ASSUME NEW q \in D PROVE q < Len(e) /\ ByteAt(e, q) = w1 + (q - p)
  <2>1. q \in Nat /\ p <= q /\ q < p + m
    BY <1>1
  <2>2. q - p + 1 \in 1..m /\ w1 + (q - p + 1) - 1 = w1 + (q - p)
    BY <1>1, <2>1
  <2>3. e[q + 1] = w1 + (q - p)
    BY <1>2, <1>10, <2>1, <2>2
  <2>4. q < Len(e)
    BY <1>1, <1>9, <2>1 DEF Greater
  <2> QED BY <2>3, <2>4 DEF ByteAt
<1>13. ASSUME NEW q \in B PROVE q < Len(e) /\ ByteAt(e, q) = ByteAt(c, q)
  <2>1. q \in Nat /\ q < k /\ ~(p <= q /\ q < p + m)
    BY <1>1, <1>3, <1>5, <1>8
  <2>2. e[q + 1] = c[q + 1]
    BY <1>11, <2>1
  <2>3. q < Len(e)
    BY <1>1, <1>9, <2>1 DEF Greater
  <2> QED BY <2>2, <2>3 DEF ByteAt
<1>14. ASSUME NEW q \in B \cup D PROVE q < Len(e) /\ ByteAt(e, q) \in 0..(w1 + m - 1)
  <2>1. CASE q \in B
    BY <1>1, <1>3, <1>13, <2>1
  <2>2. CASE q \in D
    BY <1>1, <1>12, <2>2
  <2> QED BY <1>14, <2>1, <2>2
<1>15. ASSUME NEW i \in 0..(w1 + m - 1) PROVE \E q \in B \cup D : ByteAt(e, q) = i
  <2>1. CASE i < w1
    <3>1. i \in 0..(w1 - 1)
      BY <2>1
    <3>2. PICK q \in B : ByteAt(c, q) = i
      BY <1>3, <3>1
    <3> QED BY <1>13, <3>2
  <2>2. CASE ~(i < w1)
    <3>1. PICK q \in D : q = p + (i - w1)
      <4>1. p + (i - w1) \in D
        BY <1>1, <2>2
      <4> QED BY <4>1
    <3>2. w1 + (q - p) = i
      BY <1>1, <3>1
    <3> QED BY <1>12, <3>1, <3>2
  <2> QED BY <2>1, <2>2
<1>16. ASSUME NEW x \in B \cup D, NEW y \in B \cup D, Earlier(b, s, x, y)
       PROVE  ByteAt(e, x) < ByteAt(e, y)
  <2>1. CASE x \in B /\ y \in B
    BY <1>3, <1>13, <1>16, <2>1
  <2>2. CASE x \in B /\ y \in D
    <3>1. ByteAt(e, x) \in 0..(w1 - 1)
      BY <1>3, <1>13, <2>2
    <3>2. ByteAt(e, y) = w1 + (y - p) /\ y \in Nat /\ p <= y
      BY <1>1, <1>12, <2>2
    <3> QED BY <1>1, <3>1, <3>2
  <2>3. CASE x \in D /\ y \in B
    BY <1>4, <1>16, <2>3
  <2>4. CASE x \in D /\ y \in D
    <3>1. x < y /\ x \in Nat /\ y \in Nat
      BY <1>1, <1>4, <1>16, <2>4
    <3>2. ByteAt(e, x) = w1 + (x - p) /\ ByteAt(e, y) = w1 + (y - p)
      BY <1>12, <2>4
    <3> QED BY <1>1, <3>1, <3>2
  <2> QED BY <1>16, <2>1, <2>2, <2>3, <2>4
<1>17. Len(e) <= n
  BY <1>1, <1>8, <1>9 DEF Greater
<1>18. Placed(b, s, e, A, t)
  <2>1. A = B \cup D
    BY DEF B, D
  <2>2. t = w1 + m
    BY DEF m
  <2>3. \A q \in A : q < Len(e) /\ ByteAt(e, q) \in 0..(t - 1)
    <3>1. t - 1 = w1 + m - 1
      BY <1>1, <2>2
    <3>2. ASSUME NEW q \in A PROVE q < Len(e) /\ ByteAt(e, q) \in 0..(t - 1)
      BY <1>14, <2>1, <3>1
    <3> QED BY <3>2
  <2>4. \A i \in 0..(t - 1) : \E q \in A : ByteAt(e, q) = i
    <3>1. t - 1 = w1 + m - 1
      BY <1>1, <2>2
    <3>2. ASSUME NEW i \in 0..(t - 1) PROVE \E q \in A : ByteAt(e, q) = i
      <4>1. i \in 0..(w1 + m - 1)
        BY <3>1
      <4> QED BY <1>15, <2>1, <4>1
    <3> QED BY <3>2
  <2>5. \A x, y \in A : Earlier(b, s, x, y) => ByteAt(e, x) < ByteAt(e, y)
    BY <1>16, <2>1
  <2> QED BY <2>3, <2>4, <2>5 DEF Placed
<1> QED BY <1>17, <1>18

-----------------------------------------------------------------------------
(* stridecat61 and ostridecat61                                                *)

LEMMA StridesFacts ==
    ASSUME FilesInv, StridesInv, Runs(Striding)
    PROVE  /\ job.b \in Nat \ {0} /\ job.s \in Nat \ {0} /\ size \in Nat
           /\ ReaderInv /\ WriterInv /\ v \in LocalsType
           /\ v.pos \in Nat /\ v.written \in 0..size
           /\ input.kind = "file" /\ got \in Seq(Int)
           /\ Position \in Nat /\ Content \in Seq(Int)
           /\ pc # "done" => call.op \in {"none", "read"}
           /\ call.op = "read" => pc = "check"
           /\ v.written < size =>
                 /\ Begins(job.b, job.s, size, v.pos)
                 /\ v.block_size = Width(job.b, job.s, v.pos)
                 /\ v.block_size \in Nat \ {0}
                 /\ v.pos < size /\ Ahead \in 1..(size - v.pos)
                 /\ Ahead = Lesser(v.block_size, size - v.pos)
                 /\ v.written + Ahead <= size
<1>1. /\ job.b \in Nat \ {0} /\ job.s \in Nat \ {0} /\ size \in Nat
      /\ ReaderInv /\ WriterInv /\ v \in LocalsType
      /\ Position \in Nat /\ Content \in Seq(Int)
      /\ pc # "done" => call.op \in {"none", "read"}
      /\ call.op = "read" => pc = "check"
  BY JobFacts DEF FilesInv
<1>2. input.kind = "file" /\ got \in Seq(Int)
  <2>1. job.program # "cat61" /\ got \in Seq(Nat)
    BY JobFacts DEF Runs, Striding
  <2> QED BY <2>1, JobFacts
<1>3. v.pos \in Nat /\ v.written \in 0..size
  BY <1>1 DEF LocalsType, StridesInv
<1>4. ASSUME v.written < size
      PROVE  /\ Begins(job.b, job.s, size, v.pos)
             /\ v.block_size = Width(job.b, job.s, v.pos)
             /\ v.block_size \in Nat \ {0}
             /\ v.pos < size /\ Ahead \in 1..(size - v.pos)
             /\ Ahead = Lesser(v.block_size, size - v.pos)
             /\ v.written + Ahead <= size
  <2> DEFINE b == job.b  s == job.s  n == size  p == v.pos
  <2>1. /\ Begins(b, s, n, p) /\ v.block_size = Width(b, s, p)
        /\ Cardinality(Before(b, s, n, p)) = v.written
    BY <1>4 DEF StridesInv
  <2>2. Ahead = Amount(b, s, n, p) /\ Ahead = Lesser(v.block_size, n - p)
    BY <2>1 DEF Ahead, Amount
  <2>3. PICK A : A = Before(b, s, n, p) \cup Block(b, s, n, p)
    OBVIOUS
  <2> HIDE DEF b, s, n, p
  <2>4. /\ b \in Nat \ {0} /\ s \in Nat \ {0} /\ n \in Nat
    BY <1>1 DEF b, s, n
  <2>5. p < n /\ Amount(b, s, n, p) \in 1..(n - p)
    BY <2>1, <2>4, BlockIn
  <2>6. Width(b, s, p) \in 1..b
    BY <2>1, <2>4, BlockFacts
  <2>7. Cardinality(A) = Cardinality(Before(b, s, n, p)) + Amount(b, s, n, p)
    BY <2>1, <2>3, <2>4, BlockCounts
  <2>8. Cardinality(A) <= n
    BY <2>1, <2>3, <2>4, BlockCounts
  <2>9. v.written + Ahead <= n
    BY <2>1, <2>2, <2>7, <2>8
  <2>10. v.block_size \in Nat \ {0}
    BY <2>1, <2>4, <2>6
  <2> QED BY <2>1, <2>2, <2>5, <2>9, <2>10 DEF b, s, n, p
<1> QED BY <1>1, <1>2, <1>3, <1>4

\* A block that the programs have read is not empty.
LEMMA StridesReads ==
    ASSUME FilesInv, StridesInv, Runs(Striding),
           pc = "check" /\ call.op = "none" => \E q \in Nat : got = Bytes(q, Ahead)
    PROVE  ~AtEnd
<1>1. ASSUME AtEnd PROVE FALSE
  <2>1. pc = "check" /\ call.op = "none" /\ got = <<>>
    BY <1>1 DEF AtEnd
  <2>2. PICK q \in Nat : got = Bytes(q, Ahead)
    BY <2>1
  <2>3. Ahead \in Nat /\ Ahead # 0
    <3>1. v.written < size
      BY <2>1 DEF StridesInv
    <3> QED BY <3>1, StridesFacts
  <2>4. Len(got) = Ahead
    BY <2>2, <2>3, BytesFacts
  <2> QED BY <2>1, <2>3, <2>4
<1> QED BY <1>1

\* Nothing else runs then.
LEMMA StridesOnly ==
    ASSUME FilesInv, StridesInv, Runs(Striding), [Next]_vars, ~AtEnd
    PROVE  \/ ReadBlock \/ ContinueRead \/ WriteStride \/ SeekStride \/ AllDone \/ Close
           \/ UNCHANGED vars
<1>1. job.program \in {"stridecat61", "ostridecat61"}
  BY DEF Runs, Striding
<1>2. pc \in {"top", "check", "seek", "close", "done"}
  BY DEF StridesInv
<1>3. ~(ReadChar \/ WriteChar \/ WriteBlock \/ SeekBack \/ SeekRandom \/ SeekSame)
  BY <1>1 DEF ReadChar, WriteChar, WriteBlock, SeekBack, SeekRandom, SeekSame, Runs
<1>4. ~(ReadBack \/ WriteBack \/ ReadRandom \/ WriteSame)
  BY <1>2 DEF ReadBack, WriteBack, ReadRandom, WriteSame
<1>5. ~Feeder
  BY <1>1, Feeds
<1> QED BY <1>3, <1>4, <1>5 DEF Next, Program, Exited

\* A step that leaves the locals alone.
LEMMA StridesStay ==
    ASSUME StridesInv, job' = job, input' = input, v' = v
    PROVE  /\ size' = size /\ Visited' = Visited /\ Ahead' = Ahead
           /\ (pc' \in {"top", "check", "seek", "close", "done"}
               /\ (pc' = "check" => v.written < size)
               /\ (pc' \in {"close", "done"} => v.written = size)) => StridesInv'
BY DEF StridesInv, Visited, Ahead, size

LEMMA StridecatNext ==
    ASSUME FilesInv, StridesInv, StridecatInv, Runs({"stridecat61"}), [Next]_vars
    PROVE  FilesInv' /\ StridesInv' /\ StridecatInv'
<1> DEFINE P == Position  C == Consumed
<1>1. job.program = "stridecat61" /\ Runs(Striding)
  BY DEF Runs, Striding
<1>2. /\ job.b \in Nat \ {0} /\ job.s \in Nat \ {0} /\ size \in Nat
      /\ ReaderInv /\ WriterInv /\ v \in LocalsType
      /\ v.pos \in Nat /\ v.written \in 0..size
      /\ input.kind = "file" /\ got \in Seq(Int)
      /\ P \in Nat /\ Content \in Seq(Int)
      /\ pc # "done" => call.op \in {"none", "read"}
      /\ call.op = "read" => pc = "check"
      /\ v.written < size =>
            /\ Begins(job.b, job.s, size, v.pos)
            /\ v.block_size \in Nat \ {0}
            /\ v.pos < size /\ Ahead \in 1..(size - v.pos)
            /\ Ahead = Lesser(v.block_size, size - v.pos)
  BY <1>1, StridesFacts
<1>3. /\ pc \in {"top", "check", "seek", "close", "done"}
      /\ pc = "check" => v.written < size
      /\ pc \in {"close", "done"} => v.written = size
  BY DEF StridesInv
<1>4. /\ pc = "top" /\ v.written < size => C = v.pos
      /\ call.op = "read" => C = v.pos /\ call.sz = v.block_size
      /\ pc = "check" /\ call.op = "none" => got = Bytes(v.pos, Ahead)
      /\ pc # "done" =>
            /\ P = v.written /\ Len(Content) = v.written
            /\ Sorted(job.b, job.s, Content, Visited)
      /\ pc = "done" =>
            /\ Len(out.content) = size
            /\ Sorted(job.b, job.s, out.content, 0..(size - 1))
  BY DEF StridecatInv
<1>5. ~AtEnd
  BY <1>1, <1>2, <1>4, StridesReads
<1>6. CASE ReadBlock
  <2>1. PICK n \in Amounts : Read(n)
    BY <1>6 DEF ReadBlock
  <2>2. /\ pc = "top" /\ pc' = "check" /\ job' = job /\ v' = v /\ NoOut /\ v.written < size
    BY <1>1, <1>6 DEF ReadBlock, Then, Runs
  <2>3. n = v.block_size /\ C = v.pos
    BY <1>1, <1>4, <2>2 DEF Amounts, Runs
  <2>4. /\ ReaderInv' /\ call.op = "none" /\ input' = input /\ Consumed' = C
        /\ input.bytes <= C \/ (call'.op = "read" /\ call'.sz = n)
    BY <1>2, <2>1, <2>2, <2>3, ReadBegins
  <2>5. ~(input.bytes <= C)
    BY <1>2, <2>2, <2>3 DEF size
  <2>6. FilesInv' /\ Content' = Content /\ Position' = P
    BY <2>2, <2>4, <2>5, OnlyReads
  <2>7. StridesInv' /\ size' = size /\ Visited' = Visited
    BY <2>2, <2>4, StridesStay
  <2> QED BY <1>4, <2>2, <2>3, <2>4, <2>5, <2>6, <2>7 DEF StridecatInv
<1>7. CASE ContinueRead
  <2>1. /\ FilesInv' /\ Content' = Content /\ Position' = P
        /\ call.op = "read" /\ pc = "check" /\ pc' = pc
        /\ job' = job /\ v' = v /\ input' = input
        /\ \/ call'.op = "read" /\ call'.sz = call.sz /\ Consumed' = C
           \/ call'.op = "none" /\ got' = Bytes(C, Lesser(call.sz, size - C))
    BY <1>7, Continues
  <2>2. C = v.pos /\ call.sz = v.block_size /\ v.written < size
    BY <1>3, <1>4, <2>1
  <2>3. Lesser(call.sz, size - C) = Ahead
    BY <1>2, <2>2
  <2>4. StridesInv' /\ size' = size /\ Visited' = Visited /\ Ahead' = Ahead
    BY <2>1, <2>2, StridesStay
  <2> QED BY <1>4, <2>1, <2>2, <2>3, <2>4 DEF StridecatInv
<1>8. CASE WriteStride
  <2>1. /\ Write(got) /\ pc = "check" /\ call.op = "none" /\ pc' = "seek" /\ job' = job /\ NoIn
        /\ v' = Advance([v EXCEPT !.written = @ + Len(got)])
    BY <1>8 DEF WriteStride, Then
  <2>2. /\ got = Bytes(v.pos, Ahead) /\ v.written < size
        /\ Begins(job.b, job.s, size, v.pos) /\ Ahead \in Nat
    BY <1>2, <1>3, <1>4, <2>1
  <2>3. Len(got) = Ahead
    BY <1>2, <2>2, BytesFacts
  <2>4. WriterInv' /\ Content' = Overlay(Content, P, got) /\ Position' = P + Len(got)
    BY <1>2, <2>1, WriteStep
  <2>5. input' = input /\ call' = call
    BY <2>1 DEF NoIn, readerVars
  <2>6. /\ v' \in LocalsType /\ v'.written = v.written + Ahead
        /\ v'.written \in 0..size
        /\ v'.written < size =>
              /\ Begins(job.b, job.s, size, v'.pos)
              /\ v'.block_size = Width(job.b, job.s, v'.pos)
              /\ Cardinality(Before(job.b, job.s, size, v'.pos)) = v'.written
        /\ Visited' = Visited \cup Block(job.b, job.s, size, v.pos)
        /\ Visited = Before(job.b, job.s, size, v.pos)
    BY <1>1, <2>1, <2>3, <2>5, StrideMoves
  <2>7. FilesInv'
    BY <1>1, <2>1, <2>4, <2>6, OnlyWrites DEF Striding
  <2>8. size' = size
    BY <2>5 DEF size
  <2>9. StridesInv'
    BY <2>1, <2>6, <2>8 DEF StridesInv
  <2>10. Sorted(job.b, job.s, Content', Visited \cup Block(job.b, job.s, size, v.pos))
    <3> DEFINE b == job.b  s == job.s  n == size  p == v.pos  c == Content  w1 == v.written
               e == Content'
    <3>1. /\ b \in Nat \ {0} /\ s \in Nat \ {0} /\ n \in Nat /\ Begins(b, s, n, p)
          /\ c \in Seq(Int) /\ w1 \in Nat /\ w1 = Len(c)
          /\ Sorted(b, s, c, Before(b, s, n, p))
          /\ Ahead = Amount(b, s, n, p) /\ Ahead \in Nat
      BY <1>2, <1>4, <2>1, <2>2, <2>6 DEF Ahead
    <3>2. e = Overlay(c, w1, Bytes(p, Amount(b, s, n, p)))
      BY <1>4, <2>1, <2>2, <2>4, <3>1
    <3> HIDE DEF b, s, n, p, c, w1, e
    <3>3. PICK A : A = Before(b, s, n, p) \cup Block(b, s, n, p)
      OBVIOUS
    <3>4. Sorted(b, s, e, A)
      BY <3>1, <3>2, <3>3, SortedGrows
    <3> QED BY <2>6, <3>3, <3>4 DEF b, s, n, p, e
  <2>11. Position' = v'.written /\ Len(Content') = v'.written
    <3>1. Content' = Content \o got
      BY <1>2, <1>4, <2>1, <2>4, OverlayAppends
    <3>2. Len(Content \o got) = Len(Content) + Len(got)
      BY <1>2
    <3> QED BY <1>4, <2>1, <2>3, <2>4, <2>6, <3>1, <3>2
  <2>12. Sorted(job.b, job.s, Content', Visited')
    BY <2>6, <2>10
  <2> QED BY <2>1, <2>5, <2>7, <2>9, <2>11, <2>12 DEF StridecatInv
<1>9. CASE SeekStride
  <2>1. Seek(v.pos) /\ pc = "seek" /\ pc' = "top" /\ job' = job /\ v' = v /\ NoOut
    BY <1>1, <1>9 DEF SeekStride, Then, Runs
  <2>2. ReaderInv' /\ call.op = "none" /\ call' = call /\ input' = input /\ Consumed' = v.pos
    BY <1>2, <2>1, SeekMoves
  <2>3. FilesInv' /\ Content' = Content /\ Position' = P
    BY <2>1, <2>2, OnlyReads
  <2>4. StridesInv' /\ size' = size /\ Visited' = Visited
    BY <2>1, <2>2, StridesStay
  <2> QED BY <1>4, <2>1, <2>2, <2>3, <2>4 DEF StridecatInv
<1>10. CASE AllDone
  <2>1. /\ pc = "top" /\ pc' = "close" /\ job' = job /\ v' = v /\ NoIn /\ NoOut
        /\ v.written >= size
    BY <1>1, <1>10 DEF AllDone, Then, Runs
  <2>2. ReaderInv' /\ Consumed' = C /\ call' = call /\ input' = input
    BY <1>2, <2>1, ReaderStill DEF NoIn, readerVars
  <2>3. FilesInv' /\ Content' = Content /\ Position' = P
    BY <1>2, <2>1, <2>2, OnlyReads
  <2>4. v.written = size
    BY <1>2, <2>1
  <2>5. StridesInv' /\ size' = size /\ Visited' = Visited
    BY <2>1, <2>2, <2>4, StridesStay
  <2> QED BY <1>2, <1>4, <2>1, <2>2, <2>3, <2>5 DEF StridecatInv
<1>11. CASE Close
  <2>1. /\ FilesInv' /\ pc = "close" /\ pc' = "done" /\ job' = job /\ v' = v
        /\ input' = input /\ out'.content = Content
    BY <1>11, Closes
  <2>2. call'.op # "read"
    BY <2>1 DEF FilesInv
  <2>3. v.written = size
    BY <1>3, <2>1
  <2>4. StridesInv' /\ size' = size
    BY <2>1, <2>3, StridesStay
  <2>5. Visited = 0..(size - 1)
    BY <1>2, <2>3 DEF Visited
  <2> QED BY <1>4, <2>1, <2>2, <2>3, <2>4, <2>5 DEF StridecatInv
<1>12. CASE UNCHANGED vars
  <2>1. /\ FilesInv' /\ pc' = pc /\ job' = job /\ v' = v /\ got' = got
        /\ call' = call /\ input' = input /\ out' = out
        /\ Consumed' = C /\ Content' = Content /\ Position' = P
    BY <1>12, Stutters
  <2>2. StridesInv' /\ size' = size /\ Visited' = Visited /\ Ahead' = Ahead
    BY <1>3, <2>1, StridesStay
  <2> QED BY <1>4, <2>1, <2>2 DEF StridecatInv
<1> QED BY <1>1, <1>5, <1>6, <1>7, <1>8, <1>9, <1>10, <1>11, <1>12, StridesOnly

LEMMA OstridecatNext ==
    ASSUME FilesInv, StridesInv, OstridecatInv, Runs({"ostridecat61"}), [Next]_vars
    PROVE  FilesInv' /\ StridesInv' /\ OstridecatInv'
<1> DEFINE P == Position  C == Consumed
<1>1. job.program = "ostridecat61" /\ Runs(Striding)
  BY DEF Runs, Striding
<1>2. /\ job.b \in Nat \ {0} /\ job.s \in Nat \ {0} /\ size \in Nat
      /\ ReaderInv /\ WriterInv /\ v \in LocalsType
      /\ v.pos \in Nat /\ v.written \in 0..size
      /\ input.kind = "file" /\ got \in Seq(Int)
      /\ P \in Nat /\ Content \in Seq(Int)
      /\ pc # "done" => call.op \in {"none", "read"}
      /\ call.op = "read" => pc = "check"
      /\ v.written < size =>
            /\ Begins(job.b, job.s, size, v.pos)
            /\ v.pos < size /\ Ahead \in 1..(size - v.pos)
            /\ Ahead = Lesser(v.block_size, size - v.pos)
            /\ v.written + Ahead <= size
  BY <1>1, StridesFacts
<1>3. /\ pc \in {"top", "check", "seek", "close", "done"}
      /\ pc = "check" => v.written < size
      /\ pc \in {"close", "done"} => v.written = size
  BY DEF StridesInv
<1>4. /\ pc \in {"top", "seek"} \/ call.op = "read" => C = v.written
      /\ pc \in {"top", "check"} /\ v.written < size => P = v.pos
      /\ call.op = "read" => call.sz = Ahead
      /\ pc = "check" /\ call.op = "none" =>
            got = Bytes(v.written, Ahead) /\ C = v.written + Ahead
      /\ pc # "done" =>
            Len(Content) <= size /\ Placed(job.b, job.s, Content, Visited, v.written)
      /\ pc = "done" =>
            /\ out.content \in Seq(Int) /\ Len(out.content) <= size
            /\ Placed(job.b, job.s, out.content, 0..(size - 1), size)
  BY DEF OstridecatInv
<1>5. ~AtEnd
  <2>1. v.written \in Nat
    BY <1>2
  <2> QED BY <1>1, <1>2, <1>4, <2>1, StridesReads
<1>6. CASE ReadBlock
  <2>1. PICK n \in Amounts : Read(n)
    BY <1>6 DEF ReadBlock
  <2>2. /\ pc = "top" /\ pc' = "check" /\ job' = job /\ v' = v /\ NoOut /\ v.written < size
    BY <1>1, <1>6 DEF ReadBlock, Then, Runs
  <2>3. n = Lesser(v.block_size, size - v.pos) /\ C = v.written
    BY <1>1, <1>4, <2>2 DEF Amounts, Runs
  <2>4. n = Ahead /\ n \in Nat \ {0}
    BY <1>2, <2>2, <2>3
  <2>5. /\ ReaderInv' /\ call.op = "none" /\ input' = input /\ Consumed' = C
        /\ input.bytes <= C \/ (call'.op = "read" /\ call'.sz = n)
    BY <1>2, <2>1, <2>4, ReadBegins
  <2>6. ~(input.bytes <= C)
    BY <1>2, <2>2, <2>3 DEF size
  <2>7. FilesInv' /\ Content' = Content /\ Position' = P
    BY <2>2, <2>5, <2>6, OnlyReads
  <2>8. StridesInv' /\ size' = size /\ Visited' = Visited /\ Ahead' = Ahead
    BY <2>2, <2>5, StridesStay
  <2> QED BY <1>4, <2>2, <2>3, <2>4, <2>5, <2>6, <2>7, <2>8 DEF OstridecatInv
<1>7. CASE ContinueRead
  <2>1. /\ FilesInv' /\ Content' = Content /\ Position' = P
        /\ call.op = "read" /\ pc = "check" /\ pc' = pc
        /\ job' = job /\ v' = v /\ input' = input
        /\ \/ call'.op = "read" /\ call'.sz = call.sz /\ Consumed' = C
           \/ /\ call'.op = "none" /\ got' = Bytes(C, Lesser(call.sz, size - C))
              /\ Consumed' = C + Lesser(call.sz, size - C)
    BY <1>7, Continues
  <2>2. C = v.written /\ call.sz = Ahead /\ v.written < size
    BY <1>3, <1>4, <2>1
  <2>3. Lesser(call.sz, size - C) = Ahead
    BY <1>2, <2>2 DEF Lesser
  <2>4. StridesInv' /\ size' = size /\ Visited' = Visited /\ Ahead' = Ahead
    BY <2>1, <2>2, StridesStay
  <2> QED BY <1>4, <2>1, <2>2, <2>3, <2>4 DEF OstridecatInv
<1>8. CASE WriteStride
  <2>1. /\ Write(got) /\ pc = "check" /\ call.op = "none" /\ pc' = "seek" /\ job' = job /\ NoIn
        /\ v' = Advance([v EXCEPT !.written = @ + Len(got)])
    BY <1>8 DEF WriteStride, Then
  <2>2. /\ got = Bytes(v.written, Ahead) /\ v.written < size /\ P = v.pos
        /\ C = v.written + Ahead
        /\ Begins(job.b, job.s, size, v.pos) /\ Ahead \in Nat /\ v.written \in Nat
    BY <1>2, <1>3, <1>4, <2>1
  <2>3. Len(got) = Ahead
    BY <2>2, BytesFacts
  <2>4. WriterInv' /\ Content' = Overlay(Content, P, got)
    BY <1>2, <2>1, WriteStep
  <2>5. input' = input /\ call' = call
    BY <2>1 DEF NoIn, readerVars
  <2>6. /\ v' \in LocalsType /\ v'.written = v.written + Ahead
        /\ v'.written \in 0..size
        /\ v'.written < size =>
              /\ Begins(job.b, job.s, size, v'.pos)
              /\ v'.block_size = Width(job.b, job.s, v'.pos)
              /\ Cardinality(Before(job.b, job.s, size, v'.pos)) = v'.written
        /\ Visited' = Visited \cup Block(job.b, job.s, size, v.pos)
        /\ Visited = Before(job.b, job.s, size, v.pos)
    BY <1>1, <2>1, <2>3, <2>5, StrideMoves
  <2>7. FilesInv' /\ Consumed' = C
    BY <1>1, <2>1, <2>4, <2>6, OnlyWrites DEF Striding
  <2>8. size' = size
    BY <2>5 DEF size
  <2>9. StridesInv'
    BY <2>1, <2>6, <2>8 DEF StridesInv
  <2>10. /\ Len(Content') <= size
         /\ Placed(job.b, job.s, Content', Visited \cup Block(job.b, job.s, size, v.pos),
                   v'.written)
    <3> DEFINE b == job.b  s == job.s  n == size  p == v.pos  c == Content  w1 == v.written
               e == Content'  t == v'.written
    <3>1. /\ b \in Nat \ {0} /\ s \in Nat \ {0} /\ n \in Nat /\ Begins(b, s, n, p)
          /\ c \in Seq(Int) /\ w1 \in Nat /\ Len(c) <= n
          /\ Placed(b, s, c, Before(b, s, n, p), w1)
          /\ Ahead = Amount(b, s, n, p) /\ t \in Nat /\ t = w1 + Amount(b, s, n, p)
      BY <1>2, <1>4, <2>1, <2>2, <2>6 DEF Ahead
    <3>2. e = Overlay(c, p, Bytes(w1, Amount(b, s, n, p)))
      BY <2>2, <2>4, <3>1
    <3> HIDE DEF b, s, n, p, c, w1, e, t
    <3>3. PICK A : A = Before(b, s, n, p) \cup Block(b, s, n, p)
      OBVIOUS
    <3>4. Placed(b, s, e, A, t)
      BY <3>1, <3>2, <3>3, PlacedGrows
    <3>5. Len(e) <= n
      BY <3>1, <3>2, <3>3, PlacedGrows
    <3> QED BY <2>6, <3>3, <3>4, <3>5 DEF b, s, n, p, e, t
  <2>11. Placed(job.b, job.s, Content', Visited', v'.written)
    BY <2>6, <2>10
  <2>12. Consumed' = v'.written
    BY <2>2, <2>6, <2>7
  <2> QED BY <2>1, <2>5, <2>7, <2>8, <2>9, <2>10, <2>11, <2>12 DEF OstridecatInv
<1>9. CASE SeekStride
  <2>1. SeekOut(v.pos) /\ pc = "seek" /\ pc' = "top" /\ job' = job /\ v' = v /\ NoIn
    BY <1>1, <1>9 DEF SeekStride, Then, Runs
  <2>2. WriterInv' /\ Content' = Content /\ Position' = v.pos
    BY <1>2, <2>1, SeekOutMoves
  <2>3. call.op = "none"
    BY <1>2, <2>1
  <2>4. FilesInv' /\ Consumed' = C /\ call' = call /\ input' = input
    BY <1>1, <1>2, <2>1, <2>2, <2>3, OnlyWrites DEF Striding
  <2>5. StridesInv' /\ size' = size /\ Visited' = Visited
    BY <2>1, <2>4, StridesStay
  <2> QED BY <1>4, <2>1, <2>2, <2>3, <2>4, <2>5 DEF OstridecatInv
<1>10. CASE AllDone
  <2>1. /\ pc = "top" /\ pc' = "close" /\ job' = job /\ v' = v /\ NoIn /\ NoOut
        /\ v.written >= size
    BY <1>1, <1>10 DEF AllDone, Then, Runs
  <2>2. ReaderInv' /\ Consumed' = C /\ call' = call /\ input' = input
    BY <1>2, <2>1, ReaderStill DEF NoIn, readerVars
  <2>3. FilesInv' /\ Content' = Content /\ Position' = P
    BY <1>2, <2>1, <2>2, OnlyReads
  <2>4. v.written = size
    BY <1>2, <2>1
  <2>5. StridesInv' /\ size' = size /\ Visited' = Visited
    BY <2>1, <2>2, <2>4, StridesStay
  <2> QED BY <1>2, <1>4, <2>1, <2>2, <2>3, <2>5 DEF OstridecatInv
<1>11. CASE Close
  <2>1. /\ FilesInv' /\ pc = "close" /\ pc' = "done" /\ job' = job /\ v' = v
        /\ input' = input /\ out'.content = Content
    BY <1>11, Closes
  <2>2. call'.op # "read"
    BY <2>1 DEF FilesInv
  <2>3. v.written = size
    BY <1>3, <2>1
  <2>4. StridesInv' /\ size' = size
    BY <2>1, <2>3, StridesStay
  <2>5. Visited = 0..(size - 1)
    BY <1>2, <2>3 DEF Visited
  <2> QED BY <1>2, <1>4, <2>1, <2>2, <2>3, <2>4, <2>5 DEF OstridecatInv
<1>12. CASE UNCHANGED vars
  <2>1. /\ FilesInv' /\ pc' = pc /\ job' = job /\ v' = v /\ got' = got
        /\ call' = call /\ input' = input /\ out' = out
        /\ Consumed' = C /\ Content' = Content /\ Position' = P
    BY <1>12, Stutters
  <2>2. StridesInv' /\ size' = size /\ Visited' = Visited /\ Ahead' = Ahead
    BY <1>3, <2>1, StridesStay
  <2> QED BY <1>4, <2>1, <2>2 DEF OstridecatInv
<1> QED BY <1>1, <1>5, <1>6, <1>7, <1>8, <1>9, <1>10, <1>11, <1>12, StridesOnly

-----------------------------------------------------------------------------
(* The invariant holds                                                         *)

\* What the programs have written when they are done is the copy they promise.
LEMMA SortedIsCopy ==
    ASSUME FilesInv, Runs({"stridecat61"}), NEW c, Len(c) = size,
           Sorted(job.b, job.s, c, 0..(size - 1))
    PROVE  CopyOf(c)
<1>1. job.b \in Nat \ {0} /\ job.s \in Nat \ {0} /\ size \in Nat
  BY JobFacts
<1>2. /\ \A i \in 1..size : c[i] \in 0..(size - 1)
      /\ \A x \in 0..(size - 1) : \E i \in 1..size : c[i] = x
      /\ \A i, j \in 1..size : i < j => Earlier(job.b, job.s, c[i], c[j])
  BY DEF Sorted
<1>3. {c[i] : i \in 1..size} = 0..(size - 1)
  BY <1>2
<1>4. ASSUME NEW p \in 1..size, NEW q \in 1..size, p < q
      PROVE  StrideOrder(c[p]) < StrideOrder(c[q])
  BY <1>1, <1>2, <1>4, OrderIsEarlier
<1> QED BY <1>3, <1>4 DEF CopyOf, Runs

LEMMA PlacedIsCopy ==
    ASSUME FilesInv, Runs({"ostridecat61"}), NEW c \in Seq(Int), Len(c) <= size,
           Placed(job.b, job.s, c, 0..(size - 1), size)
    PROVE  CopyOf(c)
<1>1. job.b \in Nat \ {0} /\ job.s \in Nat \ {0} /\ size \in Nat
  BY JobFacts
<1>2. /\ \A q \in 0..(size - 1) : q < Len(c) /\ ByteAt(c, q) \in 0..(size - 1)
      /\ \A k \in 0..(size - 1) : \E q \in 0..(size - 1) : ByteAt(c, q) = k
      /\ \A x, y \in 0..(size - 1) :
            Earlier(job.b, job.s, x, y) => ByteAt(c, x) < ByteAt(c, y)
  BY DEF Placed
<1>3. Len(c) = size
  <2>1. Len(c) \in Nat
    OBVIOUS
  <2>2. CASE size # 0
    <3>1. size - 1 < Len(c)
      BY <1>1, <1>2, <2>2
    <3> QED BY <1>1, <2>1, <3>1
  <2>3. CASE size = 0
    BY <2>1, <2>3
  <2> QED BY <2>2, <2>3
<1>4. ASSUME NEW i \in 1..size
      PROVE  i - 1 \in 0..(size - 1) /\ c[i] = ByteAt(c, i - 1)
  BY <1>1 DEF ByteAt
<1>5. {c[i] : i \in 1..size} = 0..(size - 1)
  <2>1. ASSUME NEW i \in 1..size PROVE c[i] \in 0..(size - 1)
    BY <1>2, <1>4
  <2>2. ASSUME NEW k \in 0..(size - 1) PROVE \E i \in 1..size : c[i] = k
    <3>1. PICK q \in 0..(size - 1) : ByteAt(c, q) = k
      BY <1>2
    <3>2. q + 1 \in 1..size /\ c[q + 1] = k
      BY <1>1, <3>1 DEF ByteAt
    <3> QED BY <3>2
  <2> QED BY <2>1, <2>2
<1>6. ASSUME NEW p \in 1..size, NEW q \in 1..size,
             StrideOrder(p - 1) < StrideOrder(q - 1)
      PROVE  c[p] < c[q]
  <2>1. PICK x \in 0..(size - 1) : x = p - 1
    BY <1>4
  <2>2. PICK y \in 0..(size - 1) : y = q - 1
    BY <1>4
  <2>3. Earlier(job.b, job.s, x, y)
    BY <1>1, <1>6, <2>1, <2>2, OrderIsEarlier
  <2>4. ByteAt(c, x) < ByteAt(c, y)
    BY <1>2, <2>3
  <2> QED BY <1>4, <2>1, <2>2, <2>4
<1> QED BY <1>3, <1>5, <1>6 DEF CopyOf, Runs

IInv ==
    /\ FilesInv
    /\ Runs(Sequential) => SequentialInv
    /\ Runs({"reverse61"}) => ReverseInv
    /\ Runs({"reordercat61"}) => ReorderInv
    /\ Runs(Striding) => StridesInv
    /\ Runs({"stridecat61"}) => StridecatInv
    /\ Runs({"ostridecat61"}) => OstridecatInv

LEMMA InvCopyExact == IInv => CopyExact
<1> SUFFICES ASSUME IInv, pc = "done" PROVE CopyOf(out.content)
  BY DEF CopyExact
<1>1. FilesInv /\ job.program \in Programs /\ job.b \in Nat \ {0} /\ size \in Nat
  BY JobFacts DEF IInv
<1>2. CASE Runs(Sequential)
  BY <1>2 DEF IInv, SequentialInv, CopyOf, Runs, Sequential
<1>3. CASE Runs({"reverse61"})
  BY <1>3 DEF IInv, ReverseInv, Backwards, CopyOf, Runs
<1>4. CASE Runs({"reordercat61"})
  BY <1>4 DEF IInv, ReorderInv, Blocks, CopyOf, Runs
<1>5. CASE Runs({"stridecat61"})
  <2>1. StridecatInv
    BY <1>5 DEF IInv
  <2> QED BY <1>1, <1>5, <2>1, SortedIsCopy DEF StridecatInv
<1>6. CASE Runs({"ostridecat61"})
  <2>1. OstridecatInv
    BY <1>6 DEF IInv
  <2> QED BY <1>1, <1>6, <2>1, PlacedIsCopy DEF OstridecatInv
<1> QED BY <1>1, <1>2, <1>3, <1>4, <1>5, <1>6 DEF Programs, Runs, Sequential

LEMMA NextInv ==
    ASSUME CatMeetsNo255, IInv, [Next]_vars
    PROVE  IInv'
<1>1. FilesInv /\ job.program \in Programs
  BY JobFacts DEF IInv
<1>2. job' = job
  BY DEF Next, Program, Exited, vars, Then, Feeder, ReadChar, ReadBlock, ContinueRead,
         AtEnd, WriteChar, WriteBlock, WriteStride, SeekStride, SeekBack, ReadBack,
         WriteBack, SeekRandom, ReadRandom, SeekSame, WriteSame, AllDone, Close
<1>3. CASE Runs(Sequential)
  <2>1. FilesInv' /\ SequentialInv'
    BY <1>3, SequentialNext DEF IInv
  <2> QED BY <1>2, <1>3, <2>1 DEF IInv, Runs, Sequential, Striding
<1>4. CASE Runs({"reverse61"})
  <2>1. FilesInv' /\ ReverseInv'
    BY <1>4, ReverseNext DEF IInv
  <2> QED BY <1>2, <1>4, <2>1 DEF IInv, Runs, Sequential, Striding
<1>5. CASE Runs({"reordercat61"})
  <2>1. FilesInv' /\ ReorderInv'
    BY <1>5, ReorderNext DEF IInv
  <2> QED BY <1>2, <1>5, <2>1 DEF IInv, Runs, Sequential, Striding
<1>6. CASE Runs({"stridecat61"})
  <2>1. StridesInv /\ StridecatInv
    BY <1>6 DEF IInv, Runs, Striding
  <2>2. FilesInv' /\ StridesInv' /\ StridecatInv'
    BY <1>1, <1>6, <2>1, StridecatNext
  <2> QED BY <1>2, <1>6, <2>2 DEF IInv, Runs, Sequential
<1>7. CASE Runs({"ostridecat61"})
  <2>1. StridesInv /\ OstridecatInv
    BY <1>7 DEF IInv, Runs, Striding
  <2>2. FilesInv' /\ StridesInv' /\ OstridecatInv'
    BY <1>1, <1>7, <2>1, OstridecatNext
  <2> QED BY <1>2, <1>7, <2>2 DEF IInv, Runs, Sequential
<1> QED BY <1>1, <1>3, <1>4, <1>5, <1>6, <1>7 DEF Programs, Runs, Sequential

\* Each program begins with nothing read and nothing written.
LEMMA InitFiles ==
    ASSUME Init
    PROVE  /\ FilesInv /\ pc = "top" /\ call.op = "none"
           /\ Consumed = 0 /\ Position = 0 /\ Content = <<>>
           /\ size \in Nat /\ size = job.input.bytes /\ v = Locals(job)
<1>1. /\ job \in Jobs /\ pc = "top" /\ v = Locals(job) /\ input = job.input
      /\ f = [caches |-> [i \in Slot |-> EmptyCache], currentCache |-> NoCache]
      /\ call = NoCall /\ got = <<>>
      /\ w = [open |-> TRUE, bufsize |-> 0, buf |-> <<>>]
      /\ out = [content |-> <<>>, pos |-> 0]
  BY DEF Init, ReaderInit, WriterInit, NothingWritten
<1>2. /\ job.b \in Nat \ {0} /\ job.s \in Nat \ {0} /\ input.bytes \in Nat
      /\ input = File(input.bytes) \/ input = EmptyPipe
  BY <1>1, JobAssumption
<1>3. /\ input \in InputType /\ (input.kind = "file" => input.ended)
      /\ input.kind = "pipe" => input.taken = 0
  <2>1. CASE input = File(input.bytes)
    <3> DEFINE n == input.bytes
    <3>1. n \in Nat /\ input = [kind |-> "file", bytes |-> n, taken |-> 0, ended |-> TRUE]
      BY <1>2, <2>1 DEF File
    <3> HIDE DEF n
    <3> QED BY <3>1 DEF InputType
  <2>2. CASE input = EmptyPipe
    BY <2>2 DEF EmptyPipe, InputType
  <2> QED BY <1>2, <2>1, <2>2
<1>4. EmptyCache \in CacheType
  BY DEF EmptyCache, CacheType
<1>5. f \in FileType /\ (\A i \in Slot : f.caches[i] = EmptyCache)
  BY <1>1, <1>4 DEF FileType
<1>6. Caches(f)
  BY <1>1, <1>5 DEF Caches, Held, CurrentFilled, EmptyCache
<1>7. call \in [op : {"none", "read", "crashed", "closed"}, sz : Nat,
                cache : Slot, buf : Seq(Nat)]
      /\ call.op = "none" /\ call.buf = <<>>
  <2>1. 0 \in Slot
    BY CacheAssumption DEF Slot
  <2> QED BY <1>1, <2>1 DEF NoCall
<1>8. CurrentAlive(f)
  BY <1>1 DEF CurrentAlive, Exhausted
<1>9. input.kind = "pipe" => InOrder(f, input.taken)
  BY <1>1, <1>2, <1>3 DEF InOrder
<1>10. ReaderInv /\ WriterInv
  <2>1. got \in Seq(Nat)
    BY <1>1
  <2>2. WriterInv
    BY <1>1 DEF WriterInv
  <2> QED BY <1>3, <1>6, <1>7, <1>8, <1>9, <2>1, <2>2 DEF ReaderInv
<1>11. Consumed = 0 /\ Position = 0 /\ Content = <<>>
  BY <1>1 DEF Consumed, Content, Position, Overlay
<1>12. v \in LocalsType /\ v.block_size = job.b
  <2>1. 0..((input.bytes \div job.b) - 1) \subseteq Nat
    OBVIOUS
  <2> QED BY <1>1, <1>2, <2>1 DEF Locals, LocalsType
<1> QED BY <1>1, <1>2, <1>7, <1>10, <1>11, <1>12 DEF FilesInv, size

LEMMA InitInv ==
    ASSUME CatMeetsNo255, Init
    PROVE  IInv
<1>1. /\ FilesInv /\ pc = "top" /\ call.op = "none"
      /\ Consumed = 0 /\ Position = 0 /\ Content = <<>>
      /\ size \in Nat /\ size = job.input.bytes /\ v = Locals(job)
  BY InitFiles
<1>2. /\ v.block_size = job.b /\ v.pos = 0 /\ v.written = 0 /\ v.in_size = size
      /\ v.permute = 0..(Blocks - 1)
  BY <1>1 DEF Locals, Blocks
<1>3. job.b \in Nat \ {0} /\ job.s \in Nat \ {0} /\ (job.program \in Striding => job.b <= job.s)
  BY <1>1, JobFacts
<1>4. SequentialInv
  <2>1. Content = Bytes(0, 0)
    BY <1>1 DEF Bytes
  <2>2. Runs({"cat61"}) => \A p \in Byte255 : size <= p
    BY <1>1 DEF Runs, CatMeetsNo255, FilesInv
  <2> QED BY <1>1, <2>1, <2>2 DEF SequentialInv
<1>5. ReverseInv
  <2>1. Content = Backwards(size, 0)
    BY <1>1 DEF Backwards
  <2> QED BY <1>1, <1>2, <2>1 DEF ReverseInv
<1>6. ReorderInv
  <2>1. ASSUME NEW q \in 0..(Blocks * job.b - 1) PROVE q \div job.b \in v.permute
    <3> DEFINE b == job.b  k == q \div b
    <3>1. Blocks \in Nat /\ q \in Nat /\ q < Blocks * b /\ b \in Nat \ {0}
      BY <1>1, <1>3, <2>1 DEF Blocks
    <3>2. k \in Nat /\ k * b <= q
      BY <3>1
    <3> HIDE DEF k, b
    <3>3. k < Blocks
      <4>1. ASSUME Blocks <= k PROVE FALSE
        <5>1. Blocks * b <= k * b
          BY <3>1, <3>2, <4>1
        <5> QED BY <3>1, <3>2, <5>1
      <4> QED BY <3>1, <3>2, <4>1
    <3> QED BY <1>2, <3>1, <3>2, <3>3 DEF k, b
  <2>2. Len(Content) <= Blocks * job.b
    <3> DEFINE b == job.b  n == size
    <3>1. Blocks = n \div b /\ n \in Nat /\ b \in Nat \ {0}
      BY <1>1, <1>3 DEF Blocks
    <3> HIDE DEF b, n
    <3>2. Blocks \in Nat
      BY <3>1
    <3>3. Len(Content) = 0
      BY <1>1
    <3> QED BY <1>3, <3>2, <3>3
  <2> QED BY <1>1, <1>2, <2>1, <2>2 DEF ReorderInv
<1>7. 0 < size => Begins(job.b, job.s, size, 0) /\ Before(job.b, job.s, size, 0) = {}
  <2> DEFINE b == job.b  s == job.s  n == size
  <2>1. b \in Nat \ {0} /\ s \in Nat \ {0} /\ n \in Nat
    BY <1>1, <1>3
  <2> HIDE DEF b, s, n
  <2>2. 0 % s = 0 /\ 0 % b = 0 /\ 0 \div b = 0
    BY <2>1
  <2>3. ASSUME NEW q \in 0..(n - 1) PROVE ~Earlier(b, s, q, 0)
    <3>1. Column(b, s, q) \in Nat /\ q \in Nat
      BY <2>1, ColumnNat
    <3>2. Column(b, s, 0) = 0
      BY <2>2 DEF Column
    <3> QED BY <3>1, <3>2 DEF Earlier
  <2>4. 0 < n => Begins(b, s, n, 0)
    BY <2>1, <2>2 DEF Begins
  <2>5. Before(b, s, n, 0) = {}
    BY <2>3 DEF Before
  <2> QED BY <2>4, <2>5 DEF b, s, n
<1>8. Visited = {}
  <2>1. CASE 0 < size
    BY <1>2, <1>7, <2>1 DEF Visited
  <2>2. CASE ~(0 < size)
    BY <1>1, <1>2, <2>2 DEF Visited
  <2> QED BY <2>1, <2>2
<1>9. Runs(Striding) => StridesInv
  <2>1. ASSUME Runs(Striding) PROVE v.block_size = Width(job.b, job.s, v.pos)
    <3>1. 0 % job.s = 0 /\ job.b <= job.s
      BY <1>3, <2>1 DEF Runs
    <3> QED BY <1>2, <1>3, <3>1 DEF Width, Lesser
  <2>2. Cardinality({}) = 0
    BY FS_EmptySet
  <2>3. v.written < size =>
           /\ Begins(job.b, job.s, size, v.pos)
           /\ Cardinality(Before(job.b, job.s, size, v.pos)) = v.written
    <3>1. v.written < size => Begins(job.b, job.s, size, v.pos)
      BY <1>2, <1>7
    <3>2. v.written < size => Before(job.b, job.s, size, v.pos) = {}
      BY <1>2, <1>7
    <3> QED BY <1>2, <2>2, <3>1, <3>2
  <2>4. v.written \in 0..size
    BY <1>1, <1>2
  <2> QED BY <1>1, <2>1, <2>3, <2>4 DEF StridesInv
<1>10. StridecatInv
  BY <1>1, <1>2, <1>8 DEF StridecatInv, Sorted
<1>11. OstridecatInv
  BY <1>1, <1>2, <1>8 DEF OstridecatInv, Placed
<1> QED BY <1>1, <1>4, <1>5, <1>6, <1>9, <1>10, <1>11 DEF IInv

\* Whatever the program, its options and its input, however much the caches
\* hold, and however the input was sought through: what is in the output file
\* when the program has ended is the copy that it is to make (pset4's programs,
\* which check.pl compares with the stdio library's).  Only cat61 has to meet no
\* byte 0xFF, which io61_readc returns as the end (io61.c 177-179).
THEOREM CopiesAreExact ==
    ASSUME CatMeetsNo255
    PROVE  Spec => []CopyExact
<1>1. Init => IInv
  BY InitInv
<1>2. IInv /\ [Next]_vars => IInv'
  BY NextInv
<1>3. IInv => CopyExact
  BY InvCopyExact
<1> QED BY <1>1, <1>2, <1>3, PTL DEF Spec
=============================================================================
