--------------------------- MODULE Copy61Properties ---------------------------
EXTENDS Copy61

\* In which order stridecat61 visits the positions: column by column of blocks.
StrideOrder(p) == ((p % job.s) \div job.b) * size + p

\* What each program is to write, of an input whose bytes are 0, 1, 2...: a copy;
\* the bytes backwards; the whole blocks at their places; every byte once, in
\* the order of the strides, or at the place that order gives it.
CopyOf(c) ==
    CASE Runs({"cat61", "blockcat61", "randomcat61"}) -> c = Bytes(0, size)
      [] Runs({"reverse61"}) -> c = [i \in 1..size |-> size - i]
      [] Runs({"reordercat61"}) -> c = Bytes(0, (size \div job.b) * job.b)
      [] OTHER ->
            /\ Len(c) = size
            /\ {c[i] : i \in 1..size} = 0..(size - 1)
            /\ \A p, q \in 1..size :
                  IF Runs({"stridecat61"})
                  THEN p < q => StrideOrder(c[p]) < StrideOrder(c[q])
                  ELSE StrideOrder(p - 1) < StrideOrder(q - 1) => c[p] < c[q]

\* When a program has ended its output is what it is to be, through the caches
\* and buffers of two files and whatever seeks: check.pl compares the same
\* outputs with those of the stdio library.
CopyExact == pc = "done" => CopyOf(out.content)

\* Every program comes to its end: io61_read returns, and io61_readc returns EOF
\* in the end (io61.c 167-275).
CopyFinishes == <>(pc = "done")
=============================================================================
