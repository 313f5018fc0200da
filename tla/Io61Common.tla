------------------------------ MODULE Io61Common ------------------------------
(* What the two kinds of io61 file share.  A byte is named by a number: a   *)
(* byte of an input by its position there, so that it can be told which     *)
(* byte a caller gets.                                                      *)
EXTENDS Integers, Sequences

CONSTANT PAGESIZE
ASSUME PageAssumption == PAGESIZE \in Nat \ {0}

Lesser(a, b)  == IF a <= b THEN a ELSE b
Greater(a, b) == IF a <= b THEN b ELSE a

\* The n bytes of an input from position p on.
Bytes(p, n) == [i \in 1..n |-> p + i - 1]

\* A byte that was never written, in a file written beyond its end.
Hole == -1

\* The contents c of a file after d has been written at position p.
Overlay(c, p, d) ==
    IF d = <<>> THEN c
    ELSE [i \in 1..Greater(Len(c), p + Len(d)) |->
             IF p < i /\ i <= p + Len(d) THEN d[i - p]
             ELSE IF i <= Len(c) THEN c[i] ELSE Hole]
=============================================================================
