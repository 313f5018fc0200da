------------------------------- MODULE MCKernel -------------------------------
(* Small instances of the kernel for TLC.                                  *)
EXTENDS KernelProperties

Segment(text, data) == [text |-> text, data |-> data]

\* One program of one text page and one data page, loaded as process 1.
OneRoot(start) == << Segment({start}, {start + 1}) >>
ForkImage == [c \in {"fork"} |-> OneRoot(PROC_START)]
===============================================================================
