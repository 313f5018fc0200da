--------------------------------- MODULE Io61 ---------------------------------
(* An io61_file (io61.c), opened for reading or for writing, and a program    *)
(* that makes any calls in any order.  A program that takes input from a pipe *)
(* reads it with io61_readc only, see CharsFromPipes.                         *)
EXTENDS Io61Reader, Io61Writer

CONSTANTS
    Inputs,                       \* what an input can be when it is opened
    Sizes, Positions, Blocks,     \* what the program passes
    InputBound, OutputBound       \* the most bytes a pipe brings, a file gets

ASSUME InputAssumption ==
    \A in \in Inputs : in.bytes \in Nat /\ in \in {File(in.bytes), EmptyPipe}
ASSUME CallerAssumption ==
    /\ Sizes \subseteq Nat \ {0} /\ Positions \subseteq Nat
    /\ \A d \in Blocks : d \in Seq(Int) /\ d # <<>>

VARIABLE mode

vars == <<mode, f, call, got, input, w, out>>

\* io61_fdopen(fd, mode)
Init ==
    /\ mode \in {"O_RDONLY", "O_WRONLY"}
    /\ \E in \in Inputs : ReaderInit(in)
    /\ WriterInit

\* No program in the repository reads blocks from a pipe but blockcat61,
\* randomcat61 and pipeexchange61, for which io61_read does not work, see
\* PipeExchange.
CharsFromPipes == input.kind = "file"

ReaderStep ==
    \/ Readc
    \/ \E sz \in Sizes : CharsFromPipes /\ Read(sz)
    \/ ReadRound
    \/ \E pos \in Positions : Seek(pos) \/ SeekCrashes(pos)
    \/ CloseReader
    \/ \E n \in Sizes : input.bytes + n <= InputBound /\ Feed(n)
    \/ HangUp

WriterStep ==
    \/ \E d \in Blocks : /\ out.pos + Len(w.buf) + Len(d) <= OutputBound
                         /\ Write(d) \/ \E i \in DOMAIN d : Writec(d[i])
    \/ Flush
    \/ \E pos \in Positions : SeekOut(pos)
    \/ CloseWriter

Next ==
    \/ mode = "O_RDONLY" /\ ReaderStep /\ UNCHANGED <<mode, w, out>>
    \/ mode = "O_WRONLY" /\ WriterStep /\ UNCHANGED <<mode, f, call, got, input>>

Spec == Init /\ [][Next]_vars
=============================================================================
