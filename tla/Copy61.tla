-------------------------------- MODULE Copy61 --------------------------------
(* The programs of pset4 that copy a file through io61: cat61, blockcat61,     *)
(* randomcat61, reverse61, reordercat61, stridecat61 and ostridecat61.  Each   *)
(* has an input inf (f, call, got, input) and an output outf (w, out); an      *)
(* action is a call into io61 with what the program does around it.            *)
EXTENDS Io61Reader, Io61Writer, FiniteSets

CONSTANTS
    Jobs,           \* which program, with which options, on which input
    ChunkSizes,     \* how much arrives through a pipe at a time
    InputBound      \* the most bytes a pipe brings

Programs == {"cat61", "blockcat61", "randomcat61", "reverse61", "reordercat61",
             "stridecat61", "ostridecat61"}

\* Blocks are not empty, as the programs assert.  Left out are a stride of 0,
\* by which they would divide, and strides below a block, with which they copy
\* bytes twice.  Only cat61 reads a pipe: the last four want to know the size
\* of their input, and io61_read does not work on pipes, see PipeExchange.
ASSUME JobAssumption ==
    \A j \in Jobs :
        /\ j.program \in Programs
        /\ j.b \in Nat \ {0} /\ j.s \in Nat \ {0}
        /\ j.program \in {"stridecat61", "ostridecat61"} => j.b <= j.s
        /\ j.input.bytes \in Nat
        /\ \/ j.input = File(j.input.bytes)
           \/ j.program = "cat61" /\ j.input = EmptyPipe
ASSUME ChunkAssumption == ChunkSizes \subseteq Nat /\ InputBound \in Nat

VARIABLES
    job,    \* program, -b, -s and the input
    pc,     \* what the program does next
    v       \* its local variables

vars == <<job, pc, v, f, call, got, input, w, out>>

size == input.bytes

\* npermute is the number of whole blocks; blocks are left to copy in any order.
Locals(j) == [block_size |-> j.b, pos |-> 0, written |-> 0,
              in_size |-> j.input.bytes,
              permute |-> 0..((j.input.bytes \div j.b) - 1)]
Init ==
    /\ job \in Jobs
    /\ pc = "top"
    /\ v = Locals(job)
    /\ ReaderInit(job.input)
    /\ WriterInit

Runs(programs) == job.program \in programs
Then(next) == pc' = next /\ UNCHANGED job
NoIn  == UNCHANGED readerVars
NoOut == UNCHANGED writerVars
-----------------------------------------------------------------------------
\* A character, a block, or a block of any size below block_size.
ReadChar ==
    /\ Runs({"cat61"}) /\ pc = "top"
    /\ Readc /\ Then("check") /\ NoOut /\ UNCHANGED v

Amounts ==
    CASE Runs({"randomcat61"}) -> {Greater(1, m) : m \in 0..(v.block_size - 1)}
      [] Runs({"ostridecat61"}) -> {Lesser(v.block_size, size - v.pos)}
      [] OTHER -> {v.block_size}
ReadBlock ==
    /\ Runs({"blockcat61", "randomcat61", "stridecat61", "ostridecat61"})
    /\ pc = "top"
    /\ Runs({"stridecat61", "ostridecat61"}) => v.written < size
    /\ \E n \in Amounts : Read(n)
    /\ Then("check") /\ NoOut /\ UNCHANGED v
ContinueRead == ReadRound /\ Then(pc) /\ NoOut /\ UNCHANGED v

\* Mistake: the loop goes on at the end of the input.
GoesOn ==
    /\ pc = "check" /\ call.op = "none" /\ got = <<>>
    /\ Then("top") /\ NoIn /\ NoOut /\ UNCHANGED v

\* Nothing was read: break.
AtEnd ==
    /\ pc = "check" /\ call.op = "none" /\ got = <<>>
    /\ Then("close") /\ NoIn /\ NoOut /\ UNCHANGED v

WriteChar ==
    /\ Runs({"cat61"}) /\ pc = "check" /\ got # <<>>
    /\ Writec(got[1]) /\ Then("top") /\ NoIn /\ UNCHANGED v
WriteBlock ==
    /\ Runs({"blockcat61", "randomcat61"})
    /\ pc = "check" /\ call.op = "none" /\ got # <<>>
    /\ Write(got) /\ Then("top") /\ NoIn /\ UNCHANGED v
-----------------------------------------------------------------------------
\* stridecat61 and ostridecat61: the next row of a column of blocks, or the top
\* of the next column, which may be narrower.
NextRow(u) == [u EXCEPT !.pos = @ + job.s]
\* Mistake: the last column may be wider than what is left of the stride.
WideColumn(u) == [u EXCEPT !.pos = (u.pos % job.s) + u.block_size]

NextColumn(u) ==
    LET pos == (u.pos % job.s) + u.block_size
    IN  [u EXCEPT !.pos = pos,
                  !.block_size = IF pos + @ > job.s THEN job.s - pos ELSE @]
Advance(u) == IF NextRow(u).pos >= size THEN NextColumn(NextRow(u)) ELSE NextRow(u)
WriteStride ==
    /\ Runs({"stridecat61", "ostridecat61"})
    /\ pc = "check" /\ call.op = "none" /\ got # <<>>
    /\ Write(got)
    /\ v' = Advance([v EXCEPT !.written = @ + Len(got)])
    /\ Then("seek") /\ NoIn
SeekStride ==
    /\ pc = "seek"
    /\ \/ Runs({"stridecat61"}) /\ Seek(v.pos) /\ NoOut
       \/ Runs({"ostridecat61"}) /\ SeekOut(v.pos) /\ NoIn
    /\ Then("top") /\ UNCHANGED v
-----------------------------------------------------------------------------
\* reverse61: from the last byte to the first.
SeekBack ==
    /\ Runs({"reverse61"}) /\ pc = "top" /\ v.in_size # 0
    /\ Seek(v.in_size - 1)
    /\ v' = [v EXCEPT !.in_size = @ - 1]
    /\ Then("readc") /\ NoOut
ReadBack ==
    /\ pc = "readc"
    /\ Readc /\ Then("writec") /\ NoOut /\ UNCHANGED v

\* What is written for an EOF is a byte 0xFF: the one that looked like an EOF, or
\* one that is not in the input.
Stray == -2
Char == IF got # <<>> THEN got[1]
        ELSE IF v.in_size \in Byte255 THEN v.in_size ELSE Stray
WriteBack ==
    /\ pc = "writec"
    /\ Writec(Char) /\ Then("top") /\ NoIn /\ UNCHANGED v

\* reordercat61: the whole blocks in a random order.
SeekRandom ==
    /\ Runs({"reordercat61"}) /\ pc = "top"
    /\ \E i \in v.permute :
          /\ Seek(i * v.block_size)
          /\ v' = [v EXCEPT !.permute = @ \ {i}, !.pos = i * v.block_size]
    /\ Then("read") /\ NoOut
ReadRandom ==
    /\ pc = "read"
    /\ Read(Lesser(v.block_size, size - v.pos))
    /\ Then("check") /\ NoOut /\ UNCHANGED v
SeekSame ==
    /\ Runs({"reordercat61"}) /\ pc = "check" /\ call.op = "none" /\ got # <<>>
    /\ SeekOut(v.pos) /\ Then("write") /\ NoIn /\ UNCHANGED v
WriteSame ==
    /\ pc = "write"
    /\ Write(got) /\ Then("top") /\ NoIn /\ UNCHANGED v

\* The condition of the loop fails.
AllDone ==
    /\ pc = "top"
    /\ \/ Runs({"reverse61"}) /\ v.in_size = 0
       \/ Runs({"reordercat61"}) /\ v.permute = {}
       \/ Runs({"stridecat61", "ostridecat61"}) /\ v.written >= size
    /\ Then("close") /\ NoIn /\ NoOut /\ UNCHANGED v
Close ==
    /\ pc = "close"
    /\ CloseReader /\ CloseWriter /\ Then("done") /\ UNCHANGED v

\* What feeds the pipe that cat61 reads.
Feeder ==
    /\ \/ \E n \in ChunkSizes : size + n <= InputBound /\ Feed(n)
       \/ HangUp
    /\ UNCHANGED <<job, pc, v, w, out>>

Program ==
    \/ ReadChar \/ ReadBlock \/ ContinueRead \/ AtEnd \/ WriteChar \/ WriteBlock
    \/ WriteStride \/ SeekStride \/ SeekBack \/ ReadBack \/ WriteBack
    \/ SeekRandom \/ ReadRandom \/ SeekSame \/ WriteSame \/ AllDone \/ Close
Exited == pc = "done" /\ UNCHANGED vars
Next == Program \/ Feeder \/ Exited

Spec == Init /\ [][Next]_vars

\* The program is scheduled, and whoever feeds the pipe goes on or closes it.
FairSpec == Spec /\ WF_vars(Program) /\ WF_vars(Feeder)
=============================================================================
