------------------------------- MODULE MCCopy61 -------------------------------
EXTENDS Copy61Properties
Job(program, b, s, in) == [program |-> program, b |-> b, s |-> s, input |-> in]
Files == {File(n) : n \in {0, 3, 4, 9, 13}}
NoBytes == {}
Byte13 == {13}
\* Byte 13 is beyond what cat61 gets.  Only block sizes with which io61_read
\* returns: those that divide a page and the file, or with which no cache is
\* drained exactly before one is in the middle of a block.
CopyJobs ==
    {Job("cat61", 1, 1, in) : in \in Files \cup {EmptyPipe}} \cup
    {Job("blockcat61", b, 1, in) : b \in {1, 2, 3, 4, 5, 7}, in \in Files} \cup
    {Job("blockcat61", 2, 1, File(14))} \cup
    {Job("reverse61", 1, 1, in) : in \in Files \cup {File(14)}} \cup
    {Job("reordercat61", b, 1, in) : b \in {2, 4}, in \in Files} \cup
    {Job("stridecat61", b, s, in) : b \in {1, 2}, s \in {2, 4, 6}, in \in Files} \cup
    {Job("ostridecat61", 1, s, in) : s \in {1, 2, 4, 7}, in \in Files} \cup
    {Job("ostridecat61", 2, s, File(8)) : s \in {2, 4, 6}} \cup
    {Job(program, 2, 3, File(4)) : program \in {"stridecat61", "ostridecat61"}}
RandomJobs == {Job("randomcat61", 4, 1, in) : in \in Files}
=============================================================================
