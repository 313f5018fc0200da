--------------------------- MODULE KernelImplements ---------------------------
(* The kernel implements private address spaces: what a process sees at a  *)
(* virtual page is what its page table entry leads to.                     *)
EXTENDS KernelProperties

SpaceOf(p) ==
    [va \in UserPages |->
        IF pte[p][va].perm = "none" THEN [perm |-> "none", val |-> "none"]
        ELSE [perm |-> pte[p][va].perm, val |-> memory[pte[p][va].pa]]]

StatusOf(p) == IF p_state[p] = P_FREE THEN "free"
               ELSE IF p_state[p] = P_BROKEN THEN "faulted" ELSE "ready"

\* A freshly booted process: the image as linked, and whatever was in the page
\* that became its stack.
BootSpace(c, i, junk) ==
    [va \in UserPages |->
        IF va = StackPage THEN [perm |-> "rw", val |-> junk[i]]
        ELSE IF va \in Image[c][i].text THEN [perm |-> "ro", val |-> Blank]
        ELSE IF va \in Image[c][i].data THEN [perm |-> "rw", val |-> Blank]
        ELSE [perm |-> "none", val |-> "none"]]

Memories == INSTANCE AddressSpaces WITH
    VA <- UserPages,
    BootSpaces <- [c \in BootCommands |->
                      {[i \in BootPids(c) |-> BootSpace(c, i, junk)] :
                          junk \in [BootPids(c) -> Value]}],
    status <- [p \in Slots |-> StatusOf(p)],
    space <- [p \in Slots |-> SpaceOf(p)],
    running <- IF mode = "user" THEN current ELSE 0

\* Every execution of the kernel is one of private address spaces: a store is
\* seen by its process alone, fork copies the father's whole memory, sharing
\* of read-only pages and reuse of freed ones are invisible.
ImplementsAddressSpaces == Memories!ASpec
=============================================================================
