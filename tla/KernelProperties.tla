--------------------------- MODULE KernelProperties ---------------------------
(* What the kernel promises, stated over the state of module Kernel.       *)
EXTENDS Kernel

\* The type of every variable; pids are descriptor numbers.
TypeOK ==
    /\ p_state \in [Procs -> {P_FREE, P_RUNNABLE, P_BLOCKED, P_BROKEN}]
    /\ p_pid \in [Procs -> Procs]
    /\ reg_eax \in [Procs -> Int \cup {AnyEax}]
    /\ p_pagedir \in [Procs -> Pages]
    /\ p_pagetable \in [Procs -> Pages]
    /\ pte \in [Procs -> [UserPages -> Entry]]
    /\ owner \in [Pages -> Procs \cup {PO_RESERVED, PO_KERNEL}]
    /\ refcount \in [Pages -> (-RefMax - 1)..RefMax]
    /\ memory \in [Pages -> Value]
    /\ current \in Slots
    /\ mode \in {"user", "idle", "panic", "off"}

\* The kernel has stopped in the middle of an exit (the assertion at
\* kernel.c:250 failed): the page accounting is left half done, and no user
\* code runs any more.
StoppedInExit == p_state[current] = P_BLOCKED

\* virtual_memory_check, run at every interrupt: descriptor 0 is unused, a
\* process owns its page directory and page table page and nobody else
\* references them, and no allocated page is owned by a free descriptor.
DescriptorZeroFree == p_state[0] = P_FREE
OwnsPageTable(p) ==
    /\ owner[p_pagedir[p]] = p   /\ refcount[p_pagedir[p]] = 1
    /\ owner[p_pagetable[p]] = p /\ refcount[p_pagetable[p]] = 1
OwnersLive == \A f \in Pages : refcount[f] > 0 /\ owner[f] >= 0 => Live(owner[f])
VirtualMemoryCheck ==
    StoppedInExit \/ /\ DescriptorZeroFree
                     /\ \A p \in Procs : Live(p) => OwnsPageTable(p)
                     /\ OwnersLive

\* Processes are isolated: a page two of them can reach is read-only in both,
\* and nobody can reach a page table, the kernel, reserved memory or a page
\* the kernel considers free.
PageTablePages == {p_pagedir[p] : p \in {q \in Procs : Live(q)}} \cup
                  {p_pagetable[p] : p \in {q \in Procs : Live(q)}}
CanWrite(p, f) == \E va \in UserWritable(p) : pte[p][va].pa = f
Isolation ==
    StoppedInExit \/
    \A p \in Procs : Live(p) =>
        \A f \in Mapped(p) :
            /\ owner[f] > 0
            /\ f \notin PageTablePages
            /\ \A q \in Procs \ {p} : Live(q) /\ f \in Mapped(q) => ~CanWrite(p, f)

\* A page's reference count covers everyone who depends on it: its owner and
\* all the processes that map it; and exactly the pages with count 0 are free.
Sharers(f)   == {p \in Procs : Live(p) /\ f \in Mapped(p)}
Referrers(f) == Sharers(f) \cup {owner[f]}
RefcountCoversReferrers ==
    StoppedInExit \/
    \A f \in Pages : /\ owner[f] > 0 => refcount[f] >= Cardinality(Referrers(f))
                     /\ owner[f] = PO_FREE <=> refcount[f] = 0

\* No page is lost while its owner lives: an owned page is the owner's page
\* directory, its page table, or a page it maps.
OwnedPagesInUse ==
    StoppedInExit \/
    \A f \in Pages : owner[f] > 0 =>
        \/ f \in {p_pagedir[owner[f]], p_pagetable[owner[f]]}
        \/ f \in Mapped(owner[f])

\* A system call that returns -1 leaves no trace in any process's state or
\* address space nor in the ownership of pages: in particular a fork that runs
\* out of memory half way gives every page of the child back.
FailedCall == mode = "user" /\ current' = current /\ reg_eax'[current] = -1
FailureLeavesNoTrace ==
    [][FailedCall => UNCHANGED <<p_state, mapvars, owner>>]_vars

\* The scheduler is fair: a runnable process gets the processor, unless it
\* stops being runnable or the kernel stops.
EveryRunnableRuns ==
    \A p \in Slots :
        p_state[p] = P_RUNNABLE ~>
            \/ current = p
            \/ p_state[p] # P_RUNNABLE
            \/ mode # "user"

\* When user code runs, the processor is held by a runnable process.
RunningIsRunnable == mode = "user" => p_state[current] = P_RUNNABLE

-----------------------------------------------------------------------------
(* What the comments of the code say and the code does not do              *)

\* Exiting releases everything the process owned: the assertion at
\* kernel.c:250 holds.
ExitReleasesAll == ~StoppedInExit
=============================================================================
