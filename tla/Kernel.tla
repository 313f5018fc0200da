------------------------------- MODULE Kernel -------------------------------
(***************************************************************************)
(* The WeensyOS kernel of pset3: process descriptors, physical page        *)
(* accounting, per-process page tables, the system calls, the round-robin  *)
(* scheduler and the soft reboot.                                          *)
(*                                                                         *)
(* Hardware interrupts are disabled while the kernel runs (kernel.c        *)
(* 286-287), so every interrupt handler is ONE action: what it does from   *)
(* the trap to the iret in run(), including the schedule() it ends with.   *)
(* Between two actions some process is executing user instructions (mode   *)
(* "user"), or the kernel spins forever polling the keyboard ("idle" in    *)
(* schedule(), "panic" in fail()), or the machine is off.                  *)
(*                                                                         *)
(* Pages are page numbers: 0..NPAGES-1 physical, PROC_START..VIRT_END-1    *)
(* the virtual pages a process may use.  Below PROC_START every page table *)
(* holds the same identity mapping of the kernel (copy_pagedir).           *)
(***************************************************************************)
EXTENDS Integers, FiniteSets, Sequences

CONSTANTS
    NPROC,          \* number of process descriptors; descriptor 0 is unused
    NPAGES,         \* number of physical pages
    PROC_START,     \* first application page, PAGENUMBER(PROC_START_ADDR)
    VIRT_END,       \* PAGENUMBER(MEMSIZE_VIRTUAL)
    ReservedPages,  \* physical_memory_isreserved
    KernelPages,    \* kernel image and kernel stack
    Image,          \* boot command -> sequence of [text, data] page sets
    BootCommands,   \* the commands the boot loader may pass
    RebootCommands, \* the commands the keyboard may reboot with
    RefMax,         \* largest value of the int8_t refcount (127 in the code)
    RefcountBound,  \* bound: a fork is taken only below this reference count
    Value, Blank,   \* page contents; Blank is what program_load copies
    AnyEax          \* an eax the user program chose, of no interest here

Pages     == 0..NPAGES-1
Procs     == 0..NPROC-1
Slots     == 1..NPROC-1
UserPages == PROC_START..VIRT_END-1
StackPage == VIRT_END-1

PO_FREE     == 0
PO_RESERVED == -1
PO_KERNEL   == -2

P_FREE     == "P_FREE"
P_RUNNABLE == "P_RUNNABLE"
P_BLOCKED  == "P_BLOCKED"
P_BROKEN   == "P_BROKEN"

\* virtual_memory_lookup returns 0 for a page that is not mapped.
Unmapped      == [pa |-> 0, perm |-> "none"]
Writable(f)   == [pa |-> f, perm |-> "rw"]     \* PTE_P | PTE_W | PTE_U
ReadOnly(f)   == [pa |-> f, perm |-> "ro"]     \* PTE_P | PTE_U
Entry         == [pa : Pages, perm : {"none", "ro", "rw"}]

VARIABLES
    p_state,        \* processes[p].p_state
    p_pid,          \* processes[p].p_pid
    reg_eax,        \* processes[p].p_registers.reg_eax
    p_pagedir,      \* processes[p].p_pagedir
    p_pagetable,    \* the page p_pagedir[0] points to
    pte,            \* its entries for the application's virtual pages
    owner,          \* pageinfo[pn].owner
    refcount,       \* pageinfo[pn].refcount
    memory,         \* what each physical page holds
    current,        \* the running process; 0 stands for the null pointer
    mode            \* "user", "idle", "panic" or "off"

procvars == <<p_state, p_pid, reg_eax>>
mapvars  == <<p_pagedir, p_pagetable, pte>>
pagevars == <<owner, refcount>>
vars     == <<procvars, mapvars, pagevars, memory, current, mode>>

-----------------------------------------------------------------------------
(* Physical page allocation                                                *)

Rank(S, x) == Cardinality({y \in S : y < x})

\* int8_t arithmetic on reference counts.
Inc(r) == IF r = RefMax THEN -RefMax - 1 ELSE r + 1
Dec(r) == IF r = -RefMax - 1 THEN RefMax ELSE r - 1

FreePages == {f \in Pages : owner[f] = PO_FREE}

\* The page that the (n+1)-th of a run of allocations returns: freeAddress
\* scans upwards for a page whose owner is PO_FREE.
freeAddress(n) == CHOOSE f \in FreePages : Rank(FreePages, f) = n

\* That allocation succeeds: there is such a page, and my_page_alloc accepts
\* it.
m_alloc_ok(n) ==
    \E f \in FreePages : Rank(FreePages, f) = n /\ refcount[f] = 0

-----------------------------------------------------------------------------
(* The boot image                                                          *)

LowPages == {f \in 0..PROC_START-1 : f \notin ReservedPages \cup KernelPages}

BootPage(k)   == CHOOSE f \in LowPages : Rank(LowPages, f) = k
BootPids(c)   == 1..Len(Image[c])
BootDir(i)    == BootPage(3 * i - 3)
BootTable(i)  == BootPage(3 * i - 2)
BootStack(i)  == BootPage(3 * i - 1)
ImagePages(c, i) == Image[c][i].text \cup Image[c][i].data
BootPages(c, i)  == ImagePages(c, i) \cup {BootDir(i), BootTable(i), BootStack(i)}

\* What the boot command and the memory layout must satisfy for
\* process_setup's calls to succeed: distinct images inside physical memory,
\* none on the stack page, and enough pages below PROC_START.
ASSUME SizeAssumption ==
    /\ NPROC \in Nat /\ NPAGES \in Nat /\ PROC_START \in Nat /\ VIRT_END \in Nat
    /\ 1 < NPROC /\ PROC_START < NPAGES /\ NPAGES < VIRT_END
    /\ RefMax \in Nat /\ RefMax >= 1 /\ RefcountBound \in Nat
    /\ Blank \in Value
    /\ AnyEax \notin Int      \* it stands for any value that is not looked at
ASSUME LayoutAssumption ==
    /\ 0 \in ReservedPages
    /\ ReservedPages \subseteq 0..PROC_START-1
    /\ KernelPages \subseteq 0..PROC_START-1
    /\ BootCommands # {} /\ RebootCommands \subseteq BootCommands
    /\ \A c \in BootCommands :
          /\ Image[c] \in Seq([text : SUBSET (PROC_START..NPAGES-1),
                               data : SUBSET (PROC_START..NPAGES-1)])
          /\ Len(Image[c]) >= 1 /\ Len(Image[c]) < NPROC
          /\ \A i \in BootPids(c) : Image[c][i].text \cap Image[c][i].data = {}
          /\ \A i, j \in BootPids(c) :
                i # j => ImagePages(c, i) \cap ImagePages(c, j) = {}
          /\ \A k \in 0..(3 * Len(Image[c]) - 1) :
                \E f \in LowPages : Rank(LowPages, f) = k

\* pageinfo_init, then the allocations of process_setup for each process.
BootOwner(c) ==
    [f \in Pages |-> IF f \in ReservedPages THEN PO_RESERVED
                     ELSE IF f \in KernelPages THEN PO_KERNEL
                     ELSE IF \E i \in BootPids(c) : f \in BootPages(c, i)
                     THEN CHOOSE i \in BootPids(c) : f \in BootPages(c, i)
                     ELSE PO_FREE]
BootRefcount(c) == [f \in Pages |-> IF BootOwner(c)[f] = PO_FREE THEN 0 ELSE 1]

\* program_load maps each segment page at its own address, read-only when the
\* segment is not writable; process_setup maps the stack page.
BootPte(c, i) ==
    [va \in UserPages |->
        IF va = StackPage THEN Writable(BootStack(i))
        ELSE IF va \in Image[c][i].text THEN ReadOnly(va)
        ELSE IF va \in Image[c][i].data THEN Writable(va)
        ELSE Unmapped]
NoPte == [va \in UserPages |-> Unmapped]

BootState(c) ==
    [p \in Procs |-> IF p \in BootPids(c) THEN P_RUNNABLE ELSE P_FREE]

\* Mistake: descriptors numbered from 1.
BootPidFromOne(c, cur) == [p \in Procs |-> p + 1]

\* start() numbers the descriptors, but process_setup then writes each pid
\* through `current`, which still points at whatever ran before the reboot:
\* the last process set up leaves its number there.
BootPid(c, cur) ==
    [p \in Procs |-> IF p = cur /\ cur # 0 THEN Len(Image[c]) ELSE p]

InitWith(c) ==
    /\ p_state = BootState(c)
    /\ p_pid = BootPid(c, 0)
    /\ reg_eax = [p \in Procs |-> 0]
    /\ p_pagedir = [p \in Procs |-> IF p \in BootPids(c) THEN BootDir(p) ELSE 0]
    /\ p_pagetable = [p \in Procs |-> IF p \in BootPids(c) THEN BootTable(p) ELSE 0]
    /\ pte = [p \in Procs |-> IF p \in BootPids(c) THEN BootPte(c, p) ELSE NoPte]
    /\ owner = BootOwner(c)
    /\ refcount = BootRefcount(c)
    /\ memory = [f \in Pages |-> Blank]
    /\ current = 1
    /\ mode = "user"

Init == \E c \in BootCommands : InitWith(c)

-----------------------------------------------------------------------------
(* Address spaces                                                          *)

Live(p) == p_state[p] # P_FREE
\* Mistake: every descriptor in use counts as runnable.
InUse(st) == {p \in Slots : st[p] # P_FREE}
Runnable(st) == {p \in Slots : st[p] = P_RUNNABLE}

UserWritable(p) == {va \in UserPages : pte[p][va].perm = "rw"}
UserReadable(p) == {va \in UserPages : pte[p][va].perm = "ro"}
Mapped(p)       == {pte[p][va].pa : va \in UserWritable(p) \cup UserReadable(p)}

\* Mistake: the page table index is one too small.
virtual_memory_map_below(p, va, entry) == [pte EXCEPT ![p] = [@ EXCEPT ![va - 1] = entry]]

\* virtual_memory_map of one page.
virtual_memory_map(p, va, entry) == [pte EXCEPT ![p] = [@ EXCEPT ![va] = entry]]

\* What m_free's search through p's page table finds: the kernel's identity
\* mapping or an application page below MEMSIZE_PHYSICAL.
References(p, f) ==
    \/ f < PROC_START
    \/ \E va \in UserPages : va < NPAGES /\ pte[p][va].pa = f

-----------------------------------------------------------------------------
(* The scheduler                                                           *)

\* Mistake: the search for the next process starts at descriptor 0 every time.
TurnFromZero(pid, q) == q

\* The turn at which schedule() considers q, starting after pid.
Turn(pid, q) == (q - pid - 1) % NPROC

run(p) == current' = p /\ mode' = "user"

\* schedule(), over the process states st the handler leaves behind.
schedule(st) ==
    \/ \E q \in Runnable(st) :
          /\ \A r \in Runnable(st) : Turn(p_pid[current], q) <= Turn(p_pid[current], r)
          /\ run(q)
    \/ /\ Runnable(st) = {}
       /\ mode' = "idle"
       /\ UNCHANGED current

\* interrupt() saves the registers the user program had.
SaveRegisters == reg_eax' = [reg_eax EXCEPT ![current] = AnyEax]
Return(eax)   == reg_eax' = [reg_eax EXCEPT ![current] = eax]

-----------------------------------------------------------------------------
(* Handlers that leave memory alone                                        *)

Timer ==
    /\ mode = "user"
    /\ SaveRegisters
    /\ schedule(p_state)
    /\ UNCHANGED <<p_state, p_pid, mapvars, pagevars, memory>>

\* INT_SYS_YIELD goes straight to the scheduler.
Yield ==
    /\ mode = "user"
    /\ SaveRegisters
    /\ schedule(p_state)
    /\ UNCHANGED <<p_state, p_pid, mapvars, pagevars, memory>>

GetPid ==
    /\ mode = "user"
    /\ Return(p_pid[current])
    /\ UNCHANGED <<p_state, p_pid, mapvars, pagevars, memory, current, mode>>

PageFault ==
    /\ mode = "user"
    /\ SaveRegisters
    /\ p_state' = [p_state EXCEPT ![current] = P_BROKEN]
    /\ schedule(p_state')
    /\ UNCHANGED <<p_pid, mapvars, pagevars, memory>>

\* The panic system call: the kernel stays in fail().
SysPanic ==
    /\ mode = "user"
    /\ mode' = "panic"
    /\ SaveRegisters
    /\ UNCHANGED <<p_state, p_pid, mapvars, pagevars, memory, current>>

\* A user instruction stores v to a page the process may write.
UserWrite(va, v) ==
    /\ mode = "user"
    /\ va \in UserWritable(current)
    /\ memory' = [memory EXCEPT ![pte[current][va].pa] = v]
    /\ UNCHANGED <<procvars, mapvars, pagevars, current, mode>>

-----------------------------------------------------------------------------
(* sys_page_alloc                                                          *)

\* The programs ask for the page at heap_top: the first one after their image
\* and the heap they have so far, until it is the stack page.
HeapTop(p) == {va \in UserPages : /\ pte[p][va] = Unmapped
                                  /\ va - 1 \in UserPages
                                  /\ pte[p][va - 1] # Unmapped}

PageAlloc(va) ==
    /\ mode = "user"
    /\ va \in HeapTop(current)
    /\ m_alloc_ok(0)
    /\ LET f == freeAddress(0)
       IN  /\ owner' = [owner EXCEPT ![f] = p_pid[current]]
           /\ refcount' = [refcount EXCEPT ![f] = 1]
           /\ pte' = virtual_memory_map(current, va, Writable(f))
           /\ Return(f)
    /\ UNCHANGED <<p_state, p_pid, p_pagedir, p_pagetable, memory, current, mode>>

PageAllocFails(va) ==
    /\ mode = "user"
    /\ va \in HeapTop(current)
    /\ ~m_alloc_ok(0)
    /\ Return(-1)
    /\ UNCHANGED <<p_state, p_pid, mapvars, pagevars, memory, current, mode>>

-----------------------------------------------------------------------------
(* Releasing the pages of a process                                        *)

\* The other runnable processes that reference f: m_free makes the lowest of
\* them the owner of a page that is still referenced.  The process being
\* released is P_BLOCKED meanwhile.
Heirs(me, f) == {i \in Runnable(p_state) \ {me} : References(i, f)}
Heir(me, f)  == CHOOSE i \in Heirs(me, f) : \A j \in Heirs(me, f) : i <= j

Owned(pid, ow)  == {f \in Pages : ow[f] = pid}
\* Mistake: a page is given back one reference too early.
LastButOneRef(f, rc) == Dec(rc[f]) <= 1
LastRef(f, rc)  == Dec(rc[f]) = 0
Underrun(f, rc) == Dec(rc[f]) < 0

\* m_free of every page pid owns, given the owners ow and reference counts rc.
m_free_refcount(pid, ow, rc) ==
    [f \in Pages |-> IF ow[f] = pid THEN Dec(rc[f]) ELSE rc[f]]
m_free_owner(me, pid, ow, rc) ==
    [f \in Pages |-> IF ow[f] # pid THEN ow[f]
                     ELSE IF LastRef(f, rc) THEN PO_FREE
                     ELSE IF Heirs(me, f) # {} THEN Heir(me, f) ELSE pid]

-----------------------------------------------------------------------------
(* sys_fork                                                                *)

FreeSlot(s) == /\ s \in Slots /\ p_state[s] = P_FREE
               /\ \A r \in Slots : p_state[r] = P_FREE => s <= r

ForkBounded == mode = "user" /\ \A f \in Pages : refcount[f] < RefcountBound

\* copy_pagedir takes the first two free pages, and the copy of the father's
\* i-th writable page (in address order) the (i+2)-nd.
copy_pagedir_ok == m_alloc_ok(0) /\ m_alloc_ok(1)
CopyIndex(va)   == 2 + Rank(UserWritable(current), va)
\* Mistake: the child is given the father's writable page itself.
CopyNothing(va) == pte[current][va].pa
Copy(va)        == freeAddress(CopyIndex(va))

\* What the child has when the copy loop has reached virtual page top: its
\* own pages, the references it took, and the contents it copied.
CopiedBelow(top) == {va \in UserWritable(current) : va < top}
Taken(top) == {freeAddress(0), freeAddress(1)} \cup {Copy(va) : va \in CopiedBelow(top)}
Shared(top) == {pte[current][va].pa : va \in {w \in UserReadable(current) : w < top}}
Take(s, pages) == [f \in Pages |-> IF f \in pages THEN s ELSE owner[f]]
\* Mistake: sharing a page with the child does not count as a reference.
TakeNoRef(pages, shared) == [f \in Pages |-> IF f \in pages THEN 1 ELSE refcount[f]]
TakeRef(pages, shared) ==
    [f \in Pages |-> IF f \in pages THEN 1
                     ELSE IF f \in shared THEN Inc(refcount[f]) ELSE refcount[f]]
Source(f) == CHOOSE va \in UserWritable(current) : Copy(va) = f
CopyMemory(top) ==
    memory' = [f \in Pages |-> IF \E va \in CopiedBelow(top) : Copy(va) = f
                               THEN memory[pte[current][Source(f)].pa] ELSE memory[f]]

Fork(s) ==
    /\ ForkBounded
    /\ FreeSlot(s)
    /\ copy_pagedir_ok
    /\ \A va \in UserWritable(current) : m_alloc_ok(CopyIndex(va))
    /\ p_state' = [p_state EXCEPT ![s] = P_RUNNABLE]
    /\ p_pid' = [p_pid EXCEPT ![s] = s]
    /\ reg_eax' = [reg_eax EXCEPT ![s] = 0, ![current] = s]
    /\ p_pagedir' = [p_pagedir EXCEPT ![s] = freeAddress(0)]
    /\ p_pagetable' = [p_pagetable EXCEPT ![s] = freeAddress(1)]
    /\ pte' = [pte EXCEPT ![s] =
                  [va \in UserPages |-> IF va \in UserWritable(current)
                                        THEN Writable(Copy(va))
                                        ELSE pte[current][va]]]
    /\ owner' = Take(s, Taken(VIRT_END))
    /\ refcount' = TakeRef(Taken(VIRT_END), Shared(VIRT_END))
    /\ CopyMemory(VIRT_END)
    /\ UNCHANGED <<current, mode>>

ForkNoSlot ==
    /\ ForkBounded
    /\ \A r \in Slots : p_state[r] # P_FREE
    /\ Return(-1)
    /\ UNCHANGED <<p_state, p_pid, mapvars, pagevars, memory, current, mode>>

\* Mistake: a fork that fails just returns, keeping the pages it has allocated.
ForkAbandoned(s, pages, shared) ==
    /\ owner' = Take(s, pages)
    /\ refcount' = TakeRef(pages, shared)
    /\ p_pid' = [p_pid EXCEPT ![s] = s]
    /\ reg_eax' = [reg_eax EXCEPT ![s] = 0, ![current] = -1]
    /\ UNCHANGED <<p_state, mapvars, current, mode>>

\* The child's descriptor was filled in, and then everything its pid owns is
\* released again.
ForkReleased(s, pages, shared) ==
    LET ow == Take(s, pages)
        rc == TakeRef(pages, shared)
    IN  /\ owner' = m_free_owner(s, s, ow, rc)
        /\ refcount' = m_free_refcount(s, ow, rc)
        /\ p_pid' = [p_pid EXCEPT ![s] = s]
        /\ reg_eax' = [reg_eax EXCEPT ![s] = 0, ![current] = -1]
        /\ UNCHANGED <<p_state, mapvars, current, mode>>

\* copy_pagedir runs out of memory, with at most the directory allocated.
ForkNoDirectory(s) ==
    /\ ForkBounded
    /\ FreeSlot(s)
    /\ ~copy_pagedir_ok
    /\ ForkReleased(s, IF m_alloc_ok(0) THEN {freeAddress(0)} ELSE {}, {})
    /\ UNCHANGED memory

\* The copy of the page at va finds no memory.  The child's own pages are
\* released; the references taken to read-only pages below va are not.
ForkNoMemory(s, va) ==
    /\ ForkBounded
    /\ FreeSlot(s)
    /\ copy_pagedir_ok
    /\ va \in UserWritable(current)
    /\ ~m_alloc_ok(CopyIndex(va))
    /\ \A w \in CopiedBelow(va) : m_alloc_ok(CopyIndex(w))
    /\ ForkReleased(s, Taken(va), Shared(va))
    /\ CopyMemory(va)

-----------------------------------------------------------------------------
(* sys_exit                                                                *)

\* The pages of the exiting process that m_free cannot hand on: the count does
\* not reach 0 and no heir is found, or it falls below 0.
Unreleased ==
    {f \in Owned(p_pid[current], owner) :
        ~LastRef(f, refcount) /\ (Underrun(f, refcount) \/ Heirs(current, f) = {})}

\* m_releaseMemoryforProcess succeeds; the stale page directory of a FREE
\* descriptor is never read again and is forgotten here.
Exit ==
    /\ mode = "user"
    /\ Unreleased = {}
    /\ owner' = m_free_owner(current, p_pid[current], owner, refcount)
    /\ refcount' = m_free_refcount(p_pid[current], owner, refcount)
    /\ p_state' = [p_state EXCEPT ![current] = P_FREE]
    /\ p_pagedir' = [p_pagedir EXCEPT ![current] = 0]
    /\ p_pagetable' = [p_pagetable EXCEPT ![current] = 0]
    /\ pte' = [pte EXCEPT ![current] = NoPte]
    /\ SaveRegisters
    /\ schedule(p_state')
    /\ UNCHANGED <<p_pid, memory>>

\* The exiting process still owns such a page: the assertion at the end of
\* m_releaseMemoryforProcess (or the one in m_free) panics.
ExitPanics ==
    /\ mode = "user"
    /\ Unreleased # {}
    /\ owner' = m_free_owner(current, p_pid[current], owner, refcount)
    /\ refcount' = m_free_refcount(p_pid[current], owner, refcount)
    /\ p_state' = [p_state EXCEPT ![current] = P_BLOCKED]
    /\ mode' = "panic"
    /\ SaveRegisters
    /\ UNCHANGED <<p_pid, mapvars, memory, current>>

-----------------------------------------------------------------------------
(* The keyboard                                                            *)

\* check_keyboard is called at every interrupt and in both spin loops; the
\* kernel starts again without clearing its variables.
SoftReboot(c) ==
    /\ mode # "off"
    /\ p_state' = BootState(c)
    /\ p_pid' = BootPid(c, current)
    /\ reg_eax' = [p \in Procs |-> 0]
    /\ p_pagedir' = [p \in Procs |-> IF p \in BootPids(c) THEN BootDir(p) ELSE 0]
    /\ p_pagetable' = [p \in Procs |-> IF p \in BootPids(c) THEN BootTable(p) ELSE 0]
    /\ pte' = [p \in Procs |-> IF p \in BootPids(c) THEN BootPte(c, p) ELSE NoPte]
    /\ owner' = BootOwner(c)
    /\ refcount' = BootRefcount(c)
    /\ memory' = [f \in Pages |-> IF \E i \in BootPids(c) : f \in ImagePages(c, i)
                                  THEN Blank ELSE memory[f]]
    /\ current' = 1
    /\ mode' = "user"

PowerOff ==
    /\ mode # "off"
    /\ mode' = "off"
    /\ UNCHANGED <<procvars, mapvars, pagevars, memory, current>>

\* poweroff()'s last loop.
Halted == mode = "off" /\ UNCHANGED vars

Next ==
    \/ Timer \/ Yield \/ GetPid \/ PageFault \/ SysPanic
    \/ \E va \in UserPages : PageAlloc(va) \/ PageAllocFails(va)
    \/ \E va \in UserPages, v \in Value : UserWrite(va, v)
    \/ \E s \in Slots : Fork(s) \/ ForkNoDirectory(s)
                        \/ \E va \in UserPages : ForkNoMemory(s, va)
    \/ ForkNoSlot
    \/ Exit \/ ExitPanics
    \/ \E c \in RebootCommands : SoftReboot(c)
    \/ PowerOff \/ Halted

Spec == Init /\ [][Next]_vars

\* The timer interrupts user code HZ times a second; a process cannot mask it
\* (process_init sets EFLAGS_IF).
FairSpec == Spec /\ WF_vars(Timer)
=============================================================================
