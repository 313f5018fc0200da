----------------------------- MODULE KernelProofs -----------------------------
(***************************************************************************)
(* Proofs of the kernel's safety properties for every number of processes  *)
(* and pages, every boot image and every reference count bound, under two  *)
(* assumptions that the code needs:                                        *)
(*   - the keyboard reboots only into a command that starts one process:   *)
(*     process_setup writes p_pid through `current` (kernel.c:163), which  *)
(*     a soft reboot leaves stale, so of several one gets a wrong pid;     *)
(*   - reference counts stay within int8_t.                                *)
(***************************************************************************)
EXTENDS KernelProperties, FiniteSetTheorems, SequenceTheorems, WellFoundedInduction, TLAPS

SingleRoot == \A c \in RebootCommands : Len(Image[c]) = 1
NoWrap     == RefcountBound <= RefMax

-----------------------------------------------------------------------------
(* The inductive invariant                                                 *)

\* Descriptors: only the process the kernel stopped in is P_BLOCKED, pids are
\* slots, and a free descriptor maps nothing.
ProcInv ==
    /\ DescriptorZeroFree
    /\ RunningIsRunnable
    /\ \A p \in Procs : p_state[p] = P_BLOCKED => p = current
    /\ StoppedInExit => mode \in {"panic", "off"}
    /\ \A p \in Procs : Live(p) => p_pid[p] = p
    /\ \A p \in Procs : ~Live(p) => pte[p] = NoPte

\* Page table entries: an absent one is zero and a read-only one is the
\* identity mapping the loader made.
EntryInv ==
    \A p \in Procs, va \in UserPages :
        /\ pte[p][va].perm = "none" => pte[p][va].pa = 0
        /\ pte[p][va].perm = "ro" => pte[p][va].pa = va

\* Page accounting.
TableInv == \A p \in Procs : Live(p) => OwnsPageTable(p)
OwnerInv ==
    \A f \in Pages : /\ refcount[f] >= 0
                     /\ owner[f] = PO_FREE <=> refcount[f] = 0
                     /\ owner[f] > 0 => Live(owner[f])
                     /\ owner[f] > 0 /\ refcount[f] > 1 => f >= PROC_START
MapInv ==
    \A p \in Procs, va \in UserPages :
        pte[p][va].perm # "none" =>
            /\ owner[pte[p][va].pa] > 0
            /\ pte[p][va].pa \notin PageTablePages
PrivateInv ==
    \A p, q \in Procs, va, vb \in UserPages :
        /\ p # q \/ va # vb
        /\ pte[p][va].perm = "rw" /\ pte[q][vb].perm # "none"
        => pte[p][va].pa # pte[q][vb].pa
CountInv == \A f \in Pages : owner[f] > 0 => refcount[f] >= Cardinality(Referrers(f))
UseInv ==
    \A f \in Pages : owner[f] > 0 =>
        \/ f = p_pagedir[owner[f]] \/ f = p_pagetable[owner[f]]
        \/ \E va \in UserPages : pte[owner[f]][va].perm # "none" /\ pte[owner[f]][va].pa = f

Accounting == /\ TableInv /\ OwnerInv /\ MapInv /\ PrivateInv /\ CountInv /\ UseInv

IInv == TypeOK /\ ProcInv /\ EntryInv /\ (StoppedInExit \/ Accounting)

-----------------------------------------------------------------------------
(* Constants                                                               *)

\* The sets and numbers the constants stand for.
LEMMA Sizes ==
    /\ NPROC \in Nat /\ NPAGES \in Nat /\ PROC_START \in Nat /\ VIRT_END \in Nat
    /\ 1 < NPROC /\ 1 <= PROC_START /\ PROC_START < NPAGES /\ NPAGES < VIRT_END
    /\ RefMax \in Nat /\ 1 <= RefMax /\ RefcountBound \in Nat
    /\ 0 \in Pages /\ 0 \in Procs /\ 1 \in Slots /\ Slots \subseteq Procs
    /\ StackPage \in UserPages /\ NPAGES <= StackPage
    /\ Blank \in Value /\ AnyEax # -1
  BY SizeAssumption, LayoutAssumption DEF Pages, Procs, Slots, UserPages, StackPage

\* Ranks are natural numbers.
LEMMA RankType ==
    ASSUME NEW S \in SUBSET Nat, NEW x \in Nat
    PROVE  Rank(S, x) \in Nat
<1>1. {y \in S : y < x} \subseteq 0..x
  <2> SUFFICES ASSUME NEW y \in S, y < x PROVE y \in 0..x
    OBVIOUS
  <2> y \in Nat
    OBVIOUS
  <2> QED OBVIOUS
<1>2. IsFiniteSet(0..x)
  BY FS_Interval
<1>3. IsFiniteSet({y \in S : y < x})
  BY <1>1, <1>2, FS_Subset
<1> QED BY <1>3, FS_CardinalityType DEF Rank

\* Different elements of a set have different ranks in it.
LEMMA RankInjective ==
    ASSUME NEW S \in SUBSET Nat, NEW x \in S, NEW y \in S, Rank(S, x) = Rank(S, y)
    PROVE  x = y
<1>1. ASSUME NEW v \in S, NEW w \in S, v < w
      PROVE  Rank(S, v) # Rank(S, w)
  <2> DEFINE A == {z \in S : z < v}
             B == {z \in S : z < w}
  <2>1. B \subseteq 0..w
    <3> SUFFICES ASSUME NEW z \in S, z < w PROVE z \in 0..w
      OBVIOUS
    <3> z \in Nat /\ w \in Nat
      OBVIOUS
    <3> QED OBVIOUS
  <2>2. IsFiniteSet(B)
    <3>1. w \in Int /\ 0 \in Int
      OBVIOUS
    <3>2. IsFiniteSet(0..w)
      BY <3>1, FS_Interval
    <3> QED BY <2>1, <3>2, FS_Subset
  <2>3. A \subseteq B
    <3> SUFFICES ASSUME NEW z \in S, z < v PROVE z < w
      OBVIOUS
    <3> z \in Nat /\ w \in Nat /\ v \in Nat
      OBVIOUS
    <3> QED BY <1>1
  <2>4. v \in B /\ v \notin A
    BY <1>1
  <2>5. Cardinality(A) # Cardinality(B)
    BY <2>2, <2>3, <2>4, FS_Subset
  <2> QED BY <2>5 DEF Rank
<1>2. x \in Nat /\ y \in Nat
  OBVIOUS
<1>3. CASE x < y
  BY <1>1, <1>3
<1>4. CASE y < x
  BY <1>1, <1>4
<1> QED BY <1>2, <1>3, <1>4

\* Every nonempty set of natural numbers has a least element.
LEMMA LeastElement ==
    ASSUME NEW S \in SUBSET Nat, S # {}
    PROVE  \E x \in S : \A y \in S : x <= y
<1>1. IsWellFoundedOn(OpToRel(<, Nat), Nat)
  BY NatLessThanWellFounded
<1>2. PICK x \in S : \A y \in S : ~ (<<y, x>> \in OpToRel(<, Nat))
  BY <1>1, WFMin
<1>3. \A y \in S : ~(y < x)
  BY <1>2 DEF OpToRel
<1>4. \A y \in S : x <= y
  BY <1>3
<1> QED BY <1>4

-----------------------------------------------------------------------------
(* Handlers that leave the page tables and the page accounting alone       *)

\* Steps that change neither page tables nor owners nor counts, and keep the same
\* processes alive, keep the accounting.
LEMMA QuietAccounting ==
    ASSUME TypeOK, Accounting, UNCHANGED <<mapvars, pagevars>>,
           \A p \in Procs : Live(p)' <=> Live(p)
    PROVE  Accounting'
<1> USE DEF mapvars, pagevars
<1>1. TableInv'
  BY DEF Accounting, TableInv, OwnsPageTable
<1>2. OwnerInv'
  <2>1. \A f \in Pages : owner[f] > 0 => owner[f] \in Procs
    BY DEF TypeOK, PO_RESERVED, PO_KERNEL
  <2> QED BY <2>1 DEF Accounting, OwnerInv, Live
<1>3. PageTablePages' = PageTablePages
  BY DEF PageTablePages
<1>4. MapInv'
  BY <1>3 DEF Accounting, MapInv
<1>5. PrivateInv'
  BY DEF Accounting, PrivateInv
<1>6. CountInv'
  <2>1. \A f \in Pages : Referrers(f)' = Referrers(f)
    BY DEF Referrers, Sharers, Mapped, UserWritable, UserReadable
  <2> QED BY <2>1 DEF Accounting, CountInv
<1>7. UseInv'
  BY DEF Accounting, UseInv
<1> QED BY <1>1, <1>2, <1>4, <1>5, <1>6, <1>7 DEF Accounting

\* No user code runs while the kernel is stopped in an exit.
LEMMA UserMode ==
    ASSUME IInv, mode = "user"
    PROVE  /\ current \in Slots /\ current \in Procs
           /\ p_state[current] = P_RUNNABLE
           /\ Live(current) /\ p_pid[current] = current
           /\ \A p \in Procs : p_state[p] # P_BLOCKED
           /\ Accounting
  BY Sizes DEF IInv, TypeOK, ProcInv, RunningIsRunnable, StoppedInExit, Live,
               P_RUNNABLE, P_BLOCKED, P_FREE

\* What every handler does that changes neither page tables nor accounting.
LEMMA QuietStep ==
    ASSUME IInv, TypeOK', UNCHANGED <<p_pid, mapvars, pagevars>>,
           \A p \in Procs : Live(p)' <=> Live(p),
           RunningIsRunnable',
           \A p \in Procs : p_state'[p] = P_BLOCKED => p = current',
           StoppedInExit' <=> StoppedInExit,
           StoppedInExit' => mode' \in {"panic", "off"}
    PROVE  IInv'
<1>1. ProcInv'
  BY Sizes DEF IInv, ProcInv, DescriptorZeroFree, Live, mapvars
<1>2. EntryInv'
  BY DEF IInv, EntryInv, mapvars
<1>3. StoppedInExit' \/ Accounting'
  BY QuietAccounting DEF IInv
<1> QED BY <1>1, <1>2, <1>3 DEF IInv

\* The timer saves the registers and schedules.
LEMMA TimerStep ==
    ASSUME IInv, Timer \/ Yield
    PROVE  IInv'
<1>1. /\ mode = "user" /\ SaveRegisters /\ schedule(p_state)
      /\ UNCHANGED <<p_state, p_pid, mapvars, pagevars, memory>>
  BY DEF Timer, Yield
<1>2. \/ mode' = "user" /\ current' \in Slots /\ p_state[current'] = P_RUNNABLE
      \/ mode' = "idle" /\ current' = current
  BY <1>1 DEF schedule, run, Runnable
<1>3. TypeOK'
  BY <1>1, <1>2 DEF IInv, TypeOK, SaveRegisters, mapvars, pagevars
<1> QED
  BY <1>1, <1>2, <1>3, UserMode, QuietStep, Sizes
  DEF RunningIsRunnable, StoppedInExit, Live, P_RUNNABLE, P_BLOCKED

\* A page fault breaks the process and schedules.
LEMMA PageFaultStep ==
    ASSUME IInv, PageFault
    PROVE  IInv'
<1>1. /\ mode = "user" /\ SaveRegisters /\ schedule(p_state')
      /\ p_state' = [p_state EXCEPT ![current] = P_BROKEN]
      /\ UNCHANGED <<p_pid, mapvars, pagevars, memory>>
  BY DEF PageFault
<1>2. \/ mode' = "user" /\ current' \in Slots /\ p_state'[current'] = P_RUNNABLE
      \/ mode' = "idle" /\ current' = current
  BY <1>1 DEF schedule, run, Runnable
<1>3. TypeOK'
  BY <1>1, <1>2 DEF IInv, TypeOK, SaveRegisters, mapvars, pagevars
<1>4. \A p \in Procs : /\ p # current => p_state'[p] = p_state[p]
                       /\ p_state'[current] = P_BROKEN
  BY <1>1, UserMode DEF IInv, TypeOK
<1>5. \A p \in Procs : p_state'[p] # P_BLOCKED /\ (Live(p)' <=> Live(p))
  BY <1>1, <1>4, UserMode DEF Live, P_RUNNABLE, P_BLOCKED, P_BROKEN, P_FREE
<1>6. current' \in Procs
  BY <1>2, <1>1, UserMode, Sizes
<1> QED
  BY <1>1, <1>2, <1>3, <1>5, <1>6, UserMode, QuietStep
  DEF RunningIsRunnable, StoppedInExit

\* System calls that only return a value, stores, and stopping the machine.
LEMMA StillStep ==
    ASSUME IInv,
           \/ GetPid \/ SysPanic \/ ForkNoSlot \/ PowerOff \/ Halted
           \/ \E va \in UserPages : PageAllocFails(va)
           \/ \E va \in UserPages, v \in Value : UserWrite(va, v)
           \/ UNCHANGED vars
    PROVE  IInv'
<1>1. /\ UNCHANGED <<p_state, p_pid, mapvars, pagevars, current>>
      /\ mode' = mode \/ mode' \in {"panic", "off"}
  BY DEF GetPid, SysPanic, ForkNoSlot, PowerOff, Halted, PageAllocFails, UserWrite,
         procvars, vars
<1>2. reg_eax' \in [Procs -> Int \cup {AnyEax}]
  BY UserMode DEF GetPid, SysPanic, ForkNoSlot, PowerOff, Halted, PageAllocFails, UserWrite,
         procvars, vars, Return, SaveRegisters, IInv, TypeOK, Procs
<1>3. memory' \in [Pages -> Value]
  BY DEF GetPid, SysPanic, ForkNoSlot, PowerOff, Halted, PageAllocFails, UserWrite,
         procvars, vars, IInv, TypeOK
<1>4. TypeOK'
  BY <1>1, <1>2, <1>3 DEF IInv, TypeOK, mapvars, pagevars
<1>5. \A p \in Procs : Live(p)' <=> Live(p)
  BY <1>1 DEF Live
<1>6. RunningIsRunnable' /\ (StoppedInExit' <=> StoppedInExit)
  BY <1>1 DEF IInv, ProcInv, RunningIsRunnable, StoppedInExit
<1>7. /\ \A p \in Procs : p_state'[p] = P_BLOCKED => p = current'
      /\ StoppedInExit' => mode' \in {"panic", "off"}
  BY <1>1 DEF IInv, ProcInv, StoppedInExit
<1> QED BY <1>1, <1>4, <1>5, <1>6, <1>7, QuietStep

-----------------------------------------------------------------------------
(* Facts about free pages, sharers and page tables                         *)

\* What a successful allocation returns.
LEMMA AllocFacts ==
    ASSUME NEW n \in Nat, m_alloc_ok(n)
    PROVE  /\ freeAddress(n) \in Pages
           /\ owner[freeAddress(n)] = PO_FREE
           /\ Rank(FreePages, freeAddress(n)) = n
<1>1. \E f \in FreePages : Rank(FreePages, f) = n
  BY DEF m_alloc_ok
<1>2. freeAddress(n) \in FreePages /\ Rank(FreePages, freeAddress(n)) = n
  BY <1>1 DEF freeAddress
<1> QED BY <1>2 DEF FreePages

\* A free page is nobody's page table and is mapped nowhere.
LEMMA FreeFacts ==
    ASSUME IInv, Accounting, NEW f \in Pages, owner[f] = PO_FREE
    PROVE  /\ refcount[f] = 0
           /\ f \notin PageTablePages
           /\ \A q \in Procs, va \in UserPages :
                 pte[q][va].perm # "none" => pte[q][va].pa # f
<1>1. \A q \in Procs : Live(q) => q # 0
  BY DEF IInv, ProcInv, DescriptorZeroFree, Live
<1>2. f \notin PageTablePages
  BY <1>1 DEF Accounting, TableInv, OwnsPageTable, PageTablePages, PO_FREE
<1>3. refcount[f] = 0
  BY DEF Accounting, OwnerInv
<1> QED BY <1>2, <1>3 DEF Accounting, MapInv, PO_FREE

\* Sharers and referrers in terms of page table entries.
LEMMA SharerFacts ==
    ASSUME NEW f
    PROVE  /\ TypeOK => \A p : p \in Sharers(f) <=>
                 /\ p \in Procs /\ Live(p)
                 /\ \E va \in UserPages : pte[p][va].perm # "none" /\ pte[p][va].pa = f
           /\ TypeOK' => \A p : p \in Sharers(f)' <=>
                 /\ p \in Procs /\ Live(p)'
                 /\ \E va \in UserPages : pte'[p][va].perm # "none" /\ pte'[p][va].pa = f
<1>1. ASSUME TypeOK, NEW p \in Procs, NEW va \in UserPages
      PROVE  pte[p][va].perm # "none" <=> pte[p][va].perm \in {"ro", "rw"}
  BY <1>1 DEF TypeOK, Entry
<1>2. ASSUME TypeOK', NEW p \in Procs, NEW va \in UserPages
      PROVE  pte'[p][va].perm # "none" <=> pte'[p][va].perm \in {"ro", "rw"}
  BY <1>2 DEF TypeOK, Entry
<1>3. TypeOK => \A p : p \in Sharers(f) <=>
                 /\ p \in Procs /\ Live(p)
                 /\ \E va \in UserPages : pte[p][va].perm # "none" /\ pte[p][va].pa = f
  BY <1>1 DEF Sharers, Mapped, UserWritable, UserReadable
<1>4. TypeOK' => \A p : p \in Sharers(f)' <=>
                 /\ p \in Procs /\ Live(p)'
                 /\ \E va \in UserPages : pte'[p][va].perm # "none" /\ pte'[p][va].pa = f
  BY <1>2 DEF Sharers, Mapped, UserWritable, UserReadable
<1> QED BY <1>3, <1>4

\* Referrers are processes, finitely many of them.
LEMMA ReferrerFacts ==
    ASSUME NEW f \in Pages
    PROVE  /\ TypeOK /\ owner[f] > 0 =>
                 /\ owner[f] \in Procs
                 /\ IsFiniteSet(Referrers(f)) /\ Cardinality(Referrers(f)) \in Nat
           /\ TypeOK' /\ owner'[f] > 0 =>
                 /\ owner'[f] \in Procs
                 /\ IsFiniteSet(Referrers(f)') /\ Cardinality(Referrers(f)') \in Nat
<1>1. IsFiniteSet(Procs)
  BY FS_Interval, Sizes DEF Procs
<1>2. TypeOK /\ owner[f] > 0 => owner[f] \in Procs /\ Referrers(f) \subseteq Procs
  BY DEF TypeOK, Referrers, Sharers, PO_RESERVED, PO_KERNEL
<1>3. TypeOK' /\ owner'[f] > 0 => owner'[f] \in Procs /\ Referrers(f)' \subseteq Procs
  BY DEF TypeOK, Referrers, Sharers, PO_RESERVED, PO_KERNEL
<1> QED BY <1>1, <1>2, <1>3, FS_Subset, FS_CardinalityType

\* If nobody new refers to a page and its count stays, the count still covers
\* its referrers.
LEMMA CountMonotone ==
    ASSUME TypeOK, TypeOK', NEW f \in Pages, owner[f] > 0, owner'[f] > 0,
           Referrers(f)' \subseteq Referrers(f),
           refcount[f] >= Cardinality(Referrers(f)),
           refcount'[f] >= refcount[f]
    PROVE  refcount'[f] >= Cardinality(Referrers(f)')
<1>1. Cardinality(Referrers(f)') <= Cardinality(Referrers(f))
  BY ReferrerFacts, FS_Subset
<1>2. refcount[f] \in Int /\ refcount'[f] \in Int
  BY Sizes DEF TypeOK
<1> QED BY <1>1, <1>2, ReferrerFacts

\* A page with a single referrer.
LEMMA CountSingle ==
    ASSUME NEW f, NEW p, Referrers(f)' \subseteq {p}, refcount'[f] = 1
    PROVE  refcount'[f] >= Cardinality(Referrers(f)')
<1>1. Referrers(f)' = {p}
  BY DEF Referrers
<1>2. Cardinality(Referrers(f)') = 1
  BY <1>1, FS_Singleton
<1> QED BY <1>2

\* Page table pages in terms of the descriptors, before and after a step.
LEMMA TableFacts ==
    ASSUME NEW f
    PROVE  /\ f \in PageTablePages <=>
                 \E q \in Procs : Live(q) /\ (f = p_pagedir[q] \/ f = p_pagetable[q])
           /\ f \in PageTablePages' <=>
                 \E q \in Procs : Live(q)' /\ (f = p_pagedir'[q] \/ f = p_pagetable'[q])
  BY DEF PageTablePages

-----------------------------------------------------------------------------
(* sys_page_alloc                                                          *)

\* sys_page_alloc gives the process a free page.
LEMMA PageAllocStep ==
    ASSUME IInv, NEW va \in UserPages, PageAlloc(va)
    PROVE  IInv'
<1> PICK f, p : f = freeAddress(0) /\ p = current
  OBVIOUS
<1>1. /\ mode = "user" /\ va \in HeapTop(p) /\ m_alloc_ok(0)
      /\ owner' = [owner EXCEPT ![f] = p_pid[p]]
      /\ refcount' = [refcount EXCEPT ![f] = 1]
      /\ pte' = [pte EXCEPT ![p] = [@ EXCEPT ![va] = Writable(f)]]
      /\ reg_eax' = [reg_eax EXCEPT ![p] = f]
      /\ UNCHANGED <<p_state, p_pid, p_pagedir, p_pagetable, memory, current, mode>>
  BY DEF PageAlloc, virtual_memory_map, Return
<1>2. /\ p \in Procs /\ p \in Slots /\ p_state[p] = P_RUNNABLE /\ Live(p) /\ p_pid[p] = p
      /\ Accounting /\ p # 0 /\ p \in Int /\ p > 0
  BY <1>1, UserMode DEF Slots
<1>3. f \in Pages /\ owner[f] = PO_FREE
  BY <1>1, AllocFacts
<1>4. /\ refcount[f] = 0 /\ f \notin PageTablePages
      /\ \A q \in Procs, w \in UserPages : pte[q][w].perm # "none" => pte[q][w].pa # f
  BY <1>2, <1>3, FreeFacts
<1>5. /\ owner'[f] = p /\ refcount'[f] = 1
      /\ \A g \in Pages : g # f => owner'[g] = owner[g] /\ refcount'[g] = refcount[g]
  BY <1>1, <1>2, <1>3 DEF IInv, TypeOK
<1>6. /\ pte'[p][va] = Writable(f) /\ pte[p][va] = Unmapped
      /\ \A q \in Procs, w \in UserPages : q # p \/ w # va => pte'[q][w] = pte[q][w]
  BY <1>1, <1>2 DEF IInv, TypeOK, HeapTop
<1>7. TypeOK'
  <2>1. Writable(f) \in Entry
    BY <1>3 DEF Writable, Entry
  <2>2. pte' \in [Procs -> [UserPages -> Entry]]
    BY <1>1, <1>2, <2>1 DEF IInv, TypeOK
  <2>3. reg_eax' \in [Procs -> Int \cup {AnyEax}]
    BY <1>1, <1>2, <1>3 DEF IInv, TypeOK, Pages
  <2>4. refcount' \in [Pages -> (-RefMax - 1)..RefMax]
    BY <1>1, <1>3, Sizes DEF IInv, TypeOK
  <2>5. owner' \in [Pages -> Procs \cup {PO_RESERVED, PO_KERNEL}]
    BY <1>1, <1>2, <1>3 DEF IInv, TypeOK
  <2> QED BY <1>1, <2>2, <2>3, <2>4, <2>5 DEF IInv, TypeOK
<1>8. \A q \in Procs : Live(q)' <=> Live(q)
  BY <1>1 DEF Live
<1>9. ProcInv'
  <2>1. \A q \in Procs : ~Live(q) => pte'[q] = pte[q]
    BY <1>1, <1>2 DEF IInv, TypeOK
  <2> QED
    BY <1>1, <1>8, <2>1
    DEF IInv, ProcInv, DescriptorZeroFree, RunningIsRunnable, StoppedInExit, NoPte
<1>10. EntryInv'
  BY <1>6 DEF IInv, EntryInv, Writable
<1>11. TableInv'
  <2>1. \A q \in Procs : Live(q) => p_pagedir[q] # f /\ p_pagetable[q] # f
    BY <1>4 DEF PageTablePages
  <2>2. \A q \in Procs : p_pagedir[q] \in Pages /\ p_pagetable[q] \in Pages
    BY DEF IInv, TypeOK
  <2> QED BY <1>1, <1>2, <1>5, <1>8, <2>1, <2>2 DEF Accounting, TableInv, OwnsPageTable
<1>12. OwnerInv'
  <2>1. \A g \in Pages : owner[g] > 0 => owner[g] \in Procs
    BY ReferrerFacts DEF IInv
  <2> QED BY <1>1, <1>2, <1>5, <2>1 DEF Accounting, OwnerInv, PO_FREE, Live
<1>13. PageTablePages' = PageTablePages
  BY <1>1 DEF PageTablePages, Live
<1>14. \A q \in Procs, w \in UserPages : pte[q][w].pa \in Pages
  BY DEF IInv, TypeOK, Entry
<1>15. MapInv'
  <2> SUFFICES ASSUME NEW q \in Procs, NEW w \in UserPages, pte'[q][w].perm # "none"
               PROVE  /\ owner'[pte'[q][w].pa] > 0
                      /\ pte'[q][w].pa \notin PageTablePages
    BY <1>13 DEF MapInv
  <2>1. CASE q = p /\ w = va
    BY <2>1, <1>2, <1>4, <1>5, <1>6 DEF Writable
  <2>2. CASE q # p \/ w # va
    BY <2>2, <1>2, <1>4, <1>5, <1>6, <1>14 DEF Accounting, MapInv
  <2> QED BY <2>1, <2>2
<1>16. PrivateInv'
  BY <1>2, <1>4, <1>6 DEF Accounting, PrivateInv, Writable
<1>17. CountInv'
  <2> SUFFICES ASSUME NEW g \in Pages, owner'[g] > 0
               PROVE  refcount'[g] >= Cardinality(Referrers(g)')
    BY DEF CountInv
  <2>1. \A q : q \in Sharers(g)' => q \in Sharers(g) \/ (q = p /\ g = f)
    BY <1>6, <1>7, <1>8, SharerFacts DEF IInv, Writable
  <2>2. CASE g = f
    <3>1. Sharers(f) = {}
      BY <1>4, SharerFacts DEF IInv
    <3>2. Referrers(g)' \subseteq {p}
      BY <1>5, <2>1, <2>2, <3>1 DEF Referrers
    <3> QED BY <2>2, <3>2, <1>5, CountSingle
  <2>3. CASE g # f
    <3>1. Referrers(g)' \subseteq Referrers(g)
      BY <1>5, <2>1, <2>3 DEF Referrers
    <3>2. refcount[g] \in Int
      BY Sizes DEF IInv, TypeOK
    <3> QED BY <1>5, <1>7, <2>3, <3>1, <3>2, <1>2, CountMonotone DEF IInv, Accounting, CountInv
  <2> QED BY <2>2, <2>3
<1>18. UseInv'
  <2> SUFFICES ASSUME NEW g \in Pages, owner'[g] > 0
               PROVE  \/ g = p_pagedir'[owner'[g]] \/ g = p_pagetable'[owner'[g]]
                      \/ \E w \in UserPages : /\ pte'[owner'[g]][w].perm # "none"
                                              /\ pte'[owner'[g]][w].pa = g
    BY DEF UseInv
  <2>1. CASE g = f
    BY <2>1, <1>5, <1>6 DEF Writable
  <2>2. CASE g # f
    <3>1. owner'[g] = owner[g] /\ owner[g] \in Procs
      BY <2>2, <1>5, ReferrerFacts DEF IInv
    <3> QED BY <3>1, <1>1, <1>2, <1>6 DEF Accounting, UseInv, Unmapped
  <2> QED BY <2>1, <2>2
<1> QED
  BY <1>7, <1>9, <1>10, <1>11, <1>12, <1>15, <1>16, <1>17, <1>18 DEF IInv, Accounting

-----------------------------------------------------------------------------
(* sys_exit                                                                *)

\* Two different referrers need a reference count of at least 2.
LEMMA TwoReferrers ==
    ASSUME TypeOK, CountInv, NEW f \in Pages, owner[f] > 0,
           NEW p \in Referrers(f), NEW q \in Referrers(f), p # q
    PROVE  refcount[f] >= 2
<1>1. IsFiniteSet(Referrers(f)) /\ Cardinality(Referrers(f)) \in Nat
  BY ReferrerFacts
<1>2. IsFiniteSet({q}) /\ Cardinality({q}) = 1
  BY FS_Singleton
<1>3. Cardinality({q} \cup {p}) = 2
  BY <1>2, FS_AddElement
<1>4. {q} \cup {p} \subseteq Referrers(f)
  OBVIOUS
<1>5. Cardinality({q} \cup {p}) <= Cardinality(Referrers(f))
  BY <1>1, <1>4, FS_Subset
<1>6. refcount[f] \in Int
  BY Sizes DEF TypeOK
<1> QED BY <1>1, <1>3, <1>5, <1>6 DEF CountInv

\* What m_releaseMemoryforProcess does to a page when it succeeds.
LEMMA ExitPages ==
    ASSUME IInv, Exit, NEW f \in Pages
    PROVE  \/ /\ owner[f] # current
              /\ owner'[f] = owner[f] /\ refcount'[f] = refcount[f]
           \/ /\ owner[f] = current /\ refcount[f] = 1
              /\ owner'[f] = PO_FREE /\ refcount'[f] = 0
           \/ /\ owner[f] = current /\ refcount[f] > 1 /\ refcount'[f] = refcount[f] - 1
              /\ owner'[f] \in Slots /\ owner'[f] # current
              /\ p_state[owner'[f]] = P_RUNNABLE
              /\ \E va \in UserPages : /\ pte[owner'[f]][va].perm # "none"
                                       /\ pte[owner'[f]][va].pa = f
<1>1. /\ mode = "user" /\ Unreleased = {}
      /\ owner' = m_free_owner(current, current, owner, refcount)
      /\ refcount' = m_free_refcount(current, owner, refcount)
  BY UserMode DEF Exit
<1>2. current \in Slots /\ p_pid[current] = current /\ Accounting
  BY <1>1, UserMode
<1>3. CASE owner[f] # current
  BY <1>1, <1>3 DEF m_free_owner, m_free_refcount
<1>4. CASE owner[f] = current
  <2>1. owner[f] > 0 /\ refcount[f] \in Nat /\ refcount[f] # 0 /\ refcount[f] <= RefMax
    BY <1>2, <1>4, Sizes DEF Accounting, OwnerInv, IInv, TypeOK, PO_FREE, Slots
  <2>2. Dec(refcount[f]) = refcount[f] - 1
    BY <2>1, Sizes DEF Dec
  <2>3. refcount'[f] = refcount[f] - 1
    BY <1>1, <1>4, <2>2 DEF m_free_refcount
  <2>4. LastRef(f, refcount) <=> refcount[f] = 1
    BY <2>1, <2>2 DEF LastRef
  <2>5. CASE refcount[f] = 1
    BY <1>1, <1>4, <2>3, <2>4, <2>5 DEF m_free_owner
  <2>6. CASE refcount[f] > 1
    <3>1. Heirs(current, f) # {}
      BY <1>1, <1>2, <1>4, <2>4, <2>6 DEF Unreleased, Owned
    <3>2. Heirs(current, f) \subseteq Nat
      BY DEF Heirs, Runnable, Slots
    <3>3. Heir(current, f) \in Heirs(current, f)
      BY <3>1, <3>2, LeastElement DEF Heir
    <3>4. owner'[f] \in Heirs(current, f)
      BY <1>1, <1>4, <2>4, <2>6, <3>1, <3>3 DEF m_free_owner
    <3>5. f >= PROC_START
      BY <1>2, <2>1, <2>6 DEF Accounting, OwnerInv
    <3>6. ~(f < PROC_START) /\ f # 0
      BY <3>5, Sizes DEF Pages
    <3>7. \E va \in UserPages : pte[owner'[f]][va].pa = f
      BY <3>4, <3>6 DEF Heirs, References
    <3>8. \E va \in UserPages : pte[owner'[f]][va].perm # "none" /\ pte[owner'[f]][va].pa = f
      BY <3>4, <3>6, <3>7, Sizes DEF IInv, EntryInv, Heirs, Runnable
    <3> QED BY <1>4, <2>3, <2>6, <3>4, <3>8 DEF Heirs, Runnable
  <2> QED BY <2>1, <2>5, <2>6
<1> QED BY <1>3, <1>4

\* An exit gives every page the process owns to an heir or to nobody.
LEMMA ExitStep ==
    ASSUME IInv, Exit
    PROVE  IInv'
<1> PICK p : p = current
  OBVIOUS
<1>1. /\ mode = "user" /\ schedule(p_state') /\ SaveRegisters
      /\ p_state' = [p_state EXCEPT ![p] = P_FREE]
      /\ p_pagedir' = [p_pagedir EXCEPT ![p] = 0]
      /\ p_pagetable' = [p_pagetable EXCEPT ![p] = 0]
      /\ pte' = [pte EXCEPT ![p] = NoPte]
      /\ UNCHANGED <<p_pid, memory>>
  BY DEF Exit
<1>2. /\ p \in Procs /\ p \in Slots /\ p_state[p] = P_RUNNABLE /\ Live(p) /\ p_pid[p] = p
      /\ Accounting /\ p # 0 /\ p > 0
      /\ \A q \in Procs : p_state[q] # P_BLOCKED
  BY <1>1, UserMode DEF Slots
<1>3. \/ mode' = "user" /\ current' \in Slots /\ p_state'[current'] = P_RUNNABLE
      \/ mode' = "idle" /\ current' = current
  BY <1>1 DEF schedule, run, Runnable
<1>4. /\ p_state'[p] = P_FREE /\ pte'[p] = NoPte
      /\ \A q \in Procs : q # p => /\ p_state'[q] = p_state[q] /\ pte'[q] = pte[q]
                                   /\ p_pagedir'[q] = p_pagedir[q]
                                   /\ p_pagetable'[q] = p_pagetable[q]
  BY <1>1, <1>2 DEF IInv, TypeOK
<1>5. TypeOK'
  <2>1. NoPte \in [UserPages -> Entry]
    BY Sizes DEF NoPte, Unmapped, Entry
  <2>2. pte' \in [Procs -> [UserPages -> Entry]]
    BY <1>1, <1>2, <2>1 DEF IInv, TypeOK
  <2>3. /\ owner' \in [Pages -> Procs \cup {PO_RESERVED, PO_KERNEL}]
        /\ refcount' \in [Pages -> (-RefMax - 1)..RefMax]
    <3>1. /\ owner' = [f \in Pages |-> owner'[f]]
          /\ refcount' = [f \in Pages |-> refcount'[f]]
      BY DEF Exit, m_free_owner, m_free_refcount
    <3>2. \A f \in Pages : /\ owner'[f] \in Procs \cup {PO_RESERVED, PO_KERNEL}
                           /\ refcount'[f] \in (-RefMax - 1)..RefMax
      <4> TAKE f \in Pages
      <4>1. /\ owner[f] \in Procs \cup {PO_RESERVED, PO_KERNEL}
            /\ refcount[f] \in (-RefMax - 1)..RefMax
        BY DEF IInv, TypeOK
      <4> QED BY <4>1, ExitPages, Sizes DEF PO_FREE
    <3> QED BY <3>1, <3>2
  <2>4. reg_eax' \in [Procs -> Int \cup {AnyEax}]
    BY <1>1, <1>2 DEF IInv, TypeOK, SaveRegisters
  <2>5. p_state' \in [Procs -> {P_FREE, P_RUNNABLE, P_BLOCKED, P_BROKEN}]
    BY <1>1, <1>2 DEF IInv, TypeOK
  <2>6. current' \in Slots /\ mode' \in {"user", "idle", "panic", "off"}
    BY <1>3, <1>2
  <2>7. p_pagedir' \in [Procs -> Pages] /\ p_pagetable' \in [Procs -> Pages]
    BY <1>1, Sizes DEF IInv, TypeOK
  <2> QED BY <1>1, <2>2, <2>3, <2>4, <2>5, <2>6, <2>7 DEF IInv, TypeOK
<1>6. \A q \in Procs : Live(q)' <=> Live(q) /\ q # p
  BY <1>4 DEF Live
<1>7. ProcInv'
  <2>1. \A q \in Procs : p_state'[q] # P_BLOCKED
    BY <1>2, <1>4 DEF P_BLOCKED, P_FREE
  <2>2. RunningIsRunnable' /\ ~StoppedInExit'
    BY <1>3, <1>5, <2>1, Sizes DEF RunningIsRunnable, StoppedInExit, TypeOK
  <2>3. DescriptorZeroFree'
    BY <1>2, <1>4, Sizes DEF IInv, ProcInv, DescriptorZeroFree
  <2>4. \A q \in Procs : ~Live(q)' => pte'[q] = NoPte
    BY <1>4, <1>6 DEF IInv, ProcInv
  <2> QED BY <1>1, <1>6, <2>1, <2>2, <2>3, <2>4 DEF IInv, ProcInv, NoPte
<1>8. EntryInv'
  BY <1>4 DEF IInv, EntryInv, NoPte, Unmapped
<1>9. \A q \in Procs, w \in UserPages :
          /\ pte'[q][w].perm # "none" => q # p /\ pte'[q][w] = pte[q][w] /\ Live(q)
          /\ pte[q][w].pa \in Pages
  BY <1>4 DEF NoPte, Unmapped, IInv, ProcInv, TypeOK, Entry
<1>10. TableInv'
  <2> SUFFICES ASSUME NEW q \in Procs, Live(q), q # p
               PROVE  OwnsPageTable(q)'
    BY <1>6 DEF TableInv
  <2>1. OwnsPageTable(q) /\ p_pagedir[q] \in Pages /\ p_pagetable[q] \in Pages
    BY <1>2 DEF Accounting, TableInv, IInv, TypeOK
  <2>2. /\ owner'[p_pagedir[q]] = q /\ refcount'[p_pagedir[q]] = 1
        /\ owner'[p_pagetable[q]] = q /\ refcount'[p_pagetable[q]] = 1
    BY <2>1, ExitPages DEF OwnsPageTable
  <2> QED BY <2>2, <1>4 DEF OwnsPageTable
<1>11. OwnerInv'
  <2> SUFFICES ASSUME NEW f \in Pages
               PROVE  /\ refcount'[f] >= 0
                      /\ owner'[f] = PO_FREE <=> refcount'[f] = 0
                      /\ owner'[f] > 0 => p_state'[owner'[f]] # P_FREE
                      /\ owner'[f] > 0 /\ refcount'[f] > 1 => f >= PROC_START
    BY DEF OwnerInv, Live
  <2>1. /\ refcount[f] >= 0 /\ refcount[f] \in Int
        /\ owner[f] = PO_FREE <=> refcount[f] = 0
        /\ owner[f] > 0 => p_state[owner[f]] # P_FREE /\ owner[f] \in Procs
        /\ owner[f] > 0 /\ refcount[f] > 1 => f >= PROC_START
    <3>1. refcount[f] \in Int
      BY Sizes DEF IInv, TypeOK
    <3>2. owner[f] > 0 => owner[f] \in Procs
      BY ReferrerFacts DEF IInv
    <3> QED BY <1>2, <3>1, <3>2 DEF Accounting, OwnerInv, Live
  <2> QED BY <2>1, <1>2, <1>4, ExitPages DEF PO_FREE, P_FREE, P_RUNNABLE, Slots, Procs
<1>12. MapInv'
  <2> SUFFICES ASSUME NEW q \in Procs, NEW w \in UserPages, pte'[q][w].perm # "none"
               PROVE  /\ owner'[pte'[q][w].pa] > 0
                      /\ pte'[q][w].pa \notin PageTablePages'
    BY DEF MapInv
  <2> PICK f : f = pte[q][w].pa
    OBVIOUS
  <2>1. /\ q # p /\ pte'[q][w] = pte[q][w] /\ f \in Pages /\ Live(q)
        /\ owner[f] > 0 /\ f \notin PageTablePages
    BY <1>2, <1>9 DEF Accounting, MapInv
  <2>2. f \notin PageTablePages'
    BY <1>4, <1>6, <2>1, TableFacts
  <2>3. q \in Referrers(f) /\ owner[f] \in Referrers(f)
    BY <2>1, SharerFacts DEF Referrers, IInv
  <2>4. owner[f] = p => refcount[f] >= 2
    BY <1>2, <2>1, <2>3, TwoReferrers DEF IInv, Accounting
  <2>5. owner'[f] > 0
    BY <2>1, <2>4, ExitPages DEF Slots
  <2> QED BY <2>1, <2>2, <2>5
<1>13. PrivateInv'
  BY <1>2, <1>9 DEF Accounting, PrivateInv
<1>14. CountInv'
  <2> SUFFICES ASSUME NEW f \in Pages, owner'[f] > 0
               PROVE  refcount'[f] >= Cardinality(Referrers(f)')
    BY DEF CountInv
  <2>1. \A q : q \in Sharers(f)' => q \in Sharers(f) /\ q # p
    BY <1>5, <1>9, SharerFacts DEF IInv
  <2>2. refcount[f] \in Int /\ (owner[f] > 0 => refcount[f] >= Cardinality(Referrers(f)))
    BY <1>2, Sizes DEF IInv, TypeOK, Accounting, CountInv
  <2>3. CASE owner[f] # p
    <3>1. owner'[f] = owner[f] /\ refcount'[f] = refcount[f]
      BY <2>3, ExitPages
    <3>2. Referrers(f)' \subseteq Referrers(f)
      BY <2>1, <3>1 DEF Referrers
    <3> QED BY <1>5, <2>2, <3>1, <3>2, CountMonotone DEF IInv
  <2>4. CASE owner[f] = p
    <3>1. /\ refcount'[f] = refcount[f] - 1
          /\ owner'[f] \in Slots /\ owner'[f] # p /\ p_state[owner'[f]] = P_RUNNABLE
          /\ \E va \in UserPages : /\ pte[owner'[f]][va].perm # "none"
                                   /\ pte[owner'[f]][va].pa = f
      BY <2>4, ExitPages DEF PO_FREE
    <3>2. owner'[f] \in Sharers(f)
      BY <3>1, Sizes, SharerFacts DEF IInv, Live, P_RUNNABLE, P_FREE
    <3>3. Referrers(f)' \subseteq Referrers(f) \ {p}
      BY <2>1, <3>1, <3>2 DEF Referrers
    <3>4. p \in Referrers(f)
      BY <2>4 DEF Referrers
    <3>5. IsFiniteSet(Referrers(f)) /\ Cardinality(Referrers(f)) \in Nat
      BY <1>2, <2>4, ReferrerFacts DEF IInv
    <3>6. /\ IsFiniteSet(Referrers(f) \ {p})
          /\ Cardinality(Referrers(f) \ {p}) = Cardinality(Referrers(f)) - 1
      BY <3>4, <3>5, FS_RemoveElement
    <3>7. Cardinality(Referrers(f)') <= Cardinality(Referrers(f)) - 1
      BY <3>3, <3>6, FS_Subset
    <3>8. Cardinality(Referrers(f)') \in Nat
      BY <1>5, ReferrerFacts
    <3> QED BY <1>2, <2>2, <2>4, <3>1, <3>5, <3>7, <3>8
  <2> QED BY <2>3, <2>4
<1>15. UseInv'
  <2> SUFFICES ASSUME NEW f \in Pages, owner'[f] > 0
               PROVE  \/ f = p_pagedir'[owner'[f]] \/ f = p_pagetable'[owner'[f]]
                      \/ \E w \in UserPages : /\ pte'[owner'[f]][w].perm # "none"
                                              /\ pte'[owner'[f]][w].pa = f
    BY DEF UseInv
  <2>1. CASE owner[f] # p
    <3>1. owner'[f] = owner[f] /\ owner[f] \in Procs
      BY <2>1, ExitPages, ReferrerFacts DEF IInv
    <3> QED BY <1>2, <1>4, <2>1, <3>1 DEF Accounting, UseInv
  <2>2. CASE owner[f] = p
    <3>1. /\ owner'[f] \in Slots /\ owner'[f] # p
          /\ \E va \in UserPages : /\ pte[owner'[f]][va].perm # "none"
                                   /\ pte[owner'[f]][va].pa = f
      BY <2>2, ExitPages DEF PO_FREE
    <3> QED BY <1>4, <3>1, Sizes
  <2> QED BY <2>1, <2>2
<1> QED
  BY <1>5, <1>7, <1>8, <1>10, <1>11, <1>12, <1>13, <1>14, <1>15 DEF IInv, Accounting

\* An exit whose assertion fails stops the kernel for good.
LEMMA ExitPanicsStep ==
    ASSUME IInv, ExitPanics
    PROVE  IInv'
<1> PICK p : p = current
  OBVIOUS
<1>1. /\ mode = "user" /\ mode' = "panic" /\ SaveRegisters
      /\ owner' = m_free_owner(p, p_pid[p], owner, refcount)
      /\ refcount' = m_free_refcount(p_pid[p], owner, refcount)
      /\ p_state' = [p_state EXCEPT ![p] = P_BLOCKED]
      /\ UNCHANGED <<p_pid, mapvars, memory, current>>
  BY DEF ExitPanics
<1>2. /\ p \in Procs /\ p \in Slots /\ p_state[p] = P_RUNNABLE /\ Live(p) /\ p_pid[p] = p
      /\ \A q \in Procs : p_state[q] # P_BLOCKED
  BY <1>1, UserMode
<1>3. owner' \in [Pages -> Procs \cup {PO_RESERVED, PO_KERNEL}]
  <2>1. \A f \in Pages : Heirs(p, f) # {} => Heir(p, f) \in Procs
    <3> SUFFICES ASSUME NEW f \in Pages, Heirs(p, f) # {} PROVE Heir(p, f) \in Procs
      OBVIOUS
    <3>1. Heirs(p, f) \subseteq Slots /\ Slots \subseteq Nat
      BY DEF Heirs, Runnable, Slots
    <3>2. Heir(p, f) \in Heirs(p, f)
      BY <3>1, LeastElement DEF Heir
    <3> QED BY <3>1, <3>2, Sizes
  <2>2. \A f \in Pages : m_free_owner(p, p, owner, refcount)[f]
                            \in Procs \cup {PO_RESERVED, PO_KERNEL}
    BY <1>2, <2>1, Sizes DEF m_free_owner, IInv, TypeOK, PO_FREE
  <2> QED BY <1>1, <1>2, <2>2 DEF m_free_owner
<1>4. refcount' \in [Pages -> (-RefMax - 1)..RefMax]
  <2>1. \A n \in (-RefMax - 1)..RefMax : Dec(n) \in (-RefMax - 1)..RefMax
    BY Sizes DEF Dec
  <2> QED BY <1>1, <2>1 DEF m_free_refcount, IInv, TypeOK
<1>5. TypeOK'
  BY <1>1, <1>2, <1>3, <1>4 DEF IInv, TypeOK, SaveRegisters, mapvars
<1>6. \A q \in Procs : /\ p_state'[q] = P_BLOCKED <=> q = p
                       /\ Live(q)' <=> Live(q)
                       /\ q # p => p_state'[q] = p_state[q]
  BY <1>1, <1>2 DEF IInv, TypeOK, Live, P_BLOCKED, P_FREE, P_RUNNABLE
<1>7. ProcInv'
  BY <1>1, <1>2, <1>6, Sizes
  DEF IInv, ProcInv, DescriptorZeroFree, RunningIsRunnable, StoppedInExit, mapvars, Slots
<1>8. EntryInv'
  BY <1>1 DEF IInv, EntryInv, mapvars
<1>9. StoppedInExit'
  BY <1>1, <1>2, <1>6 DEF StoppedInExit
<1> QED BY <1>5, <1>7, <1>8, <1>9 DEF IInv

-----------------------------------------------------------------------------
(* sys_fork                                                                *)

\* The father and the slot found for the child.
LEMMA ForkSlot ==
    ASSUME IInv, mode = "user", NEW s, FreeSlot(s)
    PROVE  /\ s \in Slots /\ s \in Procs /\ s # 0 /\ s > 0 /\ s # current
           /\ p_state[s] = P_FREE /\ ~Live(s) /\ pte[s] = NoPte
           /\ \A f \in Pages : owner[f] # s
<1>1. /\ s \in Slots /\ s \in Procs /\ s # 0 /\ s > 0 /\ s # current
      /\ p_state[s] = P_FREE /\ ~Live(s)
  BY UserMode, Sizes DEF FreeSlot, Slots, Live, P_FREE, P_RUNNABLE
<1>2. \A f \in Pages : owner[f] # s
  BY <1>1, UserMode DEF Accounting, OwnerInv
<1> QED BY <1>1, <1>2 DEF IInv, ProcInv

\* The copies of the father's pages come from free pages, none of them the two
\* pages copy_pagedir took.
LEMMA CopyFacts ==
    ASSUME IInv, copy_pagedir_ok,
           NEW va \in UserWritable(current), m_alloc_ok(CopyIndex(va))
    PROVE  /\ Copy(va) \in Pages /\ owner[Copy(va)] = PO_FREE
           /\ Copy(va) # freeAddress(0) /\ Copy(va) # freeAddress(1)
<1>1. UserWritable(current) \subseteq Nat
  BY Sizes DEF UserWritable, UserPages
<1>2. CopyIndex(va) \in Nat /\ CopyIndex(va) >= 2
  BY <1>1, RankType DEF CopyIndex
<1>3. Rank(FreePages, Copy(va)) = CopyIndex(va)
  BY <1>2, AllocFacts DEF Copy
<1>4. Rank(FreePages, freeAddress(0)) = 0 /\ Rank(FreePages, freeAddress(1)) = 1
  BY AllocFacts DEF copy_pagedir_ok
<1>5. Copy(va) \in Pages /\ owner[Copy(va)] = PO_FREE
  BY <1>2, AllocFacts DEF Copy
<1> QED BY <1>2, <1>3, <1>4, <1>5

\* Different pages get different copies.
LEMMA CopyInjective ==
    ASSUME NEW va \in UserWritable(current), NEW vb \in UserWritable(current),
           m_alloc_ok(CopyIndex(va)), m_alloc_ok(CopyIndex(vb)), Copy(va) = Copy(vb)
    PROVE  va = vb
<1>1. UserWritable(current) \subseteq Nat
  BY Sizes DEF UserWritable, UserPages
<1>2. /\ Rank(UserWritable(current), va) \in Nat
      /\ Rank(UserWritable(current), vb) \in Nat
  BY <1>1, RankType
<1>3. CopyIndex(va) = CopyIndex(vb)
  BY <1>2, AllocFacts DEF Copy, CopyIndex
<1> QED BY <1>1, <1>2, <1>3, RankInjective DEF CopyIndex

\* Every page taken for the child was free.
LEMMA TakenFacts ==
    ASSUME IInv, copy_pagedir_ok, NEW top,
           \A va \in CopiedBelow(top) : m_alloc_ok(CopyIndex(va))
    PROVE  \A f \in Taken(top) : f \in Pages /\ owner[f] = PO_FREE
<1>1. CopiedBelow(top) \subseteq UserWritable(current)
  BY DEF CopiedBelow
<1>2. \A va \in CopiedBelow(top) : Copy(va) \in Pages /\ owner[Copy(va)] = PO_FREE
  BY <1>1, CopyFacts
<1>3. /\ freeAddress(0) \in Pages /\ owner[freeAddress(0)] = PO_FREE
      /\ freeAddress(1) \in Pages /\ owner[freeAddress(1)] = PO_FREE
  BY AllocFacts DEF copy_pagedir_ok
<1> QED BY <1>2, <1>3 DEF Taken

\* The pages shared with the child are application pages the father maps.
LEMMA SharedFacts ==
    ASSUME IInv, mode = "user", NEW top, NEW f \in Shared(top)
    PROVE  /\ f \in UserPages /\ f \in Pages /\ f >= PROC_START
           /\ f \in UserReadable(current) /\ pte[current][f].pa = f
           /\ owner[f] > 0 /\ f \notin PageTablePages
<1>1. PICK va \in UserReadable(current) : f = pte[current][va].pa
  BY DEF Shared
<1>2. va \in UserPages /\ pte[current][va].perm = "ro" /\ current \in Procs /\ Accounting
  BY <1>1, UserMode DEF UserReadable
<1>3. f = va
  BY <1>1, <1>2 DEF IInv, EntryInv
<1>4. owner[f] > 0 /\ f \notin PageTablePages
  BY <1>1, <1>2 DEF Accounting, MapInv
<1>5. f \in Pages
  BY <1>1, <1>2 DEF IInv, TypeOK, Entry
<1>6. f >= PROC_START
  BY <1>2, <1>3, Sizes DEF UserPages
<1> QED BY <1>1, <1>2, <1>3, <1>4, <1>5, <1>6

\* The new count of a page the child shares, while counts stay in range.
LEMMA SharedCount ==
    ASSUME NoWrap, IInv, ForkBounded, NEW f \in Pages
    PROVE  Inc(refcount[f]) = refcount[f] + 1 /\ refcount[f] + 1 <= RefMax
<1>1. refcount[f] < RefcountBound /\ refcount[f] \in Int
  BY Sizes DEF ForkBounded, IInv, TypeOK
<1> QED BY <1>1, Sizes DEF Inc, NoWrap

\* The contents a fork copies are contents of pages.
LEMMA CopyMemoryType ==
    ASSUME IInv, mode = "user", NEW top, CopyMemory(top)
    PROVE  memory' \in [Pages -> Value]
<1>1. \A f \in Pages : (\E va \in CopiedBelow(top) : Copy(va) = f) =>
          Source(f) \in UserWritable(current)
  BY DEF CopiedBelow, Source
<1>2. \A va \in UserWritable(current) : pte[current][va].pa \in Pages
  BY UserMode DEF IInv, TypeOK, Entry, UserWritable
<1> QED BY <1>1, <1>2 DEF CopyMemory, IInv, TypeOK

\* A failed fork gives back every page it took: only the counts of pages it
\* had already shared differ.
LEMMA ReleasedFacts ==
    ASSUME NoWrap, IInv, ForkBounded, NEW s, FreeSlot(s), NEW pages, NEW shared,
           ForkReleased(s, pages, shared),
           \A f \in pages : f \in Pages /\ owner[f] = PO_FREE,
           \A f \in shared : f \in Pages /\ owner[f] > 0
    PROVE  /\ owner' = owner
           /\ refcount' = [f \in Pages |-> IF f \in shared THEN refcount[f] + 1
                                           ELSE refcount[f]]
<1> PICK ow, rc : ow = Take(s, pages) /\ rc = TakeRef(pages, shared)
  OBVIOUS
<1>1. owner' = m_free_owner(s, s, ow, rc) /\ refcount' = m_free_refcount(s, ow, rc)
  BY DEF ForkReleased
<1>2. \A f \in Pages : owner[f] # s
  BY ForkSlot DEF ForkBounded
<1>3. Dec(1) = 0
  BY Sizes DEF Dec
<1>4. Accounting
  BY UserMode DEF ForkBounded
<1>5. ASSUME NEW f \in Pages
      PROVE  /\ m_free_owner(s, s, ow, rc)[f] = owner[f]
             /\ m_free_refcount(s, ow, rc)[f] =
                   IF f \in shared THEN refcount[f] + 1 ELSE refcount[f]
  <2>1. CASE f \in pages
    <3>1. ow[f] = s /\ rc[f] = 1
      BY <2>1 DEF Take, TakeRef
    <3>2. owner[f] = PO_FREE /\ refcount[f] = 0 /\ f \notin shared
      BY <1>4, <2>1 DEF Accounting, OwnerInv, PO_FREE
    <3> QED BY <1>3, <3>1, <3>2 DEF m_free_owner, m_free_refcount, LastRef
  <2>2. CASE f \notin pages
    <3>1. ow[f] = owner[f] /\ ow[f] # s
      BY <1>2, <2>2 DEF Take
    <3>2. rc[f] = IF f \in shared THEN refcount[f] + 1 ELSE refcount[f]
      BY <2>2, SharedCount DEF TakeRef
    <3> QED BY <3>1, <3>2 DEF m_free_owner, m_free_refcount
  <2> QED BY <2>1, <2>2
<1>6. owner' = [f \in Pages |-> owner[f]]
  BY <1>1, <1>5 DEF m_free_owner
<1>7. owner = [f \in Pages |-> owner[f]]
  BY DEF IInv, TypeOK
<1> QED BY <1>1, <1>5, <1>6, <1>7 DEF m_free_refcount

\* A fork that fails returns all pages it took for the child.
LEMMA FailedForkStep ==
    ASSUME NoWrap, IInv, ForkBounded, NEW s, FreeSlot(s), NEW pages, NEW top,
           ForkReleased(s, pages, Shared(top)) \/ ForkReleased(s, pages, {}),
           \A f \in pages : f \in Pages /\ owner[f] = PO_FREE,
           memory' \in [Pages -> Value]
    PROVE  IInv'
<1> PICK p, shared : p = current /\ ForkReleased(s, pages, shared)
                     /\ (shared = Shared(top) \/ shared = {})
  OBVIOUS
<1>1. /\ p_pid' = [p_pid EXCEPT ![s] = s]
      /\ reg_eax' = [reg_eax EXCEPT ![s] = 0, ![p] = -1]
      /\ UNCHANGED <<p_state, mapvars, current, mode>>
      /\ mode = "user"
  BY DEF ForkReleased, ForkBounded
<1>2. \A f \in shared : f \in Pages /\ owner[f] > 0 /\ f >= PROC_START /\ f \notin PageTablePages
  BY <1>1, SharedFacts
<1>3. /\ owner' = owner
      /\ refcount' = [f \in Pages |-> IF f \in shared THEN refcount[f] + 1 ELSE refcount[f]]
  BY <1>2, ReleasedFacts
<1>4. s \in Slots /\ s \in Procs /\ ~Live(s) /\ Accounting
  BY <1>1, ForkSlot, UserMode
<1>5. \A f \in Pages : refcount[f] + 1 <= RefMax /\ refcount[f] \in Int /\ refcount[f] >= -RefMax - 1
  BY SharedCount, Sizes DEF IInv, TypeOK
<1>6. TypeOK'
  <2>1. refcount' \in [Pages -> (-RefMax - 1)..RefMax]
    BY <1>3, <1>5, Sizes DEF IInv, TypeOK
  <2>2. reg_eax' \in [Procs -> Int \cup {AnyEax}]
    <3>1. 0 \in Int \cup {AnyEax} /\ -1 \in Int \cup {AnyEax}
      OBVIOUS
    <3>2. [reg_eax EXCEPT ![s] = 0] \in [Procs -> Int \cup {AnyEax}]
      BY <3>1 DEF IInv, TypeOK
    <3> QED BY <1>1, <3>1, <3>2
  <2> QED BY <1>1, <1>3, <1>4, <2>1, <2>2 DEF IInv, TypeOK, mapvars
<1>7. \A q \in Procs : (Live(q)' <=> Live(q)) /\ (q # s => p_pid'[q] = p_pid[q])
  BY <1>1, <1>4 DEF Live, IInv, TypeOK
<1>8. ProcInv'
  BY <1>1, <1>4, <1>7
  DEF IInv, ProcInv, DescriptorZeroFree, RunningIsRunnable, StoppedInExit, mapvars, NoPte
<1>9. EntryInv'
  BY <1>1 DEF IInv, EntryInv, mapvars
<1>10. TableInv'
  <2> SUFFICES ASSUME NEW q \in Procs, Live(q) PROVE OwnsPageTable(q)'
    BY <1>7 DEF TableInv
  <2>1. /\ OwnsPageTable(q) /\ p_pagedir[q] \in Pages /\ p_pagetable[q] \in Pages
        /\ p_pagedir[q] \in PageTablePages /\ p_pagetable[q] \in PageTablePages
    BY <1>4, TableFacts DEF Accounting, TableInv, IInv, TypeOK
  <2> QED BY <1>1, <1>2, <1>3, <2>1 DEF OwnsPageTable, mapvars
<1>11. OwnerInv'
  <2> SUFFICES ASSUME NEW f \in Pages
               PROVE  /\ refcount'[f] >= 0
                      /\ owner'[f] = PO_FREE <=> refcount'[f] = 0
                      /\ owner'[f] > 0 => p_state'[owner'[f]] # P_FREE
                      /\ owner'[f] > 0 /\ refcount'[f] > 1 => f >= PROC_START
    BY DEF OwnerInv, Live
  <2>1. /\ refcount[f] >= 0 /\ refcount[f] \in Int
        /\ owner[f] = PO_FREE <=> refcount[f] = 0
        /\ owner[f] > 0 => p_state[owner[f]] # P_FREE
        /\ owner[f] > 0 /\ refcount[f] > 1 => f >= PROC_START
    BY <1>4, <1>5 DEF Accounting, OwnerInv, Live
  <2> QED BY <1>1, <1>2, <1>3, <2>1 DEF PO_FREE
<1>12. PageTablePages' = PageTablePages
  BY <1>1 DEF PageTablePages, mapvars, Live
<1>13. MapInv' /\ PrivateInv' /\ UseInv'
  BY <1>1, <1>3, <1>4, <1>12 DEF Accounting, MapInv, PrivateInv, UseInv, mapvars
<1>14. CountInv'
  <2> SUFFICES ASSUME NEW f \in Pages, owner'[f] > 0
               PROVE  refcount'[f] >= Cardinality(Referrers(f)')
    BY DEF CountInv
  <2>1. Referrers(f)' = Referrers(f)
    BY <1>1, <1>3 DEF Referrers, Sharers, Mapped, UserWritable, UserReadable, Live, mapvars
  <2>2. refcount'[f] >= refcount[f]
    BY <1>3, <1>5
  <2> QED BY <1>3, <1>4, <1>6, <2>1, <2>2, CountMonotone DEF IInv, Accounting, CountInv
<1> QED
  BY <1>6, <1>8, <1>9, <1>10, <1>11, <1>13, <1>14 DEF IInv, Accounting

\* The three early returns of fork.
LEMMA ForkFailsStep ==
    ASSUME NoWrap, IInv, NEW s \in Slots,
           ForkNoDirectory(s) \/ \E va \in UserPages : ForkNoMemory(s, va)
    PROVE  IInv'
<1>1. CASE ForkNoDirectory(s)
  <2> PICK pages : pages = IF m_alloc_ok(0) THEN {freeAddress(0)} ELSE {}
    OBVIOUS
  <2>1. ForkBounded /\ FreeSlot(s) /\ ForkReleased(s, pages, {}) /\ memory' = memory
    BY <1>1 DEF ForkNoDirectory
  <2>2. \A f \in pages : f \in Pages /\ owner[f] = PO_FREE
    BY AllocFacts
  <2>3. memory' \in [Pages -> Value]
    BY <2>1 DEF IInv, TypeOK
  <2> QED BY <2>1, <2>2, <2>3, FailedForkStep
<1>2. CASE \E va \in UserPages : ForkNoMemory(s, va)
  <2> PICK va \in UserPages : ForkNoMemory(s, va)
    BY <1>2
  <2>1. /\ ForkBounded /\ FreeSlot(s) /\ ForkReleased(s, Taken(va), Shared(va))
        /\ copy_pagedir_ok /\ \A w \in CopiedBelow(va) : m_alloc_ok(CopyIndex(w))
        /\ CopyMemory(va) /\ mode = "user"
    BY DEF ForkNoMemory, ForkBounded
  <2> PICK pages : pages = Taken(va)
    OBVIOUS
  <2>2. \A f \in pages : f \in Pages /\ owner[f] = PO_FREE
    BY <2>1, TakenFacts
  <2>3. memory' \in [Pages -> Value]
    BY <2>1, CopyMemoryType
  <2> QED BY <2>1, <2>2, <2>3, FailedForkStep
<1> QED BY <1>1, <1>2

\* The child of a successful fork.
LEMMA ForkStep ==
    ASSUME NoWrap, IInv, NEW s \in Slots, Fork(s)
    PROVE  IInv'
<1> PICK p, dir, tab, taken, shared :
        /\ p = current /\ dir = freeAddress(0) /\ tab = freeAddress(1)
        /\ taken = Taken(VIRT_END) /\ shared = Shared(VIRT_END)
  OBVIOUS
<1> DEFINE W == UserWritable(current)
<1> PICK cp : cp = [va \in W |-> Copy(va)]
  OBVIOUS
<1>1. /\ mode = "user" /\ ForkBounded /\ FreeSlot(s) /\ copy_pagedir_ok
      /\ \A va \in W : m_alloc_ok(CopyIndex(va))
      /\ p_state' = [p_state EXCEPT ![s] = P_RUNNABLE]
      /\ p_pid' = [p_pid EXCEPT ![s] = s]
      /\ reg_eax' = [reg_eax EXCEPT ![s] = 0, ![p] = s]
      /\ p_pagedir' = [p_pagedir EXCEPT ![s] = dir]
      /\ p_pagetable' = [p_pagetable EXCEPT ![s] = tab]
      /\ pte' = [pte EXCEPT ![s] =
                    [va \in UserPages |-> IF va \in W THEN Writable(cp[va]) ELSE pte[p][va]]]
      /\ owner' = Take(s, taken)
      /\ refcount' = TakeRef(taken, shared)
      /\ CopyMemory(VIRT_END)
      /\ UNCHANGED <<current, mode>>
  BY DEF Fork, ForkBounded
<1>2. /\ s \in Procs /\ s > 0 /\ s # p /\ p_state[s] = P_FREE /\ ~Live(s)
      /\ \A f \in Pages : owner[f] # s
      /\ p \in Procs /\ p_state[p] = P_RUNNABLE /\ Live(p) /\ Accounting
      /\ \A q \in Procs : p_state[q] # P_BLOCKED
  BY <1>1, ForkSlot, UserMode
<1>3. \A f \in taken : /\ f \in Pages /\ owner[f] = PO_FREE /\ refcount[f] = 0
                       /\ f \notin PageTablePages
                       /\ \A q \in Procs, va \in UserPages :
                             pte[q][va].perm # "none" => pte[q][va].pa # f
  <2>1. \A va \in CopiedBelow(VIRT_END) : m_alloc_ok(CopyIndex(va))
    BY <1>1 DEF CopiedBelow
  <2> QED BY <1>1, <1>2, <2>1, TakenFacts, FreeFacts
<1>4. W = CopiedBelow(VIRT_END) /\ W \subseteq UserPages
  BY Sizes DEF CopiedBelow, UserWritable, UserPages
<1>5. /\ dir \in taken /\ tab \in taken
      /\ \A va \in W : cp[va] \in taken /\ cp[va] # dir /\ cp[va] # tab
      /\ \A va, vb \in W : va # vb => cp[va] # cp[vb]
  BY <1>1, <1>4, CopyFacts, CopyInjective DEF Taken
<1>6. \A f \in taken : f = dir \/ f = tab \/ \E va \in W : f = cp[va]
  BY <1>4 DEF Taken
<1>7. \A f \in shared : /\ f \in UserPages /\ f \in Pages /\ f >= PROC_START
                        /\ pte[p][f].perm = "ro" /\ pte[p][f].pa = f
                        /\ owner[f] > 0 /\ f \notin PageTablePages
  BY <1>1, SharedFacts DEF UserReadable
<1>8. \A va \in UserPages \ W : pte[p][va].perm # "none" =>
          pte[p][va].perm = "ro" /\ pte[p][va].pa = va /\ pte[p][va].pa \in shared
  <2> SUFFICES ASSUME NEW va \in UserPages, va \notin W, pte[p][va].perm # "none"
               PROVE  /\ pte[p][va].perm = "ro" /\ pte[p][va].pa = va
                      /\ pte[p][va].pa \in shared
    OBVIOUS
  <2>1. pte[p][va].perm \in {"none", "ro", "rw"}
    BY <1>2 DEF IInv, TypeOK, Entry
  <2>2. pte[p][va].perm = "ro"
    BY <2>1 DEF UserWritable
  <2>3. va < VIRT_END
    BY Sizes DEF UserPages
  <2> QED BY <1>2, <2>2, <2>3 DEF IInv, EntryInv, Shared, UserReadable
<1>9. \A f \in Pages : /\ f \in taken => owner'[f] = s /\ refcount'[f] = 1
                       /\ f \notin taken => owner'[f] = owner[f]
                       /\ f \notin taken /\ f \in shared => refcount'[f] = refcount[f] + 1
                       /\ f \notin taken /\ f \notin shared => refcount'[f] = refcount[f]
                       /\ refcount[f] \in Int /\ refcount[f] + 1 <= RefMax
  BY <1>1, SharedCount, Sizes DEF Take, TakeRef, IInv, TypeOK
<1>10. \A q \in Procs : q # s => /\ p_state'[q] = p_state[q] /\ p_pid'[q] = p_pid[q]
                                 /\ p_pagedir'[q] = p_pagedir[q]
                                 /\ p_pagetable'[q] = p_pagetable[q]
                                 /\ pte'[q] = pte[q]
  BY <1>1 DEF IInv, TypeOK
<1>11. /\ p_state'[s] = P_RUNNABLE /\ p_pid'[s] = s
       /\ p_pagedir'[s] = dir /\ p_pagetable'[s] = tab
       /\ \A va \in UserPages :
             /\ va \in W => pte'[s][va].perm = "rw" /\ pte'[s][va].pa = cp[va]
             /\ va \notin W => pte'[s][va] = pte[p][va]
  BY <1>1, <1>2 DEF IInv, TypeOK, Writable
<1>12. TypeOK'
  <2>1. owner' \in [Pages -> Procs \cup {PO_RESERVED, PO_KERNEL}]
    BY <1>1, <1>2 DEF Take, IInv, TypeOK
  <2>2. refcount' \in [Pages -> (-RefMax - 1)..RefMax]
    <3>1. \A f \in Pages : refcount'[f] \in (-RefMax - 1)..RefMax
      BY <1>9, Sizes DEF IInv, TypeOK
    <3> QED BY <1>1, <3>1 DEF TakeRef
  <2>3. reg_eax' \in [Procs -> Int \cup {AnyEax}]
    <3>1. s \in Int \cup {AnyEax} /\ 0 \in Int \cup {AnyEax}
      BY DEF Slots
    <3>2. [reg_eax EXCEPT ![s] = 0] \in [Procs -> Int \cup {AnyEax}]
      BY <3>1 DEF IInv, TypeOK
    <3> QED BY <1>1, <3>1, <3>2
  <2>4. [va \in UserPages |-> IF va \in W THEN Writable(cp[va]) ELSE pte[p][va]]
            \in [UserPages -> Entry]
    BY <1>2, <1>3, <1>5 DEF IInv, TypeOK, Writable, Entry
  <2>5. pte' \in [Procs -> [UserPages -> Entry]]
    BY <1>1, <2>4 DEF IInv, TypeOK
  <2>6. memory' \in [Pages -> Value]
    BY <1>1, CopyMemoryType
  <2>7. /\ p_state' \in [Procs -> {P_FREE, P_RUNNABLE, P_BLOCKED, P_BROKEN}]
        /\ p_pid' \in [Procs -> Procs]
        /\ p_pagedir' \in [Procs -> Pages] /\ p_pagetable' \in [Procs -> Pages]
    BY <1>1, <1>2, <1>3, <1>5 DEF IInv, TypeOK
  <2> QED BY <1>1, <2>1, <2>2, <2>3, <2>5, <2>6, <2>7 DEF IInv, TypeOK
<1>13. \A q \in Procs : Live(q)' <=> Live(q) \/ q = s
  BY <1>10, <1>11 DEF Live, P_RUNNABLE, P_FREE
<1>14. ProcInv'
  <2>1. \A q \in Procs : p_state'[q] # P_BLOCKED
    BY <1>2, <1>10, <1>11 DEF P_RUNNABLE, P_BLOCKED
  <2>2. \A q \in Procs : ~Live(q)' => pte'[q] = NoPte
    BY <1>10, <1>13 DEF IInv, ProcInv
  <2>3. \A q \in Procs : Live(q)' => p_pid'[q] = q
    BY <1>10, <1>11, <1>13 DEF IInv, ProcInv
  <2>4. DescriptorZeroFree' /\ RunningIsRunnable' /\ ~StoppedInExit'
    BY <1>1, <1>2, <1>10, <2>1, Sizes DEF IInv, ProcInv, DescriptorZeroFree,
       RunningIsRunnable, StoppedInExit
  <2> QED BY <2>1, <2>2, <2>3, <2>4 DEF ProcInv, NoPte
<1>15. EntryInv'
  <2>1. \A va \in UserPages : /\ pte'[s][va].perm = "none" => pte'[s][va].pa = 0
                              /\ pte'[s][va].perm = "ro" => pte'[s][va].pa = va
    BY <1>2, <1>11 DEF IInv, EntryInv
  <2> QED BY <1>10, <2>1 DEF IInv, EntryInv
<1>16. \A q \in Procs : Live(q) => /\ p_pagedir[q] \in PageTablePages
                                   /\ p_pagetable[q] \in PageTablePages
                                   /\ p_pagedir[q] \in Pages /\ p_pagetable[q] \in Pages
                                   /\ OwnsPageTable(q)
  BY <1>2, TableFacts DEF IInv, TypeOK, Accounting, TableInv
<1>17. TableInv'
  <2>1. OwnsPageTable(s)'
    BY <1>3, <1>5, <1>9, <1>11 DEF OwnsPageTable
  <2>2. ASSUME NEW q \in Procs, Live(q) PROVE OwnsPageTable(q)'
    <3>1. /\ p_pagedir[q] \notin taken /\ p_pagetable[q] \notin taken
          /\ p_pagedir[q] \notin shared /\ p_pagetable[q] \notin shared
      BY <1>3, <1>7, <1>16, <2>2
    <3>2. q # s
      BY <1>2, <2>2
    <3> QED BY <1>9, <1>10, <1>16, <2>2, <3>1, <3>2 DEF OwnsPageTable
  <2> QED BY <1>13, <2>1, <2>2 DEF TableInv
<1>18. OwnerInv'
  <2> SUFFICES ASSUME NEW f \in Pages
               PROVE  /\ refcount'[f] >= 0
                      /\ owner'[f] = PO_FREE <=> refcount'[f] = 0
                      /\ owner'[f] > 0 => p_state'[owner'[f]] # P_FREE
                      /\ owner'[f] > 0 /\ refcount'[f] > 1 => f >= PROC_START
    BY DEF OwnerInv, Live
  <2>1. /\ refcount[f] >= 0 /\ refcount[f] \in Int
        /\ owner[f] = PO_FREE <=> refcount[f] = 0
        /\ owner[f] > 0 => p_state[owner[f]] # P_FREE /\ owner[f] \in Procs
        /\ owner[f] > 0 /\ refcount[f] > 1 => f >= PROC_START
    BY <1>2, <1>9, ReferrerFacts DEF Accounting, OwnerInv, Live, IInv
  <2>2. CASE f \in taken
    BY <2>2, <1>2, <1>9, <1>11 DEF PO_FREE, P_RUNNABLE, P_FREE
  <2>3. CASE f \notin taken
    BY <2>1, <2>3, <1>2, <1>7, <1>9, <1>10 DEF PO_FREE
  <2> QED BY <2>2, <2>3
<1>19. ASSUME NEW f \in Pages, f \notin taken, f \notin PageTablePages
       PROVE  f \notin PageTablePages'
  BY <1>5, <1>10, <1>11, <1>13, <1>19, TableFacts
<1>20. MapInv'
  <2> SUFFICES ASSUME NEW q \in Procs, NEW va \in UserPages, pte'[q][va].perm # "none"
               PROVE  /\ owner'[pte'[q][va].pa] > 0
                      /\ pte'[q][va].pa \notin PageTablePages'
    BY DEF MapInv
  <2>1. ASSUME NEW r \in Procs, pte[r][va].perm # "none", pte'[q][va] = pte[r][va]
        PROVE  /\ owner'[pte'[q][va].pa] > 0
               /\ pte'[q][va].pa \notin PageTablePages'
    <3>1. /\ pte[r][va].pa \in Pages /\ owner[pte[r][va].pa] > 0
          /\ pte[r][va].pa \notin PageTablePages /\ pte[r][va].pa \notin taken
      BY <1>2, <1>3, <2>1 DEF Accounting, MapInv, IInv, TypeOK, Entry
    <3> QED BY <1>9, <1>19, <2>1, <3>1
  <2>2. CASE q # s
    BY <1>10, <2>1, <2>2
  <2>3. CASE q = s /\ va \notin W
    BY <1>2, <1>11, <2>1, <2>3
  <2>4. CASE q = s /\ va \in W
    <3>1. pte'[q][va].pa = cp[va] /\ cp[va] \in taken /\ cp[va] \in Pages
      BY <1>3, <1>5, <1>11, <2>4
    <3>2. cp[va] \notin PageTablePages'
      BY <1>3, <1>5, <1>10, <1>11, <1>13, <2>4, <3>1, TableFacts
    <3> QED BY <1>2, <1>9, <3>1, <3>2
  <2> QED BY <2>2, <2>3, <2>4
<1>21. PrivateInv'
  <2> SUFFICES ASSUME NEW q \in Procs, NEW r \in Procs, NEW va \in UserPages,
                      NEW vb \in UserPages, q # r \/ va # vb,
                      pte'[q][va].perm = "rw", pte'[r][vb].perm # "none"
               PROVE  pte'[q][va].pa # pte'[r][vb].pa
    BY DEF PrivateInv
  <2>1. CASE q # s /\ r # s
    BY <1>2, <1>10, <2>1 DEF Accounting, PrivateInv
  <2>2. CASE q = s
    <3>1. va \in W /\ pte'[q][va].pa = cp[va]
      BY <1>8, <1>11, <2>2
    <3>2. CASE r # s
      BY <1>3, <1>5, <1>10, <3>1, <3>2
    <3>3. CASE r = s
      <4>1. CASE vb \in W
        BY <1>5, <1>11, <2>2, <3>1, <3>3, <4>1
      <4>2. CASE vb \notin W
        <5>1. pte'[r][vb] = pte[p][vb] /\ pte[p][vb].perm # "none"
          BY <1>11, <3>3, <4>2
        <5>2. cp[va] \in taken
          BY <1>5, <3>1
        <5> QED BY <1>2, <1>3, <3>1, <5>1, <5>2
      <4> QED BY <4>1, <4>2
    <3> QED BY <3>2, <3>3
  <2>3. CASE q # s /\ r = s
    <3>1. pte'[q][va] = pte[q][va] /\ pte[q][va].perm = "rw"
      BY <1>10, <2>3
    <3>2. CASE vb \in W
      BY <1>3, <1>5, <1>11, <2>3, <3>1, <3>2
    <3>3. CASE vb \notin W
      <4>1. pte'[r][vb] = pte[p][vb] /\ pte[p][vb].perm = "ro"
        BY <1>8, <1>11, <2>3, <3>3
      <4>2. q # p \/ va # vb
        BY <3>1, <4>1
      <4> QED BY <1>2, <3>1, <4>1, <4>2 DEF Accounting, PrivateInv
    <3> QED BY <3>2, <3>3
  <2> QED BY <2>1, <2>2, <2>3
<1>22. CountInv'
  <2> SUFFICES ASSUME NEW f \in Pages, owner'[f] > 0
               PROVE  refcount'[f] >= Cardinality(Referrers(f)')
    BY DEF CountInv
  <2>1. \A q : q \in Sharers(f)' /\ q # s => q \in Sharers(f)
    BY <1>10, <1>12, <1>13, SharerFacts DEF IInv
  <2>2. CASE f \in taken
    <3>1. Sharers(f) = {}
      BY <1>3, <2>2, SharerFacts DEF IInv
    <3>2. Referrers(f)' \subseteq {s}
      BY <1>3, <1>9, <2>1, <2>2, <3>1 DEF Referrers
    <3> QED BY <1>9, <2>2, <3>2, CountSingle
  <2>3. CASE f \notin taken
    <3>1. owner'[f] = owner[f] /\ refcount[f] >= Cardinality(Referrers(f))
      BY <1>2, <1>9, <2>3 DEF Accounting, CountInv
    <3>2. CASE f \in shared
      <4>1. refcount'[f] = refcount[f] + 1 /\ refcount[f] \in Int
        BY <1>9, <2>3, <3>2
      <4>2. Referrers(f)' \subseteq Referrers(f) \cup {s}
        BY <2>1, <3>1 DEF Referrers
      <4>3. IsFiniteSet(Referrers(f)) /\ Cardinality(Referrers(f)) \in Nat
        BY <3>1, ReferrerFacts DEF IInv
      <4>4. /\ IsFiniteSet(Referrers(f) \cup {s})
            /\ Cardinality(Referrers(f) \cup {s}) <= Cardinality(Referrers(f)) + 1
        <5>1. /\ IsFiniteSet(Referrers(f) \cup {s})
              /\ Cardinality(Referrers(f) \cup {s}) =
                    IF s \in Referrers(f) THEN Cardinality(Referrers(f))
                    ELSE Cardinality(Referrers(f)) + 1
          BY <4>3, FS_AddElement
        <5> QED BY <4>3, <5>1
      <4>5. Cardinality(Referrers(f)') <= Cardinality(Referrers(f) \cup {s})
        BY <4>2, <4>4, FS_Subset
      <4>6. Cardinality(Referrers(f)') \in Nat /\ Cardinality(Referrers(f) \cup {s}) \in Nat
        BY <1>12, <4>4, ReferrerFacts, FS_CardinalityType
      <4> QED BY <3>1, <4>1, <4>3, <4>4, <4>5, <4>6
    <3>3. CASE f \notin shared
      <4>1. s \notin Sharers(f)'
        <5> SUFFICES ASSUME NEW va \in UserPages,
                            pte'[s][va].perm # "none", pte'[s][va].pa = f
                     PROVE  FALSE
          BY <1>12, SharerFacts
        <5>1. va \notin W
          BY <1>5, <1>11, <2>3
        <5> QED BY <1>8, <1>11, <3>3, <5>1
      <4>2. Referrers(f)' \subseteq Referrers(f)
        BY <2>1, <3>1, <4>1 DEF Referrers
      <4>3. refcount'[f] = refcount[f] /\ refcount[f] \in Int
        BY <1>9, <2>3, <3>3
      <4> QED BY <1>12, <3>1, <4>2, <4>3, CountMonotone DEF IInv
    <3> QED BY <3>2, <3>3
  <2> QED BY <2>2, <2>3
<1>23. UseInv'
  <2> SUFFICES ASSUME NEW f \in Pages, owner'[f] > 0
               PROVE  \/ f = p_pagedir'[owner'[f]] \/ f = p_pagetable'[owner'[f]]
                      \/ \E w \in UserPages : /\ pte'[owner'[f]][w].perm # "none"
                                              /\ pte'[owner'[f]][w].pa = f
    BY DEF UseInv
  <2>1. CASE f \in taken
    <3>1. owner'[f] = s
      BY <1>9, <2>1
    <3>2. CASE f = dir \/ f = tab
      BY <1>11, <3>1, <3>2
    <3>3. CASE \E va \in W : f = cp[va]
      BY <1>4, <1>11, <3>1, <3>3
    <3> QED BY <1>6, <2>1, <3>2, <3>3
  <2>2. CASE f \notin taken
    <3>1. owner'[f] = owner[f] /\ owner[f] # s /\ owner[f] \in Procs
      BY <1>2, <1>9, <2>2, ReferrerFacts DEF IInv
    <3> QED BY <1>2, <1>10, <3>1 DEF Accounting, UseInv
  <2> QED BY <2>1, <2>2
<1> QED
  BY <1>12, <1>14, <1>15, <1>17, <1>18, <1>20, <1>21, <1>22, <1>23 DEF IInv, Accounting

-----------------------------------------------------------------------------
(* Booting                                                                 *)

\* A state in which command c has just been booted.
Booted(c) ==
    /\ p_state = BootState(c)
    /\ p_pid \in [Procs -> Procs] /\ \A p \in BootPids(c) : p_pid[p] = p
    /\ reg_eax = [p \in Procs |-> 0]
    /\ p_pagedir = [p \in Procs |-> IF p \in BootPids(c) THEN BootDir(p) ELSE 0]
    /\ p_pagetable = [p \in Procs |-> IF p \in BootPids(c) THEN BootTable(p) ELSE 0]
    /\ pte = [p \in Procs |-> IF p \in BootPids(c) THEN BootPte(c, p) ELSE NoPte]
    /\ owner = BootOwner(c)
    /\ refcount = BootRefcount(c)
    /\ memory \in [Pages -> Value]
    /\ current = 1
    /\ mode = "user"
JustBooted == \E c \in BootCommands : Booted(c)

\* The pages each process is given are distinct pages of physical memory.
LEMMA BootPageFacts ==
    ASSUME NEW c \in BootCommands, NEW i \in BootPids(c)
    PROVE  /\ i \in Slots /\ i \in Procs /\ i > 0 /\ i <= Len(Image[c])
           /\ BootDir(i) \in LowPages /\ BootTable(i) \in LowPages /\ BootStack(i) \in LowPages
           /\ Rank(LowPages, BootDir(i)) = 3 * i - 3
           /\ Rank(LowPages, BootTable(i)) = 3 * i - 2
           /\ Rank(LowPages, BootStack(i)) = 3 * i - 1
           /\ Image[c][i].text \subseteq PROC_START..NPAGES-1
           /\ Image[c][i].data \subseteq PROC_START..NPAGES-1
           /\ Image[c][i].text \cap Image[c][i].data = {}
<1>1. /\ Image[c] \in Seq([text : SUBSET (PROC_START..NPAGES-1),
                           data : SUBSET (PROC_START..NPAGES-1)])
      /\ Len(Image[c]) < NPROC
      /\ Image[c][i].text \cap Image[c][i].data = {}
      /\ \A k \in 0..(3 * Len(Image[c]) - 1) :
            \E f \in LowPages : Rank(LowPages, f) = k
  BY LayoutAssumption
<1>2. Len(Image[c]) \in Nat /\ i \in 1..Len(Image[c])
  BY <1>1 DEF BootPids
<1>3. ASSUME NEW k \in 0..(3 * Len(Image[c]) - 1)
      PROVE  BootPage(k) \in LowPages /\ Rank(LowPages, BootPage(k)) = k
  BY <1>1, <1>3 DEF BootPage
<1>4. /\ 3 * i - 3 \in 0..(3 * Len(Image[c]) - 1)
      /\ 3 * i - 2 \in 0..(3 * Len(Image[c]) - 1)
      /\ 3 * i - 1 \in 0..(3 * Len(Image[c]) - 1)
  BY <1>2
<1>5. i \in Slots /\ i \in Procs /\ i > 0 /\ i <= Len(Image[c])
  BY <1>1, <1>2, Sizes DEF Slots, Procs
<1>6. Image[c][i] \in [text : SUBSET (PROC_START..NPAGES-1),
                       data : SUBSET (PROC_START..NPAGES-1)]
  BY <1>1, <1>2, ElementOfSeq
<1> QED
  BY <1>1, <1>3, <1>4, <1>5, <1>6 DEF BootDir, BootTable, BootStack

\* Low pages are physical pages below the programs'.
LEMMA LowFacts == \A f \in LowPages : /\ f \in Pages /\ f < PROC_START
                                      /\ f \notin ReservedPages /\ f \notin KernelPages
  BY Sizes DEF LowPages, Pages

\* The pages of a boot image lie between PROC_START and the end of memory.
LEMMA ImageFacts ==
    ASSUME NEW c \in BootCommands, NEW i \in BootPids(c), NEW f \in ImagePages(c, i)
    PROVE  /\ f \in Pages /\ f \in UserPages /\ f >= PROC_START /\ f # StackPage
           /\ f \notin ReservedPages /\ f \notin KernelPages
<1>1. f \in PROC_START..NPAGES-1
  BY BootPageFacts DEF ImagePages
<1>2. f \in Int /\ f >= PROC_START /\ f < NPAGES
  BY <1>1, Sizes
<1>3. f \notin 0..PROC_START-1
  BY <1>2, Sizes
<1>4. f # StackPage
  BY <1>2, Sizes DEF StackPage
<1> QED BY <1>2, <1>3, <1>4, Sizes, LayoutAssumption DEF Pages, UserPages

\* No page is given to two processes.
LEMMA BootDisjoint ==
    ASSUME NEW c \in BootCommands, NEW i \in BootPids(c), NEW j \in BootPids(c),
           NEW f, f \in BootPages(c, i), f \in BootPages(c, j)
    PROVE  i = j
<1>1. i \in Int /\ j \in Int
  BY DEF BootPids
<1>2. CASE f \in ImagePages(c, i)
  <2>1. f >= PROC_START
    BY <1>2, ImageFacts
  <2>2. f \in ImagePages(c, j)
    BY <2>1, BootPageFacts, LowFacts, Sizes DEF BootPages, Pages
  <2> QED BY <1>2, <2>2, LayoutAssumption
<1>3. CASE f \in {BootDir(i), BootTable(i), BootStack(i)}
  <2>1. f < PROC_START
    BY <1>3, BootPageFacts, LowFacts
  <2>2. f \in {BootDir(j), BootTable(j), BootStack(j)}
    <3>1. f \in ImagePages(c, j) => f \in Int /\ f >= PROC_START
      BY ImageFacts DEF Pages
    <3> QED BY <2>1, <3>1, Sizes DEF BootPages
  <2>3. /\ Rank(LowPages, f) \in {3 * i - 3, 3 * i - 2, 3 * i - 1}
        /\ Rank(LowPages, f) \in {3 * j - 3, 3 * j - 2, 3 * j - 1}
    BY <1>3, <2>2, BootPageFacts
  <2> QED BY <1>1, <2>3
<1> QED BY <1>2, <1>3 DEF BootPages

\* The owner and count of every page after booting.
LEMMA BootOwnerFacts ==
    ASSUME NEW c \in BootCommands, NEW f \in Pages
    PROVE  /\ \A i \in BootPids(c) : f \in BootPages(c, i) =>
                 BootOwner(c)[f] = i /\ BootRefcount(c)[f] = 1
           /\ BootOwner(c)[f] > 0 =>
                 /\ BootOwner(c)[f] \in BootPids(c)
                 /\ f \in BootPages(c, BootOwner(c)[f])
           /\ BootOwner(c)[f] \in Procs \cup {PO_RESERVED, PO_KERNEL}
           /\ BootRefcount(c)[f] \in {0, 1}
           /\ BootRefcount(c)[f] = 0 <=> BootOwner(c)[f] = PO_FREE
<1>1. ASSUME NEW i \in BootPids(c), f \in BootPages(c, i)
      PROVE  /\ f \notin ReservedPages /\ f \notin KernelPages
             /\ (CHOOSE j \in BootPids(c) : f \in BootPages(c, j)) = i
  <2>1. f \notin ReservedPages /\ f \notin KernelPages
    BY <1>1, ImageFacts, BootPageFacts, LowFacts DEF BootPages
  <2>2. \A j \in BootPids(c) : f \in BootPages(c, j) => j = i
    BY <1>1, BootDisjoint
  <2> QED BY <1>1, <2>1, <2>2
<1>2. ASSUME NEW i \in BootPids(c), f \in BootPages(c, i)
      PROVE  BootOwner(c)[f] = i
  BY <1>1, <1>2 DEF BootOwner
<1>3. BootRefcount(c)[f] = IF BootOwner(c)[f] = PO_FREE THEN 0 ELSE 1
  BY DEF BootRefcount
<1>4. \A i \in BootPids(c) : i > 0 /\ i \in Procs /\ i # 0
  BY BootPageFacts
<1>5. (\A i \in BootPids(c) : f \notin BootPages(c, i)) =>
          BootOwner(c)[f] \in {PO_FREE, PO_RESERVED, PO_KERNEL}
  BY DEF BootOwner
<1>6. PO_FREE = 0 /\ ~(PO_FREE > 0) /\ ~(PO_RESERVED > 0) /\ ~(PO_KERNEL > 0)
  BY DEF PO_FREE, PO_RESERVED, PO_KERNEL
<1> QED BY <1>2, <1>3, <1>4, <1>5, <1>6, Sizes

\* The page table entries of a process just booted.
LEMMA BootPteFacts ==
    ASSUME NEW c \in BootCommands, NEW i \in BootPids(c), NEW va \in UserPages
    PROVE  /\ BootPte(c, i)[va] \in Entry
           /\ BootPte(c, i)[va].perm = "none" => BootPte(c, i)[va].pa = 0
           /\ BootPte(c, i)[va].perm = "ro" => BootPte(c, i)[va].pa = va
           /\ BootPte(c, i)[va].perm # "none" =>
                 \/ va = StackPage /\ BootPte(c, i)[va].pa = BootStack(i)
                 \/ /\ va # StackPage /\ va \in ImagePages(c, i)
                    /\ BootPte(c, i)[va].pa = va
           /\ va = StackPage => BootPte(c, i)[va] = Writable(BootStack(i))
           /\ va \in ImagePages(c, i) =>
                 BootPte(c, i)[va].perm # "none" /\ BootPte(c, i)[va].pa = va
<1>1. BootStack(i) \in Pages /\ StackPage \in UserPages
  BY BootPageFacts, LowFacts, Sizes
<1>2. \A f \in ImagePages(c, i) : f \in Pages /\ f # StackPage
  BY ImageFacts
<1>3. CASE va = StackPage
  <2>1. BootPte(c, i)[va] = Writable(BootStack(i))
    BY <1>3 DEF BootPte
  <2> QED BY <1>1, <1>2, <1>3, <2>1 DEF Writable, Entry
<1>4. CASE va # StackPage /\ va \in Image[c][i].text
  <2>1. BootPte(c, i)[va] = ReadOnly(va)
    BY <1>4 DEF BootPte
  <2> QED BY <1>2, <1>4, <2>1 DEF ReadOnly, Entry, ImagePages
<1>5. CASE va # StackPage /\ va \notin Image[c][i].text /\ va \in Image[c][i].data
  <2>1. BootPte(c, i)[va] = Writable(va)
    BY <1>5 DEF BootPte
  <2> QED BY <1>2, <1>5, <2>1 DEF Writable, Entry, ImagePages
<1>6. CASE va # StackPage /\ va \notin ImagePages(c, i)
  <2>1. BootPte(c, i)[va] = Unmapped
    BY <1>6 DEF BootPte, ImagePages
  <2> QED BY <1>6, <2>1, Sizes DEF Unmapped, Entry
<1> QED BY <1>3, <1>4, <1>5, <1>6 DEF ImagePages


\* Every process just booted owns its pages alone: the invariant holds after a
\* boot and after a soft reboot.
LEMMA BootedInv == JustBooted => IInv
<1> SUFFICES ASSUME NEW c \in BootCommands, Booted(c) PROVE IInv
  BY DEF JustBooted
<1>1. \A p \in Procs : Live(p) <=> p \in BootPids(c)
  BY DEF Booted, BootState, Live, P_FREE, P_RUNNABLE
<1>2. 1 \in BootPids(c) /\ 0 \notin BootPids(c)
  <2>1. Len(Image[c]) \in Nat /\ Len(Image[c]) >= 1
    BY LayoutAssumption
  <2> QED BY <2>1 DEF BootPids
<1>3. ASSUME NEW p \in BootPids(c)
      PROVE  /\ p \in Procs /\ p > 0 /\ p # 0 /\ p_pid[p] = p
             /\ p_pagedir[p] = BootDir(p) /\ p_pagetable[p] = BootTable(p)
             /\ pte[p] = BootPte(c, p)
             /\ BootDir(p) \in Pages /\ BootTable(p) \in Pages /\ BootStack(p) \in Pages
             /\ BootDir(p) < PROC_START /\ BootTable(p) < PROC_START
             /\ BootStack(p) < PROC_START
  BY BootPageFacts, LowFacts DEF Booted
<1>4. ASSUME NEW p \in Procs, p \notin BootPids(c)
      PROVE  p_pagedir[p] = 0 /\ p_pagetable[p] = 0 /\ pte[p] = NoPte
  BY <1>4 DEF Booted
<1>5. ASSUME NEW p \in BootPids(c), NEW f \in Pages, f \in BootPages(c, p)
      PROVE  owner[f] = p /\ refcount[f] = 1
  BY <1>5, BootOwnerFacts DEF Booted
<1>6. ASSUME NEW p \in Procs, NEW va \in UserPages
      PROVE  /\ pte[p][va] \in Entry
             /\ pte[p][va].perm = "none" => pte[p][va].pa = 0
             /\ pte[p][va].perm = "ro" => pte[p][va].pa = va
             /\ pte[p][va].perm # "none" =>
                  /\ p \in BootPids(c)
                  /\ pte[p][va].pa \in Pages /\ pte[p][va].pa \in BootPages(c, p)
                  /\ \/ va = StackPage /\ pte[p][va].pa = BootStack(p)
                     \/ /\ va # StackPage /\ pte[p][va].pa = va
                        /\ pte[p][va].pa \in ImagePages(c, p)
  <2>1. CASE p \in BootPids(c)
    BY <1>3, <2>1, BootPteFacts, ImageFacts DEF BootPages
  <2>2. CASE p \notin BootPids(c)
    <3>1. pte[p][va] = Unmapped
      BY <1>4, <2>2 DEF NoPte
    <3> QED BY <3>1, Sizes DEF Unmapped, Entry
  <2> QED BY <2>1, <2>2
<1>7. TypeOK
  <2>1. p_state \in [Procs -> {P_FREE, P_RUNNABLE, P_BLOCKED, P_BROKEN}]
    BY DEF Booted, BootState
  <2>2. p_pid \in [Procs -> Procs] /\ reg_eax \in [Procs -> Int \cup {AnyEax}]
    BY DEF Booted
  <2>3. p_pagedir \in [Procs -> Pages] /\ p_pagetable \in [Procs -> Pages]
    BY <1>3, Sizes DEF Booted
  <2>4. pte \in [Procs -> [UserPages -> Entry]]
    <3>1. DOMAIN pte = Procs /\ pte = [p \in Procs |-> pte[p]]
      BY DEF Booted
    <3>2. \A p \in Procs : pte[p] = [va \in UserPages |-> pte[p][va]]
      BY <1>3, <1>4 DEF BootPte, NoPte
    <3>3. \A p \in Procs : pte[p] \in [UserPages -> Entry]
      BY <1>6, <3>2
    <3> QED BY <3>1, <3>3
  <2>5. owner \in [Pages -> Procs \cup {PO_RESERVED, PO_KERNEL}]
    <3>1. owner = [f \in Pages |-> owner[f]]
      BY DEF Booted, BootOwner
    <3>2. \A f \in Pages : owner[f] \in Procs \cup {PO_RESERVED, PO_KERNEL}
      BY BootOwnerFacts DEF Booted
    <3> QED BY <3>1, <3>2
  <2>6. refcount \in [Pages -> (-RefMax - 1)..RefMax]
    <3>1. refcount = [f \in Pages |-> refcount[f]]
      BY DEF Booted, BootRefcount
    <3>2. \A f \in Pages : refcount[f] \in {0, 1}
      BY BootOwnerFacts DEF Booted
    <3>3. {0, 1} \subseteq (-RefMax - 1)..RefMax
      BY Sizes
    <3> QED BY <3>1, <3>2, <3>3
  <2> QED BY <2>1, <2>2, <2>3, <2>4, <2>5, <2>6, Sizes DEF Booted, TypeOK
<1>8. ProcInv
  <2>1. DescriptorZeroFree
    BY <1>1, <1>2, Sizes DEF DescriptorZeroFree, Live
  <2>2. p_state[current] = P_RUNNABLE
    BY <1>2, Sizes DEF Booted, BootState
  <2>3. \A p \in Procs : p_state[p] # P_BLOCKED
    BY DEF Booted, BootState, P_FREE, P_RUNNABLE, P_BLOCKED
  <2>4. ~StoppedInExit
    BY <2>2 DEF StoppedInExit, P_RUNNABLE, P_BLOCKED
  <2> QED BY <1>1, <1>3, <1>4, <2>1, <2>2, <2>3, <2>4 DEF ProcInv, RunningIsRunnable
<1>9. EntryInv
  BY <1>6 DEF EntryInv
<1>10. TableInv
  BY <1>1, <1>3, <1>5 DEF TableInv, OwnsPageTable, BootPages
<1>11. OwnerInv
  <2> SUFFICES ASSUME NEW f \in Pages
               PROVE  /\ refcount[f] >= 0
                      /\ owner[f] = PO_FREE <=> refcount[f] = 0
                      /\ owner[f] > 0 => Live(owner[f])
                      /\ owner[f] > 0 /\ refcount[f] > 1 => f >= PROC_START
    BY DEF OwnerInv
  <2>1. /\ owner[f] > 0 => owner[f] \in BootPids(c)
        /\ refcount[f] \in {0, 1}
        /\ refcount[f] = 0 <=> owner[f] = PO_FREE
    BY BootOwnerFacts DEF Booted
  <2>2. owner[f] > 0 => Live(owner[f])
    BY <1>1, <1>3, <2>1
  <2> QED BY <2>1, <2>2
<1>12. MapInv
  <2> SUFFICES ASSUME NEW p \in Procs, NEW va \in UserPages, pte[p][va].perm # "none"
               PROVE  /\ owner[pte[p][va].pa] > 0
                      /\ pte[p][va].pa \notin PageTablePages
    BY DEF MapInv
  <2>1. PICK f : f = pte[p][va].pa
    OBVIOUS
  <2>2. /\ p \in BootPids(c) /\ f \in Pages /\ f \in BootPages(c, p)
        /\ f = BootStack(p) \/ f \in ImagePages(c, p)
    BY <1>6, <2>1
  <2>3. owner[f] > 0
    BY <1>3, <1>5, <2>2
  <2>4. ASSUME NEW q \in Procs, Live(q) PROVE f # p_pagedir[q] /\ f # p_pagetable[q]
    <3>1. q \in BootPids(c) /\ q \in Int /\ p \in Int
      BY <1>1, <2>2, <2>4 DEF BootPids
    <3>2. CASE f = BootStack(p)
      <4>1. /\ Rank(LowPages, f) = 3 * p - 1
            /\ Rank(LowPages, BootDir(q)) = 3 * q - 3
            /\ Rank(LowPages, BootTable(q)) = 3 * q - 2
        BY <2>2, <3>1, <3>2, BootPageFacts
      <4>2. f # BootDir(q) /\ f # BootTable(q)
        BY <3>1, <4>1
      <4> QED BY <1>3, <3>1, <4>2
    <3>3. CASE f \in ImagePages(c, p)
      <4>1. f >= PROC_START /\ f \in Int
        BY <2>2, <3>3, ImageFacts DEF Pages
      <4>2. BootDir(q) < PROC_START /\ BootTable(q) < PROC_START
        BY <1>3, <3>1
      <4> QED BY <1>3, <3>1, <4>1, <4>2, Sizes
    <3> QED BY <2>2, <3>2, <3>3
  <2> QED BY <2>1, <2>3, <2>4, TableFacts
<1>13. PrivateInv
  <2> SUFFICES ASSUME NEW p \in Procs, NEW q \in Procs,
                      NEW va \in UserPages, NEW vb \in UserPages,
                      p # q \/ va # vb,
                      pte[p][va].perm # "none", pte[q][vb].perm # "none",
                      pte[p][va].pa = pte[q][vb].pa
               PROVE  FALSE
    BY DEF PrivateInv
  <2>1. PICK f : f = pte[p][va].pa /\ f = pte[q][vb].pa
    OBVIOUS
  <2>2. /\ p \in BootPids(c) /\ f \in BootPages(c, p)
        /\ \/ va = StackPage /\ f = BootStack(p)
           \/ va # StackPage /\ f = va /\ f \in ImagePages(c, p)
    BY <1>6, <2>1
  <2>2a. /\ q \in BootPids(c) /\ f \in BootPages(c, q)
         /\ \/ vb = StackPage /\ f = BootStack(q)
            \/ vb # StackPage /\ f = vb /\ f \in ImagePages(c, q)
    BY <1>6, <2>1
  <2>3. p = q
    BY <2>2, <2>2a, BootDisjoint
  <2>4. BootStack(p) \notin ImagePages(c, p)
    BY <1>3, <2>2, ImageFacts, Sizes DEF Pages
  <2> QED BY <2>2, <2>2a, <2>3, <2>4
<1>14. CountInv
  <2> SUFFICES ASSUME NEW f \in Pages, owner[f] > 0
               PROVE  refcount[f] >= Cardinality(Referrers(f))
    BY DEF CountInv
  <2>1. PICK o : o = owner[f]
    OBVIOUS
  <2>2. o \in BootPids(c) /\ f \in BootPages(c, o) /\ refcount[f] = 1
    BY <2>1, BootOwnerFacts DEF Booted
  <2>3. Sharers(f) \subseteq {o}
    <3> SUFFICES ASSUME NEW p \in Sharers(f) PROVE p = o
      OBVIOUS
    <3>1. PICK va \in UserPages : p \in Procs /\ pte[p][va].perm # "none" /\ pte[p][va].pa = f
      BY <1>7, SharerFacts
    <3>2. p \in BootPids(c) /\ f \in BootPages(c, p)
      BY <1>6, <3>1
    <3> QED BY <2>2, <3>2, BootDisjoint
  <2>4. Referrers(f) = {o}
    BY <2>1, <2>3 DEF Referrers
  <2>5. Cardinality(Referrers(f)) = 1
    BY <2>4, FS_Singleton
  <2> QED BY <2>2, <2>5
<1>15. UseInv
  <2> SUFFICES ASSUME NEW f \in Pages, owner[f] > 0
               PROVE  \/ f = p_pagedir[owner[f]] \/ f = p_pagetable[owner[f]]
                      \/ \E va \in UserPages : /\ pte[owner[f]][va].perm # "none"
                                               /\ pte[owner[f]][va].pa = f
    BY DEF UseInv
  <2>1. owner[f] \in BootPids(c) /\ f \in BootPages(c, owner[f])
    BY BootOwnerFacts DEF Booted
  <2>2. CASE f = BootDir(owner[f]) \/ f = BootTable(owner[f])
    BY <1>3, <2>1, <2>2
  <2>3. CASE f = BootStack(owner[f])
    <3>1. pte[owner[f]][StackPage] = Writable(f)
      BY <1>3, <2>1, <2>3, BootPteFacts, Sizes
    <3> QED BY <3>1, Sizes DEF Writable
  <2>4. CASE f \in ImagePages(c, owner[f])
    <3>1. f \in UserPages
      BY <2>1, <2>4, ImageFacts
    <3>2. pte[owner[f]][f].perm # "none" /\ pte[owner[f]][f].pa = f
      BY <1>3, <2>1, <2>4, <3>1, BootPteFacts
    <3> QED BY <3>1, <3>2
  <2> QED BY <2>1, <2>2, <2>3, <2>4 DEF BootPages
<1> QED
  BY <1>7, <1>8, <1>9, <1>10, <1>11, <1>12, <1>13, <1>14, <1>15 DEF IInv, Accounting


\* The machine starts freshly booted.
LEMMA InitBooted == Init => JustBooted
<1> SUFFICES ASSUME NEW c \in BootCommands, InitWith(c) PROVE Booted(c)
  BY DEF Init, JustBooted
<1>1. p_pid \in [Procs -> Procs] /\ \A p \in BootPids(c) : p_pid[p] = p
  BY BootPageFacts DEF InitWith, BootPid
<1>2. memory \in [Pages -> Value]
  BY Sizes DEF InitWith
<1> QED BY <1>1, <1>2 DEF InitWith, Booted

\* So it is after a soft reboot into a command that starts one process: the
\* pid that process_setup writes into the interrupted process's descriptor is
\* then the number of the process just set up.
LEMMA RebootBooted ==
    ASSUME IInv, SingleRoot, NEW c \in RebootCommands, SoftReboot(c)
    PROVE  JustBooted'
<1>1. c \in BootCommands
  BY LayoutAssumption
<1>2. p_pid' \in [Procs -> Procs] /\ \A p \in BootPids(c) : p_pid'[p] = p
  <2>1. Len(Image[c]) = 1 /\ 1 \in Procs
    BY Sizes DEF SingleRoot
  <2>2. \A p \in BootPids(c) : p = 1
    BY <2>1 DEF BootPids
  <2>3. p_pid' = [p \in Procs |-> IF p = current /\ current # 0 THEN 1 ELSE p]
    BY <2>1 DEF SoftReboot, BootPid
  <2> QED BY <2>1, <2>2, <2>3
<1>3. memory' \in [Pages -> Value]
  BY Sizes DEF SoftReboot, IInv, TypeOK
<1>4. Booted(c)'
  BY <1>2, <1>3 DEF SoftReboot, Booted
<1> QED BY <1>1, <1>4 DEF JustBooted

-----------------------------------------------------------------------------
(* The theorems                                                            *)

\* IInv is inductive.
LEMMA Inductive ==
    ASSUME SingleRoot, NoWrap, IInv, [Next]_vars
    PROVE  IInv'
<1>1. CASE Timer \/ Yield
  BY <1>1, TimerStep
<1>2. CASE PageFault
  BY <1>2, PageFaultStep
<1>3. CASE \/ GetPid \/ SysPanic \/ ForkNoSlot \/ PowerOff \/ Halted \/ UNCHANGED vars
           \/ \E va \in UserPages : PageAllocFails(va)
           \/ \E va \in UserPages, v \in Value : UserWrite(va, v)
  BY <1>3, StillStep
<1>4. ASSUME NEW va \in UserPages, PageAlloc(va) PROVE IInv'
  BY <1>4, PageAllocStep
<1>5. ASSUME NEW s \in Slots, Fork(s) PROVE IInv'
  BY <1>5, ForkStep
<1>6. ASSUME NEW s \in Slots,
             ForkNoDirectory(s) \/ \E va \in UserPages : ForkNoMemory(s, va)
      PROVE  IInv'
  BY <1>6, ForkFailsStep
<1>7. CASE Exit
  BY <1>7, ExitStep
<1>8. CASE ExitPanics
  BY <1>8, ExitPanicsStep
<1>9. ASSUME NEW c \in RebootCommands, SoftReboot(c) PROVE IInv'
  <2>1. JustBooted'
    BY <1>9, RebootBooted
  <2>2. (JustBooted => IInv)'
    BY BootedInv, PTL
  <2> QED BY <2>1, <2>2
<1> QED
  BY <1>1, <1>2, <1>3, <1>4, <1>5, <1>6, <1>7, <1>8, <1>9 DEF Next


\* IInv holds in every reachable state: in particular every variable has its
\* type (the int8_t counts do not wrap and pids stay descriptor numbers).
THEOREM KernelInvariant == ASSUME SingleRoot, NoWrap PROVE Spec => []IInv
<1>1. Init => IInv
  BY InitBooted, BootedInv
<1>2. IInv /\ [Next]_vars => IInv'
  BY Inductive
<1> QED BY <1>1, <1>2, PTL DEF Spec

\* Every variable has its type in every reachable state: no descriptor, page
\* table entry or reference count ever holds a value outside its range.
THEOREM TypeCorrect == ASSUME SingleRoot, NoWrap PROVE Spec => []TypeOK
<1>1. IInv => TypeOK
  BY DEF IInv
<1> QED BY <1>1, KernelInvariant, PTL

\* The assertions of virtual_memory_check never fail.
THEOREM PageTablesOwned == ASSUME SingleRoot, NoWrap PROVE Spec => []VirtualMemoryCheck
<1>1. IInv => VirtualMemoryCheck
  <2> SUFFICES ASSUME IInv, Accounting PROVE VirtualMemoryCheck
    BY DEF IInv, VirtualMemoryCheck
  <2>1. DescriptorZeroFree
    BY DEF IInv, ProcInv
  <2>2. \A p \in Procs : Live(p) => OwnsPageTable(p)
    BY DEF Accounting, TableInv
  <2>3. OwnersLive
    <3> SUFFICES ASSUME NEW f \in Pages, refcount[f] > 0, owner[f] >= 0 PROVE Live(owner[f])
      BY DEF OwnersLive
    <3>1. owner[f] # PO_FREE /\ owner[f] \in Int
      BY DEF Accounting, OwnerInv, IInv, TypeOK, Procs, PO_RESERVED, PO_KERNEL
    <3> QED BY <3>1 DEF Accounting, OwnerInv, PO_FREE
  <2> QED BY <2>1, <2>2, <2>3 DEF VirtualMemoryCheck
<1> QED BY <1>1, KernelInvariant, PTL

\* No process can write what another one can read, nor touch a page table, a
\* kernel page or a free page.
THEOREM ProcessesIsolated == ASSUME SingleRoot, NoWrap PROVE Spec => []Isolation
<1>1. IInv => Isolation
  <2> SUFFICES ASSUME IInv, Accounting, NEW p \in Procs, Live(p), NEW f \in Mapped(p)
               PROVE  /\ owner[f] > 0
                      /\ f \notin PageTablePages
                      /\ \A q \in Procs \ {p} : Live(q) /\ f \in Mapped(q) => ~CanWrite(p, f)
    BY DEF IInv, Isolation
  <2>1. PICK va \in UserPages : pte[p][va].perm # "none" /\ pte[p][va].pa = f
    BY DEF Mapped, UserWritable, UserReadable
  <2>2. owner[f] > 0 /\ f \notin PageTablePages
    BY <2>1 DEF Accounting, MapInv
  <2>3. ASSUME NEW q \in Procs \ {p}, f \in Mapped(q), CanWrite(p, f)
        PROVE  FALSE
    <3>1. PICK vb \in UserPages : pte[q][vb].perm # "none" /\ pte[q][vb].pa = f
      BY <2>3 DEF Mapped, UserWritable, UserReadable
    <3>2. PICK vw \in UserPages : pte[p][vw].perm = "rw" /\ pte[p][vw].pa = f
      BY <2>3 DEF CanWrite, UserWritable
    <3> QED BY <3>1, <3>2 DEF Accounting, PrivateInv
  <2> QED BY <2>2, <2>3
<1> QED BY <1>1, KernelInvariant, PTL

\* The reference count of a page is at least the number of processes that
\* depend on it, so that m_free never frees a page someone still maps.
THEOREM CountsCoverReferrers ==
    ASSUME SingleRoot, NoWrap PROVE Spec => []RefcountCoversReferrers
<1>1. IInv => RefcountCoversReferrers
  BY DEF IInv, Accounting, CountInv, OwnerInv, RefcountCoversReferrers
<1> QED BY <1>1, KernelInvariant, PTL

\* Every page a process owns is one it can use: nothing is leaked before the
\* exit of the owner.
THEOREM NoPageLost == ASSUME SingleRoot, NoWrap PROVE Spec => []OwnedPagesInUse
<1>1. IInv => OwnedPagesInUse
  <2> SUFFICES ASSUME IInv, Accounting, NEW f \in Pages, owner[f] > 0
               PROVE  \/ f \in {p_pagedir[owner[f]], p_pagetable[owner[f]]}
                      \/ f \in Mapped(owner[f])
    BY DEF IInv, OwnedPagesInUse
  <2>1. owner[f] \in Procs
    BY DEF IInv, TypeOK, PO_RESERVED, PO_KERNEL
  <2>2. CASE \E va \in UserPages : pte[owner[f]][va].perm # "none" /\ pte[owner[f]][va].pa = f
    <3>1. PICK va \in UserPages : pte[owner[f]][va].perm # "none" /\ pte[owner[f]][va].pa = f
      BY <2>2
    <3>2. pte[owner[f]][va].perm \in {"ro", "rw"}
      BY <2>1, <3>1 DEF IInv, TypeOK, Entry
    <3> QED BY <3>1, <3>2 DEF Mapped, UserWritable, UserReadable
  <2> QED BY <2>2 DEF Accounting, UseInv
<1> QED BY <1>1, KernelInvariant, PTL

\* The process that executes user code is runnable: the scheduler never resumes
\* a process that has exited or faulted.
THEOREM OnlyRunnableRuns == ASSUME SingleRoot, NoWrap PROVE Spec => []RunningIsRunnable
<1>1. IInv => RunningIsRunnable
  BY DEF IInv, ProcInv
<1> QED BY <1>1, KernelInvariant, PTL


\* One failed call.
LEMMA FailedCallStep ==
    ASSUME NoWrap, IInv, Next, FailedCall
    PROVE  UNCHANGED <<p_state, mapvars, owner>>
<1> USE DEF FailedCall
<1>1. /\ current \in Procs /\ mode = "user" /\ Accounting
      /\ reg_eax'[current] = -1 /\ reg_eax \in [Procs -> Int \cup {AnyEax}]
  BY UserMode DEF IInv, TypeOK
<1>2. ASSUME SaveRegisters PROVE FALSE
  BY <1>1, <1>2, Sizes DEF SaveRegisters
<1>3. CASE Timer \/ Yield \/ PageFault \/ SysPanic \/ Exit \/ ExitPanics
  BY <1>2, <1>3 DEF Timer, Yield, PageFault, SysPanic, Exit, ExitPanics
<1>4. CASE GetPid \/ ForkNoSlot \/ PowerOff \/ Halted
  BY <1>4 DEF GetPid, ForkNoSlot, PowerOff, Halted, vars, procvars, mapvars, pagevars
<1>5. ASSUME NEW va \in UserPages, PageAlloc(va) PROVE FALSE
  <2>1. m_alloc_ok(0) /\ \E f : f = freeAddress(0) /\ Return(f)
    BY <1>5 DEF PageAlloc
  <2>2. PICK f \in Pages : Return(f)
    BY <2>1, AllocFacts
  <2>3. f # -1
    BY Sizes DEF Pages
  <2> QED BY <1>1, <2>2, <2>3 DEF Return
<1>6. ASSUME NEW va \in UserPages, PageAllocFails(va) \/ \E v \in Value : UserWrite(va, v)
      PROVE  UNCHANGED <<p_state, mapvars, owner>>
  BY <1>6 DEF PageAllocFails, UserWrite, procvars, mapvars, pagevars
<1>7. ASSUME NEW s \in Slots, Fork(s) PROVE FALSE
  <2>1. reg_eax' = [reg_eax EXCEPT ![s] = 0, ![current] = s]
    BY <1>7 DEF Fork
  <2>2. s # -1
    BY DEF Slots
  <2> QED BY <1>1, <2>1, <2>2
<1>8. ASSUME NEW s \in Slots, NEW pages, NEW shared, ForkBounded, FreeSlot(s),
             ForkReleased(s, pages, shared),
             \A f \in pages : f \in Pages /\ owner[f] = PO_FREE,
             \A f \in shared : f \in Pages /\ owner[f] > 0
      PROVE  UNCHANGED <<p_state, mapvars, owner>>
  <2>1. owner' = owner
    BY <1>8, ReleasedFacts
  <2> QED BY <1>8, <2>1 DEF ForkReleased
<1>9. ASSUME NEW s \in Slots, ForkNoDirectory(s)
      PROVE  UNCHANGED <<p_state, mapvars, owner>>
  <2> PICK pages : pages = IF m_alloc_ok(0) THEN {freeAddress(0)} ELSE {}
    OBVIOUS
  <2>1. ForkBounded /\ FreeSlot(s) /\ ForkReleased(s, pages, {})
    BY <1>9 DEF ForkNoDirectory
  <2>2. \A f \in pages : f \in Pages /\ owner[f] = PO_FREE
    BY AllocFacts
  <2> QED BY <1>8, <2>1, <2>2
<1>10. ASSUME NEW s \in Slots, NEW va \in UserPages, ForkNoMemory(s, va)
       PROVE  UNCHANGED <<p_state, mapvars, owner>>
  <2> PICK pages, shared : pages = Taken(va) /\ shared = Shared(va)
    OBVIOUS
  <2>1. /\ ForkBounded /\ FreeSlot(s) /\ ForkReleased(s, pages, shared)
        /\ copy_pagedir_ok /\ \A w \in CopiedBelow(va) : m_alloc_ok(CopyIndex(w))
    BY <1>10 DEF ForkNoMemory
  <2>2. \A f \in pages : f \in Pages /\ owner[f] = PO_FREE
    BY <2>1, TakenFacts
  <2>3. \A f \in shared : f \in Pages /\ owner[f] > 0
    BY <1>1, SharedFacts
  <2> QED BY <1>8, <2>1, <2>2, <2>3
<1>11. ASSUME NEW c \in RebootCommands, SoftReboot(c) PROVE FALSE
  BY <1>1, <1>11 DEF SoftReboot
<1> QED
  BY <1>3, <1>4, <1>5, <1>6, <1>7, <1>9, <1>10, <1>11 DEF Next

\* A system call that returns -1 changes no process, no page table and no
\* owner: a fork that runs out of memory half way takes nothing.
THEOREM FailuresLeaveNoTrace ==
    ASSUME SingleRoot, NoWrap PROVE Spec => FailureLeavesNoTrace
<1>1. IInv /\ [Next]_vars => [FailedCall => UNCHANGED <<p_state, mapvars, owner>>]_vars
  BY FailedCallStep DEF vars
<1> QED BY <1>1, KernelInvariant, PTL DEF Spec, FailureLeavesNoTrace

=============================================================================
