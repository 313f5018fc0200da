------------------------ MODULE KernelRefinementProofs ------------------------
(* The kernel implements private address spaces (module AddressSpaces), for    *)
(* every number of processes and pages and every boot image, under the two     *)
(* assumptions of KernelProofs.                                                *)
EXTENDS KernelProofs, KernelImplements

-----------------------------------------------------------------------------
(* The refinement mapping                                                      *)

Status  == [p \in Slots |-> StatusOf(p)]
Space   == [p \in Slots |-> SpaceOf(p)]
Running == IF mode = "user" THEN current ELSE 0

\* While user code runs the running process is a ready one.
LEMMA RunningFacts ==
    ASSUME IInv, mode = "user"
    PROVE  /\ Running = current /\ Running # 0
           /\ current \in Slots /\ current \in Procs
  BY UserMode DEF Running, Slots

\* What a process sees stays the same if its page table and the pages that it
\* leads to do.
LEMMA SameSpace ==
    ASSUME NEW p,
           \A va \in UserPages : pte'[p][va] = pte[p][va],
           \A va \in UserPages :
              pte[p][va].perm # "none" => memory'[pte[p][va].pa] = memory[pte[p][va].pa]
    PROVE  SpaceOf(p)' = SpaceOf(p)
  BY DEF SpaceOf

\* Steps of the kernel that no process can see.
LEMMA Stutters ==
    ASSUME Status' = Status, Space' = Space, Running' = Running
    PROVE  UNCHANGED Memories!avars
  BY DEF Memories!avars, Status, Space, Running

\* A page that is mapped has an owner.
LEMMA MappedOwned ==
    ASSUME IInv, Accounting, NEW p \in Procs, NEW va \in UserPages, pte[p][va].perm # "none"
    PROVE  pte[p][va].pa \in Pages /\ owner[pte[p][va].pa] > 0
<1>1. pte[p][va] \in Entry
  BY DEF IInv, TypeOK
<1> QED BY <1>1 DEF Entry, Accounting, MapInv

\* The scheduler finds somebody ready to run, if there is one.
LEMMA ScheduleDispatches ==
    ASSUME TypeOK', schedule(p_state'), \A p \in Slots : p_state'[p] # P_BLOCKED
    PROVE  Running' \in Slots \cup {0} /\ Memories!Dispatch
<1>1. \A p \in Slots : Status'[p] = "ready" <=> p_state'[p] = P_RUNNABLE
  BY Sizes DEF Status, StatusOf, TypeOK, P_FREE, P_BROKEN, P_BLOCKED, P_RUNNABLE
<1>2. \/ Running' \in Slots /\ p_state'[Running'] = P_RUNNABLE
      \/ Running' = 0 /\ \A p \in Slots : p_state'[p] # P_RUNNABLE
  BY DEF schedule, run, Runnable, Running
<1>3. \A p \in Slots : p # 0
  BY DEF Slots
<1> QED BY <1>1, <1>2, <1>3 DEF Memories!Dispatch, Status, Running

-----------------------------------------------------------------------------
(* Handlers that change no memory                                              *)

\* The timer and sys_yield give the processor to somebody ready.
LEMMA SwitchRefines ==
    ASSUME IInv, IInv', Timer \/ Yield
    PROVE  Memories!Switch
<1>1. /\ mode = "user" /\ schedule(p_state)
      /\ p_state' = p_state /\ pte' = pte /\ memory' = memory
  BY DEF Timer, Yield, mapvars
<1>2. Status' = Status /\ Space' = Space
  BY <1>1 DEF Status, StatusOf, Space, SpaceOf
<1>3. Running # 0 /\ current \in Runnable(p_state)
  BY <1>1, RunningFacts, UserMode DEF Runnable
<1>4. Running' \in Slots
  BY <1>1, <1>3 DEF schedule, run, Runnable, Running
<1>5. Memories!Dispatch
  BY <1>1, UserMode, ScheduleDispatches, Sizes DEF IInv
<1> QED BY <1>2, <1>3, <1>4, <1>5 DEF Memories!Switch, Status, Space, Running

\* A page fault stops the process that made it.
LEMMA FaultRefines ==
    ASSUME IInv, IInv', PageFault
    PROVE  Memories!Fault
<1>1. /\ mode = "user" /\ schedule(p_state') /\ pte' = pte /\ memory' = memory
      /\ p_state' = [p_state EXCEPT ![current] = P_BROKEN]
  BY DEF PageFault, mapvars
<1>2. /\ Running = current /\ Running # 0 /\ current \in Procs /\ current \in Slots
      /\ \A p \in Procs : p_state[p] # P_BLOCKED
  BY <1>1, RunningFacts, UserMode
<1>3. p_state \in [Procs -> {P_FREE, P_RUNNABLE, P_BLOCKED, P_BROKEN}]
  BY DEF IInv, TypeOK
<1>4. Status' = [Status EXCEPT ![Running] = "faulted"]
  BY <1>1, <1>2, <1>3, Sizes DEF Status, StatusOf, P_FREE, P_BROKEN
<1>5. Space' = Space
  BY <1>1 DEF Space, SpaceOf
<1>6. \A p \in Slots : p_state'[p] # P_BLOCKED
  BY <1>1, <1>2, <1>3, Sizes DEF P_BROKEN, P_BLOCKED
<1>7. Running' \in Slots \cup {0} /\ Memories!Dispatch
  BY <1>1, <1>6, ScheduleDispatches DEF IInv
<1> QED BY <1>2, <1>4, <1>5, <1>7 DEF Memories!Fault, Status, Space, Running

\* The kernel panics, or the power goes off: nobody runs any more.  A process
\* whose exit panics keeps its memory.
LEMMA StopRefines ==
    ASSUME IInv, SysPanic \/ PowerOff \/ ExitPanics
    PROVE  Memories!Stop
<1>1. pte' = pte /\ memory' = memory /\ mode' \in {"panic", "off"}
  BY DEF SysPanic, PowerOff, ExitPanics, mapvars
<1>2. Status' = Status
  <2>1. CASE ExitPanics
    <3>1. /\ p_state' = [p_state EXCEPT ![current] = P_BLOCKED]
          /\ p_state[current] = P_RUNNABLE /\ current \in Procs
      BY <2>1, UserMode DEF ExitPanics
    <3>2. p_state \in [Procs -> {P_FREE, P_RUNNABLE, P_BLOCKED, P_BROKEN}]
      BY DEF IInv, TypeOK
    <3> QED BY <3>1, <3>2, Sizes
            DEF Status, StatusOf, P_FREE, P_BROKEN, P_BLOCKED, P_RUNNABLE
  <2>2. CASE SysPanic \/ PowerOff
    BY <2>2 DEF SysPanic, PowerOff, procvars, Status, StatusOf
  <2> QED BY <2>1, <2>2
<1>3. Space' = Space /\ Running' = 0
  BY <1>1 DEF Space, SpaceOf, Running
<1> QED BY <1>2, <1>3 DEF Memories!Stop, Status, Space, Running

\* A call that only returns a number changes nothing that can be seen.
LEMMA ReturnRefines ==
    ASSUME \/ GetPid \/ ForkNoSlot \/ Halted \/ UNCHANGED vars
           \/ \E va \in UserPages : PageAllocFails(va)
    PROVE  UNCHANGED Memories!avars
<1>1. /\ p_state' = p_state /\ pte' = pte /\ memory' = memory
      /\ current' = current /\ mode' = mode
  BY DEF GetPid, ForkNoSlot, Halted, PageAllocFails, vars, procvars, mapvars
<1>2. Status' = Status /\ Space' = Space /\ Running' = Running
  BY <1>1 DEF Status, StatusOf, Space, SpaceOf, Running
<1> QED BY <1>2, Stutters

-----------------------------------------------------------------------------
(* Stores and new pages                                                        *)

\* A store is seen by the process that makes it only: no other entry leads to a
\* page that an entry can write.
LEMMA WriteRefines ==
    ASSUME IInv, NEW va \in UserPages, NEW v \in Value, UserWrite(va, v)
    PROVE  Memories!Write(va, v)
<1> DEFINE f == pte[current][va].pa
<1>1. /\ mode = "user" /\ pte[current][va].perm = "rw"
      /\ memory' = [memory EXCEPT ![f] = v]
      /\ p_state' = p_state /\ pte' = pte /\ current' = current /\ mode' = mode
  BY DEF UserWrite, UserWritable, procvars, mapvars
<1>2. /\ Running = current /\ Running # 0 /\ current \in Slots /\ current \in Procs
      /\ Accounting
  BY <1>1, RunningFacts, UserMode
<1>3. f \in Pages /\ memory \in [Pages -> Value]
  BY <1>1, <1>2, MappedOwned DEF IInv, TypeOK
<1>4. ASSUME NEW q \in Slots, NEW vb \in UserPages, pte[q][vb].perm # "none",
             q # current \/ vb # va
      PROVE  memory'[pte[q][vb].pa] = memory[pte[q][vb].pa]
  <2>1. q \in Procs
    BY Sizes
  <2>2. pte[q][vb].pa # f
    BY <1>1, <1>2, <1>4, <2>1 DEF Accounting, PrivateInv
  <2>3. pte[q][vb].pa \in Pages
    BY <1>2, <1>4, <2>1, MappedOwned
  <2> QED BY <1>1, <1>3, <2>2, <2>3
<1>5. ASSUME NEW q \in Slots, q # current
      PROVE  SpaceOf(q)' = SpaceOf(q)
  BY <1>1, <1>4, <1>5, SameSpace
<1>6. SpaceOf(current)' = [SpaceOf(current) EXCEPT ![va].val = v]
  <2>1. memory'[f] = v
    BY <1>1, <1>3
  <2>2. \A vb \in UserPages :
            vb # va /\ pte[current][vb].perm # "none" =>
                memory'[pte[current][vb].pa] = memory[pte[current][vb].pa]
    BY <1>2, <1>4
  <2> HIDE DEF f
  <2>3. pte[current][va].pa = f
    BY DEF f
  <2> QED BY <1>1, <2>1, <2>2, <2>3 DEF SpaceOf
<1>7. Space' = [Space EXCEPT ![Running] = [@ EXCEPT ![va].val = v]]
  BY <1>1, <1>2, <1>5, <1>6 DEF Space
<1>8. Status' = Status /\ Running' = Running
  BY <1>1 DEF Status, StatusOf, Running
<1>9. Space[Running][va].perm = "rw"
  BY <1>1, <1>2 DEF Space, SpaceOf
<1> QED BY <1>2, <1>7, <1>8, <1>9 DEF Memories!Write, Status, Space, Running

\* sys_page_alloc adds a page with whatever is in it.
LEMMA GrowRefines ==
    ASSUME IInv, NEW va \in UserPages, PageAlloc(va)
    PROVE  \E v \in Value : Memories!Grow(va, v)
<1> DEFINE f == freeAddress(0)  v == memory[f]
<1>1. /\ mode = "user" /\ va \in HeapTop(current) /\ m_alloc_ok(0)
      /\ pte' = [pte EXCEPT ![current] = [@ EXCEPT ![va] = Writable(f)]]
      /\ p_state' = p_state /\ memory' = memory /\ current' = current /\ mode' = mode
  BY DEF PageAlloc, virtual_memory_map
<1>2. Running = current /\ Running # 0 /\ current \in Slots /\ current \in Procs
  BY <1>1, RunningFacts
<1>3. v \in Value
  BY <1>1, AllocFacts DEF IInv, TypeOK
<1>4. pte \in [Procs -> [UserPages -> Entry]]
  BY DEF IInv, TypeOK
<1>5. pte[current][va] = Unmapped
  BY <1>1 DEF HeapTop
<1>6. /\ \A q \in Slots \ {current} : pte'[q] = pte[q]
      /\ pte'[current][va] = Writable(f)
      /\ \A vb \in UserPages \ {va} : pte'[current][vb] = pte[current][vb]
  BY <1>1, <1>2, <1>4, Sizes
<1>7. \A q \in Slots : q # current => SpaceOf(q)' = SpaceOf(q)
  BY <1>1, <1>6, SameSpace
<1>8. SpaceOf(current)' = [SpaceOf(current) EXCEPT ![va] = [perm |-> "rw", val |-> v]]
  <2>1. pte'[current][va].perm = "rw" /\ pte'[current][va].pa = f
    BY <1>6 DEF Writable
  <2> QED BY <1>1, <1>6, <2>1 DEF SpaceOf
<1> HIDE DEF f, v
<1>9. Space' = [Space EXCEPT ![Running] =
                   [@ EXCEPT ![va] = [perm |-> "rw", val |-> v]]]
  BY <1>1, <1>2, <1>7, <1>8 DEF Space
<1>10. Space[Running][va] = Memories!Absent
  BY <1>2, <1>5 DEF Space, SpaceOf, Unmapped, Memories!Absent
<1>11. Status' = Status /\ Running' = Running
  BY <1>1 DEF Status, StatusOf, Running
<1>12. Memories!Grow(va, v)
  BY <1>2, <1>9, <1>10, <1>11 DEF Memories!Grow, Status, Space, Running
<1> QED BY <1>3, <1>12

-----------------------------------------------------------------------------
(* Fork and exit                                                               *)

\* Copies go to free pages: every page that is mapped keeps its contents.
LEMMA CopyKeepsMapped ==
    ASSUME IInv, copy_pagedir_ok, NEW top, CopyMemory(top),
           \A va \in CopiedBelow(top) : m_alloc_ok(CopyIndex(va)),
           NEW f \in Pages, owner[f] > 0
    PROVE  memory'[f] = memory[f]
<1>1. \A va \in CopiedBelow(top) : va \in UserWritable(current)
  BY DEF CopiedBelow
<1>2. \A va \in CopiedBelow(top) : Copy(va) # f
  BY <1>1, CopyFacts DEF PO_FREE
<1> QED BY <1>2 DEF CopyMemory

\* A fork that finds no memory changes the contents of free pages only.
LEMMA FailedForkRefines ==
    ASSUME IInv, NEW s \in Slots,
           ForkNoDirectory(s) \/ \E va \in UserPages : ForkNoMemory(s, va)
    PROVE  UNCHANGED Memories!avars
<1>1. /\ mode = "user" /\ p_state' = p_state /\ pte' = pte
      /\ current' = current /\ mode' = mode
  BY DEF ForkNoDirectory, ForkNoMemory, ForkReleased, ForkBounded, mapvars
<1>2. Accounting
  BY <1>1, UserMode
<1>3. ASSUME NEW f \in Pages, owner[f] > 0
      PROVE  memory'[f] = memory[f]
  <2>1. CASE ForkNoDirectory(s)
    BY <2>1 DEF ForkNoDirectory
  <2>2. ASSUME NEW va \in UserPages, ForkNoMemory(s, va)
        PROVE  memory'[f] = memory[f]
    BY <1>3, <2>2, CopyKeepsMapped DEF ForkNoMemory
  <2> QED BY <2>1, <2>2
<1>4. \A q \in Slots : SpaceOf(q)' = SpaceOf(q)
  <2> TAKE q \in Slots
  <2>1. \A va \in UserPages :
            pte[q][va].perm # "none" => memory'[pte[q][va].pa] = memory[pte[q][va].pa]
    BY <1>2, <1>3, MappedOwned, Sizes
  <2> QED BY <1>1, <2>1, SameSpace
<1>5. Status' = Status /\ Space' = Space /\ Running' = Running
  BY <1>1, <1>4 DEF Status, StatusOf, Space, Running
<1> QED BY <1>5, Stutters

\* What the child sees is what the father sees: the same read-only pages, and
\* writable pages with the same contents.
LEMMA ChildSpace ==
    ASSUME IInv, NEW s \in Slots, Fork(s)
    PROVE  SpaceOf(s)' = SpaceOf(current)
<1> DEFINE W == UserWritable(current)
<1>1. /\ mode = "user" /\ FreeSlot(s) /\ copy_pagedir_ok
      /\ \A va \in W : m_alloc_ok(CopyIndex(va))
      /\ pte' = [pte EXCEPT ![s] =
                    [va \in UserPages |-> IF va \in W THEN Writable(Copy(va))
                                          ELSE pte[current][va]]]
      /\ CopyMemory(VIRT_END)
  BY DEF Fork, ForkBounded
<1>2. current \in Procs /\ s \in Procs /\ Accounting
  BY <1>1, UserMode, Sizes
<1>3. \A va \in UserPages :
          pte'[s][va] = IF va \in W THEN Writable(Copy(va)) ELSE pte[current][va]
  BY <1>1, <1>2 DEF IInv, TypeOK
<1>4. CopiedBelow(VIRT_END) = W
  BY Sizes DEF CopiedBelow, UserWritable, UserPages
<1>5. ASSUME NEW va \in W
      PROVE  memory'[Copy(va)] = memory[pte[current][va].pa]
  <2>1. Copy(va) \in Pages
    BY <1>1, CopyFacts
  <2>2. Source(Copy(va)) \in W /\ Copy(Source(Copy(va))) = Copy(va)
    BY DEF Source
  <2>3. Source(Copy(va)) = va
    BY <1>1, <2>2, CopyInjective
  <2> QED BY <1>1, <1>4, <2>1, <2>3 DEF CopyMemory
<1>6. ASSUME NEW va \in UserPages, va \notin W, pte[current][va].perm # "none"
      PROVE  memory'[pte[current][va].pa] = memory[pte[current][va].pa]
  BY <1>1, <1>2, <1>4, <1>6, MappedOwned, CopyKeepsMapped
<1>7. \A va \in UserPages : va \in W <=> pte[current][va].perm = "rw"
  BY DEF UserWritable
<1> DEFINE old(va) == IF pte[current][va].perm = "none"
                      THEN [perm |-> "none", val |-> "none"]
                      ELSE [perm |-> pte[current][va].perm,
                            val |-> memory[pte[current][va].pa]]
           new(va) == IF pte'[s][va].perm = "none"
                      THEN [perm |-> "none", val |-> "none"]
                      ELSE [perm |-> pte'[s][va].perm,
                            val |-> memory'[pte'[s][va].pa]]
<1>8. ASSUME NEW va \in UserPages
      PROVE  new(va) = old(va)
  <2>1. CASE va \in W
    <3>1. pte'[s][va].perm = "rw" /\ pte'[s][va].pa = Copy(va)
      <4>1. pte'[s][va] = Writable(Copy(va))
        BY <1>3, <2>1
      <4> QED BY <4>1 DEF Writable
    <3>2. pte[current][va].perm = "rw"
      BY <1>7, <2>1
    <3> QED BY <1>5, <2>1, <3>1, <3>2
  <2>2. CASE va \notin W
    BY <1>3, <1>6, <2>2
  <2> QED BY <2>1, <2>2
<1>9. SpaceOf(current) = [va \in UserPages |-> old(va)]
  BY DEF SpaceOf
<1>10. SpaceOf(s)' = [va \in UserPages |-> new(va)]
  BY DEF SpaceOf
<1> HIDE DEF old, new
<1> QED BY <1>8, <1>9, <1>10

\* sys_fork copies the father's memory and leaves everybody else's alone.
LEMMA ForkRefines ==
    ASSUME IInv, NEW s \in Slots, Fork(s)
    PROVE  Memories!ForkInto(s)
<1>1. /\ mode = "user" /\ FreeSlot(s) /\ copy_pagedir_ok /\ CopyMemory(VIRT_END)
      /\ \A va \in UserWritable(current) : m_alloc_ok(CopyIndex(va))
      /\ p_state' = [p_state EXCEPT ![s] = P_RUNNABLE]
      /\ \A q \in Procs : q # s => pte'[q] = pte[q]
      /\ current' = current /\ mode' = mode
  BY DEF Fork, ForkBounded, IInv, TypeOK
<1>2. /\ Running = current /\ Running # 0 /\ current \in Slots /\ Accounting
      /\ s \in Procs /\ p_state[s] = P_FREE
  BY <1>1, RunningFacts, UserMode, ForkSlot
<1>3. \A va \in CopiedBelow(VIRT_END) : m_alloc_ok(CopyIndex(va))
  BY <1>1 DEF CopiedBelow
<1>4. ASSUME NEW q \in Slots, q # s
      PROVE  SpaceOf(q)' = SpaceOf(q)
  <2>1. q \in Procs /\ pte'[q] = pte[q]
    BY <1>1, <1>4, Sizes
  <2>2. \A va \in UserPages :
            pte[q][va].perm # "none" => memory'[pte[q][va].pa] = memory[pte[q][va].pa]
    BY <1>1, <1>2, <1>3, <2>1, MappedOwned, CopyKeepsMapped
  <2> QED BY <2>1, <2>2, SameSpace
<1>5. Space' = [Space EXCEPT ![s] = Space[Running]]
  BY <1>2, <1>4, ChildSpace DEF Space
<1>6. Status' = [Status EXCEPT ![s] = "ready"] /\ Status[s] = "free"
  BY <1>1, <1>2, Sizes DEF Status, StatusOf, IInv, TypeOK, P_FREE, P_BROKEN, P_RUNNABLE
<1>7. Running' = Running
  BY <1>1 DEF Running
<1> QED BY <1>2, <1>5, <1>6, <1>7 DEF Memories!ForkInto, Status, Space, Running

\* sys_exit takes the memory of the process that calls it and of nobody else.
LEMMA LeaveRefines ==
    ASSUME IInv, IInv', Exit
    PROVE  Memories!Leave
<1>1. /\ mode = "user" /\ schedule(p_state') /\ memory' = memory
      /\ p_state' = [p_state EXCEPT ![current] = P_FREE]
      /\ pte' = [pte EXCEPT ![current] = NoPte]
  BY DEF Exit
<1>2. /\ Running = current /\ Running # 0 /\ current \in Procs /\ current \in Slots
      /\ \A p \in Procs : p_state[p] # P_BLOCKED
  BY <1>1, RunningFacts, UserMode
<1>3. /\ p_state \in [Procs -> {P_FREE, P_RUNNABLE, P_BLOCKED, P_BROKEN}]
      /\ pte \in [Procs -> [UserPages -> Entry]]
  BY DEF IInv, TypeOK
<1>4. Status' = [Status EXCEPT ![Running] = "free"]
  BY <1>1, <1>2, <1>3, Sizes DEF Status, StatusOf
<1>5. /\ pte'[current] = NoPte
      /\ \A q \in Slots : q # current => pte'[q] = pte[q]
  BY <1>1, <1>2, <1>3, Sizes
<1> DEFINE none == [va \in UserPages |-> [perm |-> "none", val |-> "none"]]
<1>6. [va \in UserPages |->
          IF pte'[current][va].perm = "none" THEN [perm |-> "none", val |-> "none"]
          ELSE [perm |-> pte'[current][va].perm,
                val |-> memory'[pte'[current][va].pa]]] = none
  BY <1>5 DEF NoPte, Unmapped
<1>7. \A q \in Slots : q # current => SpaceOf(q)' = SpaceOf(q)
  BY <1>1, <1>5, SameSpace
<1>8. Space' = [Space EXCEPT ![Running] = none]
  <2>1. \A q \in Slots : q = current => SpaceOf(q)' = none
    BY <1>6 DEF SpaceOf
  <2> HIDE DEF none
  <2> QED BY <1>2, <1>7, <2>1 DEF Space
<1>11. none = Memories!Empty
  BY DEF Memories!Empty, Memories!Absent
<1>9. \A p \in Slots : p_state'[p] # P_BLOCKED
  BY <1>1, <1>2, <1>3, Sizes DEF P_FREE, P_BLOCKED
<1>10. Running' \in Slots \cup {0} /\ Memories!Dispatch
  BY <1>1, <1>9, ScheduleDispatches DEF IInv
<1> HIDE DEF none
<1> QED BY <1>2, <1>4, <1>8, <1>10, <1>11 DEF Memories!Leave, Status, Space, Running

-----------------------------------------------------------------------------
(* Booting                                                                     *)

\* The memories that the processes of a boot command can begin with.
FirstSpaces(c) ==
    {[i \in BootPids(c) |-> BootSpace(c, i, junk)] : junk \in [BootPids(c) -> Value]}

\* What the refinement needs to know of a machine just booted: the stack pages
\* hold anything.
BootedWith(c) ==
    /\ p_state = BootState(c)
    /\ pte = [p \in Procs |-> IF p \in BootPids(c) THEN BootPte(c, p) ELSE NoPte]
    /\ memory \in [Pages -> Value]
    /\ \A i \in BootPids(c) : \A f \in ImagePages(c, i) : memory[f] = Blank
    /\ current = 1
    /\ mode = "user"

LEMMA BootStarted ==
    ASSUME NEW c \in BootCommands
    PROVE  BootedWith(c) =>
              \E spaces \in FirstSpaces(c) : Memories!Started(spaces)
<1> SUFFICES ASSUME BootedWith(c)
             PROVE  \E spaces \in FirstSpaces(c) : Memories!Started(spaces)
  OBVIOUS
<1> DEFINE n == Len(Image[c])
           junk == [i \in BootPids(c) |-> memory[BootStack(i)]]
           spaces == [i \in BootPids(c) |-> BootSpace(c, i, junk)]
<1>1. junk \in [BootPids(c) -> Value]
  BY BootPageFacts, LowFacts DEF BootedWith
<1>2. spaces \in FirstSpaces(c)
  BY <1>1 DEF FirstSpaces
<1>3. n \in Nat /\ BootPids(c) = 1..n /\ Len(spaces) = n
  <2>1. n \in Nat /\ BootPids(c) = 1..n
    BY LayoutAssumption DEF BootPids
  <2>2. DOMAIN spaces = 1..n
    BY <2>1
  <2> HIDE DEF spaces, n
  <2> QED BY <2>1, <2>2
<1>4. \A p \in Slots : p \in BootPids(c) <=> p <= Len(spaces)
  BY <1>3 DEF Slots
<1>5. ASSUME NEW p \in Slots
      PROVE  Status[p] = IF p <= Len(spaces) THEN "ready" ELSE "free"
  BY <1>4, Sizes DEF BootedWith, BootState, Status, StatusOf, P_FREE, P_RUNNABLE, P_BROKEN
<1>6. ASSUME NEW p \in BootPids(c), NEW va \in UserPages
      PROVE  SpaceOf(p)[va] = BootSpace(c, p, junk)[va]
  <2>1. pte[p][va] = BootPte(c, p)[va]
    BY BootPageFacts DEF BootedWith
  <2>2. va \in Image[c][p].text \cup Image[c][p].data => memory[va] = Blank
    BY DEF BootedWith, ImagePages
  <2>3. junk[p] = memory[BootStack(p)]
    OBVIOUS
  <2> HIDE DEF junk
  <2> QED BY <2>1, <2>2, <2>3
          DEF SpaceOf, BootSpace, BootPte, Writable, ReadOnly, Unmapped
<1>7. ASSUME NEW p \in BootPids(c)
      PROVE  SpaceOf(p) = spaces[p]
  <2> HIDE DEF junk
  <2>1. spaces[p] = BootSpace(c, p, junk)
    OBVIOUS
  <2>2. /\ DOMAIN SpaceOf(p) = UserPages /\ DOMAIN BootSpace(c, p, junk) = UserPages
        /\ SpaceOf(p) = [va \in UserPages |-> SpaceOf(p)[va]]
        /\ BootSpace(c, p, junk) = [va \in UserPages |-> BootSpace(c, p, junk)[va]]
    BY DEF SpaceOf, BootSpace
  <2> QED BY <1>6, <2>1, <2>2
<1>8. ASSUME NEW p \in Slots, p \notin BootPids(c)
      PROVE  SpaceOf(p) = Memories!Empty
  <2>1. pte[p] = NoPte
    BY <1>8, Sizes DEF BootedWith
  <2> QED BY <2>1 DEF SpaceOf, NoPte, Unmapped, Memories!Empty, Memories!Absent
<1> HIDE DEF spaces
<1>9. Space = [p \in Slots |-> IF p <= Len(spaces) THEN spaces[p] ELSE Memories!Empty]
  BY <1>4, <1>7, <1>8 DEF Space
<1>10. Status = [p \in Slots |-> IF p <= Len(spaces) THEN "ready" ELSE "free"]
  BY <1>5 DEF Status
<1>11. Running = 1
  BY DEF BootedWith, Running
<1>12. Memories!Started(spaces)
  BY <1>9, <1>10, <1>11 DEF Memories!Started, Status, Space, Running
<1> QED BY <1>2, <1>12

JustStarted == \E c \in BootCommands : BootedWith(c)
FreshSpaces == \E c \in BootCommands : \E spaces \in FirstSpaces(c) : Memories!Started(spaces)

\* In any state just booted the processes have the memories of a boot command.
LEMMA FreshStart == JustStarted => FreshSpaces
  BY BootStarted DEF JustStarted, FreshSpaces

\* The machine starts with the memories of a boot command.
LEMMA InitRefines == Init => Memories!AInit
<1> SUFFICES ASSUME NEW c \in BootCommands, InitWith(c) PROVE Memories!AInit
  BY DEF Init
<1>1. BootedWith(c)
  BY ImageFacts, Sizes DEF InitWith, BootedWith
<1>2. \E spaces \in FirstSpaces(c) : Memories!Started(spaces)
  BY <1>1, BootStarted
<1> QED BY <1>2 DEF Memories!AInit, FirstSpaces

\* The keyboard starts it again, whatever was in memory.
LEMMA RebootRefines ==
    ASSUME IInv, NEW c \in RebootCommands, SoftReboot(c)
    PROVE  \E d \in BootCommands : Memories!Restart(d)
<1>1. c \in BootCommands
  BY LayoutAssumption
<1>2. memory' \in [Pages -> Value]
  BY Sizes DEF SoftReboot, IInv, TypeOK
<1>3. \A i \in BootPids(c) : \A f \in ImagePages(c, i) : memory'[f] = Blank
  BY <1>1, ImageFacts DEF SoftReboot
<1>4. BootedWith(c)'
  BY <1>2, <1>3 DEF SoftReboot, BootedWith
<1>5. JustStarted'
  BY <1>1, <1>4 DEF JustStarted
<1>6. (JustStarted => FreshSpaces)'
  BY FreshStart, PTL
<1>7. PICK d \in BootCommands : \E spaces \in FirstSpaces(d) : Memories!Started(spaces)'
  BY <1>5, <1>6 DEF FreshSpaces
<1> QED BY <1>7 DEF Memories!Restart, FirstSpaces

-----------------------------------------------------------------------------
(* The theorem                                                                 *)

LEMMA NextRefines ==
    ASSUME IInv, IInv', [Next]_vars
    PROVE  [Memories!ANext]_(Memories!avars)
<1>1. CASE Timer \/ Yield
  BY <1>1, SwitchRefines DEF Memories!ANext
<1>2. CASE PageFault
  BY <1>2, FaultRefines DEF Memories!ANext
<1>3. CASE SysPanic \/ PowerOff \/ ExitPanics
  BY <1>3, StopRefines DEF Memories!ANext
<1>4. CASE \/ GetPid \/ ForkNoSlot \/ Halted \/ UNCHANGED vars
           \/ \E va \in UserPages : PageAllocFails(va)
  BY <1>4, ReturnRefines
<1>5. ASSUME NEW va \in UserPages, NEW v \in Value, UserWrite(va, v)
      PROVE  Memories!ANext
  BY <1>5, WriteRefines DEF Memories!ANext
<1>6. ASSUME NEW va \in UserPages, PageAlloc(va)
      PROVE  Memories!ANext
  BY <1>6, GrowRefines DEF Memories!ANext
<1>7. ASSUME NEW s \in Slots, Fork(s)
      PROVE  Memories!ANext
  BY <1>7, ForkRefines DEF Memories!ANext
<1>8. ASSUME NEW s \in Slots,
             ForkNoDirectory(s) \/ \E va \in UserPages : ForkNoMemory(s, va)
      PROVE  UNCHANGED Memories!avars
  BY <1>8, FailedForkRefines
<1>9. CASE Exit
  BY <1>9, LeaveRefines DEF Memories!ANext
<1>10. ASSUME NEW c \in RebootCommands, SoftReboot(c)
       PROVE  Memories!ANext
  <2>1. PICK d \in BootCommands : Memories!Restart(d)
    BY <1>10, RebootRefines
  <2> QED BY <2>1 DEF Memories!ANext
<1> QED
  BY <1>1, <1>2, <1>3, <1>4, <1>5, <1>6, <1>7, <1>8, <1>9, <1>10 DEF Next

\* For every number of processes and pages and every boot image the programs
\* cannot tell the kernel from private memories: stores, forks, exits, faults,
\* failed calls and soft reboots show no trace of pages that are shared, copied,
\* handed on or used again.
THEOREM KernelImplementsAddressSpaces ==
    ASSUME SingleRoot, NoWrap
    PROVE  Spec => ImplementsAddressSpaces
<1>1. Init => Memories!AInit
  BY InitRefines
<1>2. IInv /\ IInv' /\ [Next]_vars => [Memories!ANext]_(Memories!avars)
  BY NextRefines
<1> QED BY <1>1, <1>2, KernelInvariant, PTL
        DEF Spec, ImplementsAddressSpaces, Memories!ASpec
=============================================================================
