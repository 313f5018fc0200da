---------------------------------- MODULE M61 ----------------------------------
(* The debugging allocator m61.c and a program that uses it, rightly or        *)
(* wrongly.  A block is named by its address; what the program keeps in it is  *)
(* not modelled, and neither is the wording of what is printed.                *)
EXTENDS HeavyHitters

CONSTANTS
    Address,            \* where malloc(3) puts blocks
    NULL,
    OUTSIDE,            \* a pointer that is not into the heap
    ASTRAY,             \* a pointer into the heap, with no metadata before it
    SIZE_MAX,           \* the largest size_t
    OVERHEAD,           \* sizeof(metadata) + sizeof(backpack)
    Workloads           \* what a program does at most: [addresses, sites, sizes,
                        \* members, calls, misuses]
ASSUME SizeAssumption == /\ SIZE_MAX \in Nat /\ OVERHEAD \in Nat
                         /\ OVERHEAD <= SIZE_MAX
ASSUME PointerAssumption ==
    IsFiniteSet(Address) /\ Address \cap {NULL, OUTSIDE, ASTRAY} = {}
                         /\ NULL \notin {OUTSIDE, ASTRAY} /\ OUTSIDE # ASTRAY
ASSUME WorkAssumption ==
    \A w \in Workloads : w.addresses \subseteq Address /\ w.sites \subseteq Site
                         /\ w.sizes \subseteq 0..SIZE_MAX /\ w.members \subseteq Nat
                         /\ w.calls \in Nat /\ w.misuses \in BOOLEAN

VARIABLES
    heap,           \* the blocks, lastAlloc and the statistics
    report,         \* what m61_free found wrong in the last step
    life,           \* "running", or "crashed"
    calls,          \* how many blocks were asked for
    work            \* the workload

trackerVars == <<szTracker, freqTracker, allocated>>
vars == <<heap, report, life, calls, work, szTracker, freqTracker, allocated>>

\* The metadata and the backpack of a block.  state, want and hit are history:
\* whose the memory is, how many bytes were asked for, which guards the program
\* has overwritten.
Unused == [state |-> "unused", prv |-> NULL, next |-> NULL, sz |-> 0,
           previously_freed |-> FALSE, self |-> FALSE, backpack |-> FALSE,
           born |-> 0, want |-> 0, hit |-> {}]

Init ==
    /\ heap = [mem |-> [a \in Address |-> Unused], lastAlloc |-> NULL,
               active_count |-> 0, active_size |-> 0,
               total_count |-> 0, total_size |-> 0,
               fail_count |-> 0, fail_size |-> 0]
    /\ report = "none" /\ life = "running" /\ calls = 0
    /\ work \in Workloads
    /\ TrackersInit

ActiveIn(h) == {a \in Address : h.mem[a].state = "active"}
maximumSizeValid == SIZE_MAX - OVERHEAD
-----------------------------------------------------------------------------
allocationFailedWithSize(h, sz) ==
    [h EXCEPT !.fail_count = @ + 1, !.fail_size = @ + sz]

\* malloc(3) gave the room at a: the new block is the last of the list.
NewBlock(h, sz, want) ==
    [state |-> "active", prv |-> h.lastAlloc, next |-> NULL, sz |-> sz,
     previously_freed |-> FALSE, self |-> TRUE, backpack |-> TRUE,
     born |-> h.total_count + 1, want |-> want, hit |-> {}]
Joined(h, a) ==
    IF h.lastAlloc = NULL THEN h.mem ELSE [h.mem EXCEPT ![h.lastAlloc].next = a]
\* Mistake: the metadata is not cleared, so a reused block counts as freed.
KeepsFreedMark(h, a, sz, want) ==
    [h EXCEPT !.mem = [Joined(h, a) EXCEPT
                          ![a] = [NewBlock(h, sz, want) EXCEPT
                                    !.previously_freed = h.mem[a].previously_freed]],
              !.lastAlloc = a,
              !.total_count = @ + 1, !.active_count = @ + 1,
              !.total_size = @ + sz, !.active_size = @ + sz]

Allocated(h, a, sz, want) ==
    [h EXCEPT !.mem = [Joined(h, a) EXCEPT ![a] = NewBlock(h, sz, want)],
              !.lastAlloc = a,
              !.total_count = @ + 1, !.active_count = @ + 1,
              !.total_size = @ + sz, !.active_size = @ + sz]

\* What m61_malloc may return: malloc(3) may find no room at any time.
Rooms(sz) ==
    {NULL} \cup IF sz > maximumSizeValid THEN {}
                ELSE {a \in work.addresses : heap.mem[a].state # "active"}
AfterMalloc(r, sz, want) ==
    IF r = NULL THEN allocationFailedWithSize(heap, sz)
    ELSE Allocated(heap, r, sz, want)
\* Mistake: the heavy hitters are updated before malloc(3) is tried.
TrackedFirst(r, sz, s) == trackAllocByHH(sz, s)

Tracked(r, sz, s) ==
    IF r = NULL THEN UNCHANGED trackerVars ELSE trackAllocByHH(sz, s)
-----------------------------------------------------------------------------
\* What m61_free finds wrong with p.  Where no block is, what is in the memory
\* before p decides; neither guard can be right there.
Diagnoses(h, p) ==
    IF p = NULL THEN {"none"}
    ELSE IF p = OUTSIDE THEN {"not in heap"}
    ELSE IF p = ASTRAY THEN {"double free", "not allocated"}
    ELSE IF h.mem[p].previously_freed THEN {"double free"}
    ELSE IF h.mem[p].self /\ h.mem[p].backpack THEN {"none"}
    ELSE IF h.mem[p].self \/ h.mem[p].backpack THEN {"wild write"}
    ELSE {"not allocated"}

\* The block leaves the list, unless its neighbour denies it is in it.
Disowned(h, a) ==
    h.mem[a].prv # NULL /\ h.mem[h.mem[a].prv].next # a
\* Mistake: the block after a still names a as the one before it.
UnlinkedForwards(h, a) ==
    IF Disowned(h, a) THEN h.mem
    ELSE [b \in Address |->
            [h.mem[b] EXCEPT !.next = IF b = h.mem[a].prv THEN h.mem[a].next ELSE @]]

Unlinked(h, a) ==
    IF Disowned(h, a) THEN h.mem
    ELSE [b \in Address |->
            [h.mem[b] EXCEPT
                !.next = IF b = h.mem[a].prv THEN h.mem[a].next ELSE @,
                !.prv = IF b = h.mem[a].next THEN h.mem[a].prv ELSE @]]

\* Mistake: lastAlloc moves back whichever block is freed.
LastBefore(h, a) == h.mem[a].prv

LastAfter(h, a) == IF h.mem[a].next = NULL THEN h.mem[a].prv ELSE h.lastAlloc
\* Mistake: nothing tells a freed block from one in use.
Unmarked(block) == [block EXCEPT !.state = "freed"]

Invalid(block) ==
    [block EXCEPT !.state = "freed", !.self = FALSE, !.backpack = FALSE,
                  !.previously_freed = TRUE]

Freed(h, a) ==
    [h EXCEPT !.mem = [Unlinked(h, a) EXCEPT ![a] = Invalid(@)],
              !.lastAlloc = LastAfter(h, a),
              !.active_count = @ - 1,
              !.active_size = @ - h.mem[a].sz]
\* Mistake: a double free is reported, and then done.
WarnedFree(h, p) ==
    IF p \in Address /\ Diagnoses(h, p) \cap {"none", "wild write", "double free"} # {}
    THEN Freed(h, p) ELSE h

AfterFree(h, p) ==
    IF p \in Address /\ Diagnoses(h, p) \cap {"none", "wild write"} # {}
    THEN Freed(h, p) ELSE h
-----------------------------------------------------------------------------
Running == life = "running" /\ UNCHANGED <<life, work>>
Asked == Running /\ calls < work.calls /\ calls' = calls + 1

m61_malloc(sz, s) ==
    /\ Asked
    /\ \E r \in Rooms(sz) : heap' = AfterMalloc(r, sz, sz) /\ Tracked(r, sz, s)
    /\ report' = "none"

\* Mistake: each factor is tested, not the product.
TooLargeEach(nmemb, sz) == sz > maximumSizeValid \/ nmemb > maximumSizeValid

\* The quotient avoids an overflow of the product.
TooLarge(nmemb, sz) == sz > maximumSizeValid \div nmemb
m61_calloc(nmemb, sz, s) ==
    /\ Asked
    /\ nmemb > 0
    /\ IF TooLarge(nmemb, sz)
       THEN heap' = allocationFailedWithSize(heap, sz) /\ UNCHANGED trackerVars
       ELSE LET product == (sz * nmemb) % (SIZE_MAX + 1)
            IN \E r \in Rooms(product) :
                  /\ heap' = AfterMalloc(r, product, sz * nmemb)
                  /\ Tracked(r, product, s)
    /\ report' = "none"

m61_free(p) ==
    /\ Running
    /\ report' \in Diagnoses(heap, p)
    /\ heap' = AfterFree(heap, p)
    /\ UNCHANGED <<calls, trackerVars>>

\* Allocates, then frees the old block, even when there is no new one.
\* With sz = 0 it is m61_free(p).
m61_realloc(p, sz, s) ==
    /\ Asked
    /\ sz > 0
    /\ \E r \in Rooms(sz) :
          LET h == AfterMalloc(r, sz, sz)
          IN heap' = AfterFree(h, p) /\ Tracked(r, sz, s)
             /\ report' \in Diagnoses(h, p)

\* No bounds are checked in the program: it may write a word too far.
WriteOver(a) ==
    /\ Running /\ work.misuses /\ heap.mem[a].state = "active"
    /\ heap' = [heap EXCEPT !.mem[a].backpack = FALSE, !.mem[a].hit = @ \cup {"over"}]
    /\ report' = "none"
    /\ UNCHANGED <<calls, trackerVars>>
WriteUnder(a) ==
    /\ Running /\ work.misuses /\ heap.mem[a].state = "active"
    /\ heap' = [heap EXCEPT !.mem[a].self = FALSE, !.mem[a].hit = @ \cup {"under"}]
    /\ report' = "none"
    /\ UNCHANGED <<calls, trackerVars>>

\* malloc(3) gives the memory of a freed block to something else.
Recycle(a) ==
    /\ Running /\ heap.mem[a].state = "freed"
    /\ \E flag \in BOOLEAN :
          heap' = [heap EXCEPT !.mem[a] = [Unused EXCEPT !.previously_freed = flag]]
    /\ report' = "none"
    /\ UNCHANGED <<calls, trackerVars>>

HeavyHitterReport ==
    /\ Running
    /\ printHeavyHitterReport
    /\ report' = "none"
    /\ UNCHANGED <<heap, calls>>

\* A division by zero, and a report on arrays that are not there yet.
Crash ==
    /\ life = "running" /\ work.misuses
    /\ 0 \in work.members \/ szTracker = <<>>
    /\ life' = "crashed"
    /\ UNCHANGED <<heap, report, calls, work, trackerVars>>

\* A program that makes no mistakes frees only what it owns.
MayFree(p) ==
    \/ work.misuses
    \/ p = NULL
    \/ p \in Address /\ heap.mem[p].state = "active"

Next ==
    \/ \E sz \in work.sizes, s \in work.sites :
          \/ m61_malloc(sz, s)
          \/ \E nmemb \in work.members : m61_calloc(nmemb, sz, s)
          \/ \E p \in work.addresses \cup {NULL} : MayFree(p) /\ m61_realloc(p, sz, s)
    \/ \E p \in work.addresses \cup {NULL, OUTSIDE, ASTRAY} : MayFree(p) /\ m61_free(p)
    \/ \E a \in work.addresses : WriteOver(a) \/ WriteUnder(a) \/ Recycle(a)
    \/ HeavyHitterReport
    \/ Crash

Spec == Init /\ [][Next]_vars
-----------------------------------------------------------------------------
\* The blocks m61_printleakreport prints, from lastAlloc back.
LeakReport ==
    LET traverse[n \in 0..Cardinality(Address)] ==
            IF n = 0 THEN heap.lastAlloc
            ELSE IF traverse[n - 1] = NULL THEN NULL
            ELSE heap.mem[traverse[n - 1]].prv
    IN traverse
=============================================================================
