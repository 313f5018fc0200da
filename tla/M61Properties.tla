---------------------------- MODULE M61Properties ----------------------------
(* What a program that uses m61.c may rely on, whatever mistakes it makes.     *)
EXTENDS M61, FiniteSetsExt

Active == ActiveIn(heap)

BlockType ==
    [state : {"unused", "active", "freed"}, prv : Address \cup {NULL},
     next : Address \cup {NULL}, sz : 0..SIZE_MAX, previously_freed : BOOLEAN,
     self : BOOLEAN, backpack : BOOLEAN, born : Nat, want : Nat,
     hit : SUBSET {"over", "under"}]
HeapType ==
    [mem : [Address -> BlockType], lastAlloc : Address \cup {NULL},
     active_count : Nat, active_size : Int, total_count : Nat, total_size : Nat,
     fail_count : Nat, fail_size : Nat]
TrackerType == [Entry -> [counter : Nat, site : Site \cup {NoSite}]]
Report == {"none", "not in heap", "double free", "not allocated", "wild write"}

\* The types of the allocator's state; active_count and the counters of the
\* heavy hitters, which are unsigned, never wrap below 0 (m61.c:11-16 and 331).
TypeOK ==
    /\ heap \in HeapType
    /\ report \in Report
    /\ life \in {"running", "crashed"}
    /\ calls \in Nat
    /\ work \in Workloads
    /\ szTracker \in TrackerType \cup {<<>>}
    /\ freqTracker \in TrackerType \cup {<<>>}
    /\ allocated \in [Site -> Nat]

\* The links are those of one list of the active blocks: next and prv undo each
\* other, and only lastAlloc has no next (m61.c:101-105 and 175-200).  So the
\* test of line 181 never fails, whatever is freed in whatever order.
IsList(h) ==
    /\ h.lastAlloc = NULL <=> ActiveIn(h) = {}
    /\ h.lastAlloc \in ActiveIn(h) \cup {NULL}
    /\ \A a \in ActiveIn(h) :
          /\ h.mem[a].prv \in ActiveIn(h) \cup {NULL}
          /\ h.mem[a].next \in ActiveIn(h) \cup {NULL}
          /\ h.mem[a].next = NULL <=> a = h.lastAlloc
          /\ h.mem[a].prv # NULL => h.mem[h.mem[a].prv].next = a
          /\ h.mem[a].next # NULL => h.mem[h.mem[a].next].prv = a
ListConsistent == IsList(heap)

\* active_count is the number of blocks the program owns: no free counts
\* twice, and no rejected one counts at all (m61.c:108 and 162).
ActiveCountExact == heap.active_count = Cardinality(Active)

\* The bytes in the active blocks.
StoredSize(h) == SumFunctionOnSet([a \in Address |-> h.mem[a].sz], ActiveIn(h))

\* The statistics add up: the sizes of the owned blocks, and one count for each
\* block asked for, whether it was given or not (m61.c:66-69, 107-110, 162-164).
StatisticsExact ==
    /\ heap.active_size = StoredSize(heap)
    /\ heap.total_count + heap.fail_count = calls
    /\ heap.total_size = SumFunctionOnSet(allocated, Site)

\* The leak report prints every block the program owns once, the newest first,
\* and ends (m61.c:255-267).
LeakReportExact ==
    LET n == Cardinality(Active)
    IN /\ {LeakReport[i] : i \in 0..n - 1} = Active
       /\ LeakReport[n] = NULL
       /\ \A i, j \in 0..n - 1 :
             i < j => heap.mem[LeakReport[i]].born > heap.mem[LeakReport[j]].born

\* m61_free tells a freed block, a sound one, one whose boundary was written
\* over and one that cannot be told from a pointer gone astray, also where the
\* address was used for another block before (m61.c:112-119 and 133-160).
DiagnosisExact ==
    \A a \in Address :
        /\ heap.mem[a].state = "freed" => Diagnoses(heap, a) = {"double free"}
        /\ heap.mem[a].state = "active" =>
              Diagnoses(heap, a) = {CASE heap.mem[a].hit = {} -> "none"
                                      [] heap.mem[a].hit = {"over", "under"} -> "not allocated"
                                      [] OTHER -> "wild write"}

\* A block is never smaller than what was asked for, however large the factors
\* of m61_calloc's product are (m61.c:223 and 228).
NeverTooSmall == \A a \in Active : heap.mem[a].sz = heap.mem[a].want

\* What the counters of one site hold, and what all of them hold.
Counted(t, s) ==
    SumFunctionOnSet([i \in Entry |-> IF t[i].site = s THEN t[i].counter ELSE 0], Entry)
CountedAll(t) == SumFunctionOnSet([i \in Entry |-> t[i].counter], Entry)

\* What the counters of a site hold was allocated there, and what they have lost
\* is at most what was taken from them all: the estimates of the heavy hitter
\* report are below the truth by no more (m61.c:276-290 and 308-335).
CountsBounded ==
    szTracker # <<>> =>
        LET uncounted == heap.total_size - CountedAll(szTracker)
            subtracted == uncounted \div (NUMBERCOUNTERS + 1)
        IN /\ uncounted % (NUMBERCOUNTERS + 1) = 0
           /\ \A s \in Site :
                 /\ Counted(szTracker, s) <= allocated[s]
                 /\ allocated[s] <= Counted(szTracker, s) + NUMBERCOUNTERS * subtracted
=============================================================================
