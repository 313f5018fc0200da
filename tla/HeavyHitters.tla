----------------------------- MODULE HeavyHitters -----------------------------
(* The two arrays of counters in which m61.c tracks the sites (file and line) *)
(* that allocate most often and most bytes.                                   *)
EXTENDS Integers, FiniteSets

CONSTANTS
    Site,
    NUMBERCOUNTERS,
    NoSite,         \* what a zeroed entry names
    JunkCounter     \* a counter in memory that was not zeroed
ASSUME CounterAssumption == /\ NUMBERCOUNTERS \in Nat \ {0} /\ JunkCounter \in Nat
                            /\ IsFiniteSet(Site)

VARIABLES
    szTracker, freqTracker,     \* <<>> before the first allocation
    allocated                   \* the bytes each site has really allocated

Entry == 1..NUMBERCOUNTERS
Zeroed == [i \in Entry |-> [counter |-> 0, site |-> NoSite]]

\* malloc'd: the second memset is meant for freqTracker but zeroes szTracker again.
FreshTrackers ==
    [Entry -> {[counter |-> 0, site |-> NoSite], [counter |-> JunkCounter, site |-> NoSite]}]

TrackersInit ==
    /\ szTracker = <<>> /\ freqTracker = <<>>
    /\ allocated = [s \in Site |-> 0]

\* The first entry that has the site or counts nothing is the one to use.
Usable(t, s) == {i \in Entry : t[i].site = s \/ t[i].counter = 0}
FirstOf(S) == CHOOSE i \in S : \A j \in S : i <= j
Credit(t, s, n) ==
    [t EXCEPT ![FirstOf(Usable(t, s))] = [counter |-> @.counter + n, site |-> s]]

Least(t) == CHOOSE n \in {t[i].counter : i \in Entry} : \A i \in Entry : n <= t[i].counter
Subtract(t, n) == [i \in Entry |-> [t[i] EXCEPT !.counter = @ - n]]

\* If there is none, all counters go down by as much as the least of them allows.
\* Then an entry is free if the site has anything left to count.
\* Mistake: the site is credited with what the others have paid for as well.
CreditsAll(t, n, s) ==
    IF Usable(t, s) # {} THEN Credit(t, s, n)
    ELSE IF n <= Least(t) THEN Subtract(t, n)
    ELSE Credit(Subtract(t, Least(t)), s, n)

updateCounters(t, n, s) ==
    IF Usable(t, s) # {} THEN Credit(t, s, n)
    ELSE IF n <= Least(t) THEN Subtract(t, n)
    ELSE Credit(Subtract(t, Least(t)), s, n - Least(t))

trackAllocByHH(sz, s) ==
    /\ IF szTracker = <<>>
       THEN /\ szTracker' = updateCounters(Zeroed, sz, s)
            /\ \E fresh \in FreshTrackers :
                  freqTracker' = updateCounters(fresh, 1, s)
       ELSE /\ szTracker' = updateCounters(szTracker, sz, s)
            /\ freqTracker' = updateCounters(freqTracker, 1, s)
    /\ allocated' = [allocated EXCEPT ![s] = @ + sz]

\* Bubble sort: larger counters first, equal ones in the order they were.
Goes(t, i, j) == t[i].counter > t[j].counter \/ (t[i].counter = t[j].counter /\ i < j)
Place(t, i) == Cardinality({j \in Entry : Goes(t, j, i)}) + 1
sortHitTracker(t) == [k \in Entry |-> t[CHOOSE i \in Entry : Place(t, i) = k]]

printHeavyHitterReport ==
    /\ szTracker # <<>>
    /\ szTracker' = sortHitTracker(szTracker)
    /\ freqTracker' = sortHitTracker(freqTracker)
    /\ UNCHANGED allocated
=============================================================================
