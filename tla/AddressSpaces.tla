---------------------------- MODULE AddressSpaces ----------------------------
(***************************************************************************)
(* What the kernel promises the programs it runs, with no pages, page      *)
(* tables or reference counts: every process has a private memory of its   *)
(* own, fork copies the whole memory of the father, and nothing one        *)
(* process does changes what another one sees.                             *)
(***************************************************************************)
EXTENDS Integers, Sequences

CONSTANTS Slots,        \* process slots
          VA,           \* virtual pages
          Value,        \* contents of a page
          BootSpaces    \* boot command -> possible memories of processes 1..n

Absent == [perm |-> "none", val |-> "none"]
Cell   == [perm : {"ro", "rw"}, val : Value] \cup {Absent}
Empty  == [va \in VA |-> Absent]

VARIABLES status,       \* "free", "ready" or "faulted"
          space,        \* the memory of each process
          running       \* the process executing, 0 if there is none

avars == <<status, space, running>>

Started(spaces) ==
    /\ status = [p \in Slots |-> IF p <= Len(spaces) THEN "ready" ELSE "free"]
    /\ space = [p \in Slots |-> IF p <= Len(spaces) THEN spaces[p] ELSE Empty]
    /\ running = 1

AInit == \E c \in DOMAIN BootSpaces : \E spaces \in BootSpaces[c] : Started(spaces)

\* Somebody ready, or nobody when nobody is, runs next.
Dispatch == \/ running' # 0 /\ status'[running'] = "ready"
            \/ running' = 0 /\ \A p \in Slots : status'[p] # "ready"

Switch == /\ running # 0
          /\ running' \in Slots /\ Dispatch
          /\ UNCHANGED <<status, space>>

Write(va, v) == /\ running # 0
                /\ space[running][va].perm = "rw"
                /\ space' = [space EXCEPT ![running] = [@ EXCEPT ![va].val = v]]
                /\ UNCHANGED <<status, running>>

\* A new page holds anything.
Grow(va, v) == /\ running # 0
               /\ space[running][va] = Absent
               /\ space' = [space EXCEPT ![running] =
                               [@ EXCEPT ![va] = [perm |-> "rw", val |-> v]]]
               /\ UNCHANGED <<status, running>>

ForkInto(child) == /\ running # 0
                   /\ status[child] = "free"
                   /\ status' = [status EXCEPT ![child] = "ready"]
                   /\ space' = [space EXCEPT ![child] = space[running]]
                   /\ UNCHANGED running

Leave == /\ running # 0
         /\ status' = [status EXCEPT ![running] = "free"]
         /\ space' = [space EXCEPT ![running] = Empty]
         /\ running' \in Slots \cup {0} /\ Dispatch

Fault == /\ running # 0
         /\ status' = [status EXCEPT ![running] = "faulted"]
         /\ running' \in Slots \cup {0} /\ Dispatch
         /\ UNCHANGED space

\* The machine stops: powered off, or the kernel panics.
Stop == running' = 0 /\ UNCHANGED <<status, space>>

Restart(c) == \E spaces \in BootSpaces[c] : Started(spaces)'

ANext == \/ Switch \/ Leave \/ Fault \/ Stop
         \/ \E va \in VA, v \in Value : Write(va, v) \/ Grow(va, v)
         \/ \E child \in Slots : ForkInto(child)
         \/ \E c \in DOMAIN BootSpaces : Restart(c)

ASpec == AInit /\ [][ANext]_avars
==============================================================================
