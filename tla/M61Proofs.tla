------------------------------- MODULE M61Proofs -------------------------------
(* Proofs about m61.c for any number of blocks, sites and counters, any sizes  *)
(* and any program.                                                            *)
EXTENDS M61Properties, SumTheorems

-----------------------------------------------------------------------------
(* The inductive invariant                                                     *)

\* The list is in the order of the allocations: it has no cycle.
Births(h) ==
    \A a \in ActiveIn(h) :
        /\ h.mem[a].born <= h.total_count
        /\ h.mem[a].prv # NULL => h.mem[h.mem[a].prv].born < h.mem[a].born

\* What previously_freed, self and backpack say about a block.
Marks(h) ==
    \A a \in Address :
        /\ h.mem[a].state = "freed" => h.mem[a].previously_freed
        /\ h.mem[a].state # "active" => ~h.mem[a].self /\ ~h.mem[a].backpack
        /\ h.mem[a].state = "active" =>
              /\ ~h.mem[a].previously_freed
              /\ h.mem[a].self <=> "under" \notin h.mem[a].hit
              /\ h.mem[a].backpack <=> "over" \notin h.mem[a].hit

BigEnough(h) == \A a \in ActiveIn(h) : h.mem[a].sz = h.mem[a].want
Count(h) == h.active_count = Cardinality(ActiveIn(h))

HeapInv(h) ==
    /\ h \in HeapType
    /\ IsList(h) /\ Births(h)
    /\ Count(h)
    /\ Marks(h)
    /\ BigEnough(h)

-----------------------------------------------------------------------------
(* Numbers and sets                                                            *)

\* A set of blocks has one that was allocated last.
LEMMA Youngest ==
    ASSUME NEW S, S # {}, NEW t \in Nat, NEW age, 
           \A a \in S : age[a] \in Nat /\ age[a] <= t
    PROVE  \E a \in S : \A b \in S : age[b] <= age[a]
<1> DEFINE D == {n \in Nat : \E a \in S : n = t - age[a]}
<1>1. PICK a0 \in S : TRUE
  OBVIOUS
<1>2. t - age[a0] \in D
  BY <1>1
<1>3. PICK n \in D : \A m \in D : n <= m
  <2>1. D \in SUBSET Nat /\ D # {}
    BY <1>2
  <2> HIDE DEF D
  <2> QED BY <2>1, LeastElement
<1>4. PICK a \in S : n = t - age[a]
  BY <1>3
<1>5. \A b \in S : age[b] <= age[a]
  <2> TAKE b \in S
  <2>1. age[b] \in Nat /\ age[b] <= t /\ age[a] \in Nat
    BY <1>4
  <2>2. t - age[b] \in D
    BY <2>1
  <2> QED BY <1>3, <1>4, <2>1, <2>2
<1> QED BY <1>4, <1>5

LEMMA ActiveFinite ==
    ASSUME NEW h
    PROVE  IsFiniteSet(ActiveIn(h)) /\ ActiveIn(h) \subseteq Address
BY PointerAssumption, FS_Subset DEF ActiveIn

-----------------------------------------------------------------------------
(* malloc                                                                      *)

LEMMA FailureKeepsHeapInv ==
    ASSUME NEW h, HeapInv(h), NEW sz \in Nat
    PROVE  HeapInv(allocationFailedWithSize(h, sz))
<1> DEFINE g == allocationFailedWithSize(h, sz)
<1>1. g \in HeapType /\ g.mem = h.mem /\ g.lastAlloc = h.lastAlloc
      /\ g.active_count = h.active_count /\ g.total_count = h.total_count
  <2>1. h \in HeapType
    BY DEF HeapInv
  <2>2. h.fail_count + 1 \in Nat /\ h.fail_size + sz \in Nat
    BY <2>1 DEF HeapType
  <2> QED BY <2>1, <2>2, Zenon DEF HeapType, allocationFailedWithSize
<1>2. ActiveIn(g) = ActiveIn(h)
  BY <1>1 DEF ActiveIn
<1> HIDE DEF g
<1>3. IsList(g) /\ Births(g) /\ Count(g) /\ Marks(g) /\ BigEnough(g)
  BY <1>1, <1>2 DEF HeapInv, IsList, Births, Count, Marks, BigEnough
<1> QED BY <1>1, <1>3 DEF HeapInv, g

\* A new block joins the list at its end.
LEMMA MallocKeepsHeapInv ==
    ASSUME NEW h, HeapInv(h), NEW a \in Address, h.mem[a].state # "active",
           NEW sz \in 0..SIZE_MAX, NEW want \in Nat, sz = want
    PROVE  HeapInv(Allocated(h, a, sz, want))
<1> DEFINE g == Allocated(h, a, sz, want)
           n == NewBlock(h, sz, want)
           l == h.lastAlloc
<1> USE SizeAssumption, PointerAssumption
<1>1. h \in HeapType
  BY DEF HeapInv
<1>2. /\ h.mem \in [Address -> BlockType] /\ l \in Address \cup {NULL}
      /\ h.total_count \in Nat /\ h.active_count \in Nat
      /\ h.total_size \in Nat /\ h.active_size \in Int
  BY <1>1 DEF HeapType
<1>3. n \in BlockType
  BY <1>2 DEF NewBlock, BlockType
<1>4. l \in ActiveIn(h) \cup {NULL} /\ (l = NULL <=> ActiveIn(h) = {}) /\ l # a
  BY DEF HeapInv, IsList, ActiveIn
<1>5. /\ g.mem = [Joined(h, a) EXCEPT ![a] = n]
      /\ g.lastAlloc = a
      /\ g.total_count = h.total_count + 1
      /\ g.active_count = h.active_count + 1
      /\ g.mem \in [Address -> BlockType] => g \in HeapType
  <2>1. /\ h.total_count + 1 \in Nat /\ h.active_count + 1 \in Nat
        /\ h.total_size + sz \in Nat /\ h.active_size + sz \in Int
    BY <1>2
  <2> QED BY <1>1, <2>1, Zenon DEF Allocated, HeapType
<1> HIDE DEF g
<1>6. /\ Joined(h, a) \in [Address -> BlockType]
      /\ \A b \in Address : b # l => Joined(h, a)[b] = h.mem[b]
      /\ l # NULL => Joined(h, a)[l] = [h.mem[l] EXCEPT !.next = a]
  BY <1>2 DEF Joined, BlockType
<1>7. /\ g.mem \in [Address -> BlockType] /\ g.mem[a] = n
      /\ \A b \in Address \ {a, l} : g.mem[b] = h.mem[b]
      /\ l # NULL => g.mem[l] = [h.mem[l] EXCEPT !.next = a]
  BY <1>3, <1>4, <1>5, <1>6
<1>8. g \in HeapType
  BY <1>5, <1>7
<1>9. /\ \A b \in Address : h.mem[b] \in BlockType
      /\ \A b \in Address \ {a} :
            /\ g.mem[b].state = h.mem[b].state /\ g.mem[b].prv = h.mem[b].prv
            /\ g.mem[b].born = h.mem[b].born
            /\ g.mem[b].sz = h.mem[b].sz /\ g.mem[b].want = h.mem[b].want
            /\ g.mem[b].previously_freed = h.mem[b].previously_freed
            /\ g.mem[b].self = h.mem[b].self /\ g.mem[b].hit = h.mem[b].hit
            /\ g.mem[b].backpack = h.mem[b].backpack
            /\ g.mem[b].next = IF b = l THEN a ELSE h.mem[b].next
  BY <1>2, <1>7 DEF BlockType
<1>10. /\ g.mem[a].state = "active" /\ g.mem[a].prv = l /\ g.mem[a].next = NULL
       /\ g.mem[a].born = h.total_count + 1 /\ g.mem[a].sz = sz
       /\ g.mem[a].want = want /\ g.mem[a].previously_freed = FALSE
       /\ g.mem[a].self = TRUE /\ g.mem[a].backpack = TRUE /\ g.mem[a].hit = {}
  BY <1>7 DEF NewBlock
<1>11. ActiveIn(g) = ActiveIn(h) \cup {a} /\ a \notin ActiveIn(h)
  BY <1>9, <1>10 DEF ActiveIn
<1>12. IsList(g)
  <2>1. \A b \in ActiveIn(h) :
          /\ b # a /\ b \in Address
          /\ h.mem[b].prv \in ActiveIn(h) \cup {NULL}
          /\ h.mem[b].next \in ActiveIn(h) \cup {NULL}
          /\ h.mem[b].next = NULL <=> b = l
          /\ h.mem[b].prv # NULL => h.mem[h.mem[b].prv].next = b
          /\ h.mem[b].next # NULL => h.mem[h.mem[b].next].prv = b
    BY DEF HeapInv, IsList, ActiveIn
  <2>2. ASSUME NEW b \in ActiveIn(h)
        PROVE /\ g.mem[b].prv \in ActiveIn(g) \cup {NULL}
              /\ g.mem[b].next \in ActiveIn(g) \cup {NULL}
              /\ g.mem[b].next = NULL <=> b = a
              /\ g.mem[b].prv # NULL => g.mem[g.mem[b].prv].next = b
              /\ g.mem[b].next # NULL => g.mem[g.mem[b].next].prv = b
    <3>1. a # NULL
      OBVIOUS
    <3>2. b # a /\ b \in Address /\ g.mem[b].prv = h.mem[b].prv
      BY <1>9, <2>1
    <3>3. h.mem[b].prv # NULL => h.mem[b].prv # l
      BY <2>1
    <3>4. h.mem[b].prv # NULL => g.mem[h.mem[b].prv].next = b
      BY <1>9, <2>1, <3>3
    <3>5. CASE b = l
      BY <1>9, <1>10, <1>11, <2>1, <3>1, <3>2, <3>4, <3>5
    <3>6. CASE b # l
      BY <1>9, <1>11, <2>1, <3>1, <3>2, <3>4, <3>6
    <3> QED BY <3>5, <3>6
  <2>3. /\ g.mem[a].prv \in ActiveIn(g) \cup {NULL}
        /\ g.mem[a].prv # NULL => g.mem[g.mem[a].prv].next = a
    BY <1>4, <1>9, <1>10, <1>11, <2>1
  <2>4. g.lastAlloc = a /\ a # NULL /\ ActiveIn(g) # {}
    BY <1>5, <1>11
  <2> QED BY <1>10, <1>11, <2>2, <2>3, <2>4 DEF IsList
<1>13. Births(g)
  <2>1. \A b \in ActiveIn(h) :
          /\ b \in Address /\ b # a /\ h.mem[b].born \in Nat
          /\ h.mem[b].born <= h.total_count
          /\ h.mem[b].prv \in ActiveIn(h) \cup {NULL}
          /\ h.mem[b].prv # NULL => h.mem[h.mem[b].prv].born < h.mem[b].born
    BY <1>9 DEF HeapInv, IsList, Births, ActiveIn, BlockType
  <2>2. ASSUME NEW b \in ActiveIn(h)
        PROVE  /\ g.mem[b].born <= g.total_count
               /\ g.mem[b].prv # NULL => g.mem[g.mem[b].prv].born < g.mem[b].born
    BY <1>2, <1>5, <1>9, <2>1
  <2>3. /\ g.mem[a].born <= g.total_count
        /\ g.mem[a].prv # NULL => g.mem[g.mem[a].prv].born < g.mem[a].born
    BY <1>2, <1>4, <1>5, <1>9, <1>10, <2>1
  <2> QED BY <1>11, <2>2, <2>3 DEF Births
<1>14. Count(g)
  <2>1. Cardinality(ActiveIn(g)) = Cardinality(ActiveIn(h)) + 1
    BY <1>11, ActiveFinite, FS_AddElement
  <2> QED BY <1>5, <2>1 DEF HeapInv, Count
<1>15. Marks(g)
  BY <1>9, <1>10 DEF HeapInv, Marks
<1>16. BigEnough(g)
  <2>1. \A b \in ActiveIn(h) : b \in Address \ {a} /\ h.mem[b].sz = h.mem[b].want
    BY <1>11 DEF HeapInv, BigEnough, ActiveIn
  <2> QED BY <1>9, <1>10, <1>11, <2>1 DEF BigEnough
<1> QED BY <1>8, <1>12, <1>13, <1>14, <1>15, <1>16 DEF HeapInv, g

-----------------------------------------------------------------------------
(* free                                                                        *)

\* What a block looks like once it is invalid.
LEMMA InvalidBlock ==
    ASSUME NEW r \in BlockType
    PROVE  /\ Invalid(r) \in BlockType
           /\ Invalid(r).state = "freed" /\ Invalid(r).previously_freed = TRUE
           /\ Invalid(r).self = FALSE /\ Invalid(r).backpack = FALSE
<1>1. "freed" \in {"unused", "active", "freed"} /\ TRUE \in BOOLEAN /\ FALSE \in BOOLEAN
  OBVIOUS
<1>2. Invalid(r) \in BlockType
  BY <1>1, Zenon DEF Invalid, BlockType
<1>3. Invalid(r).state = "freed" /\ Invalid(r).previously_freed = TRUE
  BY Zenon DEF Invalid, BlockType
<1>4. Invalid(r).self = FALSE /\ Invalid(r).backpack = FALSE
  BY Zenon DEF Invalid, BlockType
<1> QED BY <1>2, <1>3, <1>4

\* A block leaves the list, from whatever place in it.
LEMMA FreeKeepsHeapInv ==
    ASSUME NEW h, HeapInv(h), NEW a \in ActiveIn(h)
    PROVE  HeapInv(Freed(h, a))
<1> DEFINE g == Freed(h, a)
           p == h.mem[a].prv
           n == h.mem[a].next
<1> USE SizeAssumption, PointerAssumption
<1>1. h \in HeapType /\ a \in Address /\ h.mem[a].state = "active"
  BY DEF HeapInv, ActiveIn
<1>2. /\ h.mem \in [Address -> BlockType]
      /\ h.lastAlloc \in Address \cup {NULL}
      /\ \A b \in Address : h.mem[b] \in BlockType
      /\ h.active_count \in Nat /\ h.active_size \in Int
  BY <1>1 DEF HeapType
<1>3. \A b \in ActiveIn(h) :
          /\ b \in Address /\ b # NULL
          /\ h.mem[b].prv \in ActiveIn(h) \cup {NULL}
          /\ h.mem[b].next \in ActiveIn(h) \cup {NULL}
          /\ h.mem[b].next = NULL <=> b = h.lastAlloc
          /\ h.mem[b].prv # NULL => h.mem[h.mem[b].prv].next = b
          /\ h.mem[b].next # NULL => h.mem[h.mem[b].next].prv = b
          /\ h.mem[b].born \in Nat
          /\ h.mem[b].born <= h.total_count
          /\ h.mem[b].prv # NULL => h.mem[h.mem[b].prv].born < h.mem[b].born
          /\ h.mem[b].sz = h.mem[b].want
  BY <1>2 DEF HeapInv, IsList, Births, BigEnough, ActiveIn, BlockType
<1>4. p \in ActiveIn(h) \cup {NULL} /\ n \in ActiveIn(h) \cup {NULL} /\ ~Disowned(h, a)
  BY <1>3 DEF Disowned
<1>5. p # a /\ n # a /\ (p # NULL => p # n)
  BY <1>3, <1>4
<1>6. /\ Unlinked(h, a) \in [Address -> BlockType]
      /\ \A b \in Address : Unlinked(h, a)[b] =
            [h.mem[b] EXCEPT !.next = IF b = p THEN n ELSE @,
                             !.prv = IF b = n THEN p ELSE @]
  <2>1. \A b \in Address :
            [h.mem[b] EXCEPT !.next = IF b = p THEN n ELSE @,
                             !.prv = IF b = n THEN p ELSE @] \in BlockType
    <3> TAKE b \in Address
    <3>1. h.mem[b] \in BlockType /\ p \in Address \cup {NULL} /\ n \in Address \cup {NULL}
      BY <1>2, <1>3, <1>4
    <3> HIDE DEF p, n
    <3> QED BY <3>1 DEF BlockType
  <2> QED BY <1>4, <2>1 DEF Unlinked
<1>7. Invalid(Unlinked(h, a)[a]) \in BlockType
  BY <1>1, <1>6, InvalidBlock
<1>8. Cardinality(ActiveIn(h)) \in Nat /\ h.active_count = Cardinality(ActiveIn(h))
      /\ Cardinality(ActiveIn(h) \ {a}) = Cardinality(ActiveIn(h)) - 1
      /\ Cardinality(ActiveIn(h) \ {a}) \in Nat
  BY ActiveFinite, FS_RemoveElement, FS_CardinalityType DEF HeapInv, Count
<1>9. h.active_count - 1 \in Nat
  BY <1>8
<1>10. h.mem[a].sz \in Int /\ LastAfter(h, a) \in Address \cup {NULL}
  BY <1>1, <1>2, <1>3, <1>4 DEF BlockType, LastAfter
<1>11. /\ g.mem = [Unlinked(h, a) EXCEPT ![a] = Invalid(@)]
       /\ g.lastAlloc = LastAfter(h, a)
       /\ g.total_count = h.total_count
       /\ g.active_count = h.active_count - 1
       /\ g.mem \in [Address -> BlockType] => g \in HeapType
  <2>1. h.active_size - h.mem[a].sz \in Int
    BY <1>2, <1>10
  <2> QED BY <1>1, <1>9, <1>10, <2>1, Zenon DEF Freed, HeapType
<1>12. g.mem \in [Address -> BlockType] /\ g \in HeapType
  BY <1>6, <1>7, <1>11
<1> HIDE DEF g
<1>13. \A b \in Address \ {a} : g.mem[b] =
            [h.mem[b] EXCEPT !.next = IF b = p THEN n ELSE @,
                             !.prv = IF b = n THEN p ELSE @]
  BY <1>6, <1>11
<1>14. \A b \in Address \ {a} :
          /\ g.mem[b].next = (IF b = p THEN n ELSE h.mem[b].next)
          /\ g.mem[b].prv = (IF b = n THEN p ELSE h.mem[b].prv)
          /\ g.mem[b].state = h.mem[b].state
          /\ g.mem[b].born = h.mem[b].born
          /\ g.mem[b].sz = h.mem[b].sz /\ g.mem[b].want = h.mem[b].want
          /\ g.mem[b].previously_freed = h.mem[b].previously_freed
          /\ g.mem[b].self = h.mem[b].self /\ g.mem[b].hit = h.mem[b].hit
          /\ g.mem[b].backpack = h.mem[b].backpack
  <2> SUFFICES ASSUME NEW b \in Address \ {a}
      PROVE  /\ g.mem[b].next = (IF b = p THEN n ELSE h.mem[b].next)
             /\ g.mem[b].prv = (IF b = n THEN p ELSE h.mem[b].prv)
             /\ g.mem[b].state = h.mem[b].state
             /\ g.mem[b].born = h.mem[b].born
             /\ g.mem[b].sz = h.mem[b].sz /\ g.mem[b].want = h.mem[b].want
             /\ g.mem[b].previously_freed = h.mem[b].previously_freed
             /\ g.mem[b].self = h.mem[b].self /\ g.mem[b].hit = h.mem[b].hit
             /\ g.mem[b].backpack = h.mem[b].backpack
    OBVIOUS
  <2>1. h.mem[b] \in BlockType
    BY <1>2
  <2> HIDE DEF p, n
  <2> DEFINE newNext == IF b = p THEN n ELSE h.mem[b].next
             newPrv == IF b = n THEN p ELSE h.mem[b].prv
  <2>2. g.mem[b] = [h.mem[b] EXCEPT !.next = newNext, !.prv = newPrv]
    BY <1>13
  <2>3. newNext = (IF b = p THEN n ELSE h.mem[b].next)
        /\ newPrv = (IF b = n THEN p ELSE h.mem[b].prv)
    OBVIOUS
  <2> HIDE DEF newNext, newPrv
  <2> DEFINE r == h.mem[b]
             q == g.mem[b]
  <2>4. r \in BlockType /\ q = [r EXCEPT !.next = newNext, !.prv = newPrv]
    BY <2>1, <2>2
  <2> HIDE DEF r, q
  <2>5. /\ q.next = newNext /\ q.prv = newPrv
        /\ q.state = r.state /\ q.born = r.born
        /\ q.sz = r.sz /\ q.want = r.want
        /\ q.previously_freed = r.previously_freed
        /\ q.self = r.self /\ q.hit = r.hit /\ q.backpack = r.backpack
    BY <2>4, Zenon DEF BlockType
  <2> QED BY <2>3, <2>5 DEF q, r
<1>15. /\ g.mem[a].state = "freed" /\ g.mem[a].previously_freed = TRUE
       /\ g.mem[a].self = FALSE /\ g.mem[a].backpack = FALSE
  <2>1. Unlinked(h, a)[a] \in BlockType /\ g.mem[a] = Invalid(Unlinked(h, a)[a])
    BY <1>1, <1>6, <1>11
  <2> QED BY <2>1, InvalidBlock
<1>16. ActiveIn(g) = ActiveIn(h) \ {a}
  BY <1>14, <1>15 DEF ActiveIn
<1>17. IsList(g)
  <2>1. ASSUME NEW b \in ActiveIn(g)
        PROVE /\ g.mem[b].prv \in ActiveIn(g) \cup {NULL}
              /\ g.mem[b].next \in ActiveIn(g) \cup {NULL}
              /\ g.mem[b].next = NULL <=> b = g.lastAlloc
              /\ g.mem[b].prv # NULL => g.mem[g.mem[b].prv].next = b
              /\ g.mem[b].next # NULL => g.mem[g.mem[b].next].prv = b
    <3>1. b \in ActiveIn(h) /\ b # a /\ b \in Address \ {a}
      BY <1>3, <1>16
    <3>2. h.mem[b].next = a <=> b = p
      BY <1>3, <1>4, <3>1
    <3>3. h.mem[b].prv = a <=> b = n
      BY <1>3, <1>4, <3>1
    <3>4. g.mem[b].prv \in ActiveIn(g) \cup {NULL}
      BY <1>3, <1>4, <1>5, <1>14, <1>16, <3>1, <3>3
    <3>5. g.mem[b].next \in ActiveIn(g) \cup {NULL}
      BY <1>3, <1>4, <1>5, <1>14, <1>16, <3>1, <3>2
    <3>6. g.mem[b].next = NULL <=> b = g.lastAlloc
      <4>1. g.lastAlloc = IF n = NULL THEN p ELSE h.lastAlloc
        BY <1>11 DEF LastAfter
      <4>2. n = NULL <=> a = h.lastAlloc
        BY <1>3
      <4>3. CASE b = p
        BY <1>3, <1>14, <3>1, <3>2, <4>1, <4>2, <4>3
      <4>4. CASE b # p
        BY <1>3, <1>14, <3>1, <3>2, <4>1, <4>2, <4>4
      <4> QED BY <4>3, <4>4
    <3>7. ASSUME g.mem[b].prv # NULL PROVE g.mem[g.mem[b].prv].next = b
      <4>1. CASE b = n
        BY <1>3, <1>4, <1>5, <1>14, <3>1, <3>7, <4>1
      <4>2. CASE b # n
        <5>1. g.mem[b].prv = h.mem[b].prv /\ h.mem[b].prv # a
          BY <1>14, <3>1, <3>3, <4>2
        <5>2. h.mem[b].prv \in Address \ {a} /\ h.mem[h.mem[b].prv].next = b
          BY <1>3, <3>1, <3>7, <5>1
        <5>3. h.mem[b].prv # p
          BY <1>3, <1>4, <3>1, <3>7, <5>1, <5>2
        <5> QED BY <1>14, <5>1, <5>2, <5>3
      <4> QED BY <4>1, <4>2
    <3>8. ASSUME g.mem[b].next # NULL PROVE g.mem[g.mem[b].next].prv = b
      <4>1. CASE b = p
        BY <1>3, <1>4, <1>5, <1>14, <3>1, <3>8, <4>1
      <4>2. CASE b # p
        <5>1. g.mem[b].next = h.mem[b].next /\ h.mem[b].next # a
          BY <1>14, <3>1, <3>2, <4>2
        <5>2. h.mem[b].next \in Address \ {a} /\ h.mem[h.mem[b].next].prv = b
          BY <1>3, <3>1, <3>8, <5>1
        <5>3. h.mem[b].next # n
          BY <1>3, <1>4, <3>1, <3>8, <5>1, <5>2
        <5> QED BY <1>14, <5>1, <5>2, <5>3
      <4> QED BY <4>1, <4>2
    <3> QED BY <3>4, <3>5, <3>6, <3>7, <3>8
  <2>2. g.lastAlloc \in ActiveIn(g) \cup {NULL}
    BY <1>3, <1>4, <1>5, <1>11, <1>16 DEF HeapInv, IsList, LastAfter
  <2>3. ASSUME g.lastAlloc = NULL PROVE ActiveIn(g) = {}
    <3> SUFFICES ASSUME ActiveIn(g) # {} PROVE FALSE
      OBVIOUS
    <3> DEFINE age == [b \in ActiveIn(g) |-> h.mem[b].born]
    <3>1. \A b \in ActiveIn(g) : age[b] \in Nat /\ age[b] <= h.total_count
      BY <1>3, <1>16
    <3>2. h.total_count \in Nat
      BY <1>1 DEF HeapType
    <3>3. PICK b \in ActiveIn(g) : \A c \in ActiveIn(g) : age[c] <= age[b]
      <4> HIDE DEF age
      <4> QED BY <3>1, <3>2, Youngest
    <3>4. g.mem[b].next # NULL /\ g.mem[b].next \in ActiveIn(g)
          /\ g.mem[g.mem[b].next].prv = b
      BY <2>1, <2>3, <3>3, <1>3, <1>16
    <3>5. b # a /\ b \in ActiveIn(h) /\ b \in Address \ {a}
      BY <1>3, <1>16
    <3>6. h.mem[b].born < h.mem[g.mem[b].next].born
      <4>1. CASE b = p
        <5>1. g.mem[b].next = n /\ n # NULL
          BY <1>14, <3>4, <3>5, <4>1
        <5>2. h.mem[b].born < h.mem[a].born
          BY <1>3, <3>5, <4>1
        <5>3. h.mem[a].born < h.mem[n].born
          BY <1>3, <1>4, <5>1
        <5>4. h.mem[a].born \in Nat /\ h.mem[b].born \in Nat /\ h.mem[n].born \in Nat
          BY <1>3, <1>4, <3>5, <5>1
        <5> QED BY <5>1, <5>2, <5>3, <5>4
      <4>2. CASE b # p
        BY <1>3, <1>14, <3>4, <3>5, <4>2
      <4> QED BY <4>1, <4>2
    <3>7. age[g.mem[b].next] <= age[b] /\ age[b] = h.mem[b].born
          /\ age[g.mem[b].next] = h.mem[g.mem[b].next].born
      BY <3>3, <3>4
    <3>8. h.mem[b].born \in Nat /\ h.mem[g.mem[b].next].born \in Nat
      BY <1>3, <1>16, <3>4, <3>5
    <3> HIDE DEF age
    <3> QED BY <3>6, <3>7, <3>8
  <2>4. ASSUME ActiveIn(g) = {} PROVE g.lastAlloc = NULL
    BY <2>2, <2>4
  <2> QED BY <2>1, <2>2, <2>3, <2>4 DEF IsList
<1>18. Births(g)
  <2> SUFFICES ASSUME NEW b \in ActiveIn(g)
      PROVE /\ g.mem[b].born <= g.total_count
            /\ g.mem[b].prv # NULL => g.mem[g.mem[b].prv].born < g.mem[b].born
    BY DEF Births
  <2>1. b \in ActiveIn(h) /\ b # a /\ b \in Address \ {a}
    BY <1>3, <1>16
  <2>2. g.mem[b].born <= g.total_count
    BY <1>3, <1>11, <1>14, <2>1
  <2>3. ASSUME g.mem[b].prv # NULL PROVE g.mem[g.mem[b].prv].born < g.mem[b].born
    <3>1. CASE b = n
      <4>1. g.mem[b].prv = p /\ p # NULL /\ p \in Address \ {a}
        BY <1>3, <1>4, <1>5, <1>14, <2>1, <2>3, <3>1
      <4>2. h.mem[p].born < h.mem[a].born /\ h.mem[a].born < h.mem[b].born
        BY <1>3, <2>1, <3>1, <4>1
      <4>3. h.mem[p].born \in Nat /\ h.mem[a].born \in Nat /\ h.mem[b].born \in Nat
        BY <1>3, <1>4, <2>1, <4>1
      <4> QED BY <1>14, <2>1, <4>1, <4>2, <4>3
    <3>2. CASE b # n
      <4>1. g.mem[b].prv = h.mem[b].prv /\ h.mem[b].prv # a
        BY <1>3, <1>4, <1>14, <2>1, <3>2
      <4>2. h.mem[b].prv \in Address \ {a}
        BY <1>3, <2>1, <2>3, <4>1
      <4> QED BY <1>3, <1>14, <2>1, <2>3, <4>1, <4>2
    <3> QED BY <3>1, <3>2
  <2> QED BY <2>2, <2>3
<1>19. Count(g)
  BY <1>8, <1>11, <1>16 DEF Count
<1>20. Marks(g)
  BY <1>14, <1>15 DEF HeapInv, Marks
<1>21. BigEnough(g)
  BY <1>3, <1>14, <1>16 DEF BigEnough
<1> QED BY <1>12, <1>17, <1>18, <1>19, <1>20, <1>21 DEF HeapInv, g

-----------------------------------------------------------------------------
(* The calls                                                                   *)

LEMMA MallocCall ==
    ASSUME HeapInv(heap), work \in Workloads, NEW sz \in Nat, NEW want \in Nat,
           sz = want, NEW r \in Rooms(sz)
    PROVE  HeapInv(AfterMalloc(r, sz, want))
<1> USE SizeAssumption, PointerAssumption
<1>1. CASE r = NULL
  BY <1>1, FailureKeepsHeapInv DEF AfterMalloc
<1>2. CASE r # NULL
  <2>1. sz <= maximumSizeValid /\ r \in work.addresses /\ heap.mem[r].state # "active"
    BY <1>2 DEF Rooms, maximumSizeValid
  <2>2. r \in Address /\ sz \in 0..SIZE_MAX
    BY <2>1, WorkAssumption DEF maximumSizeValid
  <2> QED BY <1>2, <2>1, <2>2, MallocKeepsHeapInv DEF AfterMalloc
<1> QED BY <1>1, <1>2

LEMMA FreeCall ==
    ASSUME NEW h, HeapInv(h), NEW p
    PROVE  HeapInv(AfterFree(h, p))
<1>1. CASE p \in Address /\ Diagnoses(h, p) \cap {"none", "wild write"} # {}
  <2>1. p # NULL /\ p # OUTSIDE /\ p # ASTRAY
    BY <1>1, PointerAssumption
  <2>2. h.mem[p].self \/ h.mem[p].backpack
    BY <1>1, <2>1 DEF Diagnoses
  <2>3. p \in ActiveIn(h)
    BY <1>1, <2>2 DEF HeapInv, Marks, ActiveIn
  <2> QED BY <1>1, <2>3, FreeKeepsHeapInv DEF AfterFree
<1>2. CASE ~(p \in Address /\ Diagnoses(h, p) \cap {"none", "wild write"} # {})
  BY <1>2 DEF AfterFree
<1> QED BY <1>1, <1>2

LEMMA DiagnosisIsReport ==
    ASSUME NEW h, NEW p
    PROVE  Diagnoses(h, p) \subseteq Report
BY DEF Diagnoses, Report

\* Steps that leave the links, the births and the sizes of the active blocks.
LEMMA SameList ==
    ASSUME NEW h, HeapInv(h), NEW g, g \in HeapType,
           g.lastAlloc = h.lastAlloc, g.total_count = h.total_count,
           g.active_count = h.active_count,
           \A b \in Address :
              /\ g.mem[b].state = "active" <=> h.mem[b].state = "active"
              /\ g.mem[b].state = "active" =>
                    /\ g.mem[b].prv = h.mem[b].prv /\ g.mem[b].next = h.mem[b].next
                    /\ g.mem[b].born = h.mem[b].born
                    /\ g.mem[b].sz = h.mem[b].sz /\ g.mem[b].want = h.mem[b].want
    PROVE  IsList(g) /\ Births(g) /\ Count(g) /\ BigEnough(g)
<1>1. ActiveIn(g) = ActiveIn(h)
  BY DEF ActiveIn
<1>2. \A b \in ActiveIn(h) :
         /\ g.mem[b].prv = h.mem[b].prv /\ g.mem[b].next = h.mem[b].next
         /\ g.mem[b].born = h.mem[b].born
         /\ g.mem[b].sz = h.mem[b].sz /\ g.mem[b].want = h.mem[b].want
  BY DEF ActiveIn
<1>3. IsList(g)
  <2>1. IsList(h)
    BY DEF HeapInv
  <2> QED BY <1>1, <1>2, <2>1 DEF IsList
<1>4. Births(g)
  <2>1. IsList(h) /\ Births(h)
    BY DEF HeapInv
  <2> QED BY <1>1, <1>2, <2>1 DEF IsList, Births
<1>5. Count(g)
  BY <1>1 DEF HeapInv, Count
<1>6. BigEnough(g)
  BY <1>1, <1>2 DEF HeapInv, BigEnough
<1> QED BY <1>3, <1>4, <1>5, <1>6

\* One block changes, and it stays in the list or out of it.
LEMMA OtherBlock ==
    ASSUME NEW h, HeapInv(h), NEW a \in Address, NEW r \in BlockType,
           r.state = "active" <=> h.mem[a].state = "active",
           r.state = "active" =>
              /\ r.prv = h.mem[a].prv /\ r.next = h.mem[a].next
              /\ r.born = h.mem[a].born /\ r.sz = h.mem[a].sz /\ r.want = h.mem[a].want,
           /\ r.state = "freed" => r.previously_freed
           /\ r.state # "active" => ~r.self /\ ~r.backpack
           /\ r.state = "active" =>
                 /\ ~r.previously_freed
                 /\ r.self <=> "under" \notin r.hit
                 /\ r.backpack <=> "over" \notin r.hit,
           NEW g, g = [h EXCEPT !.mem = [@ EXCEPT ![a] = r]]
    PROVE  HeapInv(g)
<1>1. h \in HeapType /\ h.mem \in [Address -> BlockType]
  BY DEF HeapInv, HeapType
<1>2. g \in HeapType
  <2>1. [h.mem EXCEPT ![a] = r] \in [Address -> BlockType]
    BY <1>1
  <2> QED BY <1>1, <2>1, Zenon DEF HeapType
<1>3. /\ g.mem = [h.mem EXCEPT ![a] = r]
      /\ g.lastAlloc = h.lastAlloc /\ g.total_count = h.total_count
      /\ g.active_count = h.active_count
  BY <1>1, Zenon DEF HeapType
<1>4. g.mem[a] = r /\ \A b \in Address : b # a => g.mem[b] = h.mem[b]
  BY <1>1, <1>3
<1>5. IsList(g) /\ Births(g) /\ Count(g) /\ BigEnough(g)
  <2>1. ASSUME NEW b \in Address
        PROVE  /\ g.mem[b].state = "active" <=> h.mem[b].state = "active"
               /\ g.mem[b].state = "active" =>
                     /\ g.mem[b].prv = h.mem[b].prv /\ g.mem[b].next = h.mem[b].next
                     /\ g.mem[b].born = h.mem[b].born
                     /\ g.mem[b].sz = h.mem[b].sz /\ g.mem[b].want = h.mem[b].want
    <3>1. CASE b = a
      BY <1>4, <3>1
    <3>2. CASE b # a
      BY <1>4, <3>2
    <3> QED BY <3>1, <3>2
  <2> QED BY <1>2, <1>3, <2>1, SameList
<1>6. Marks(g)
  <2>1. Marks(h)
    BY DEF HeapInv
  <2> QED BY <1>4, <2>1 DEF Marks
<1> QED BY <1>2, <1>5, <1>6 DEF HeapInv

-----------------------------------------------------------------------------
(* The heavy hitters                                                           *)

LEMMA FirstExists ==
    ASSUME NEW S \in SUBSET Entry, S # {}
    PROVE  FirstOf(S) \in S
<1>1. S \in SUBSET Nat
  BY DEF Entry
<1>2. \E i \in S : \A j \in S : i <= j
  BY <1>1, LeastElement
<1> QED BY <1>2 DEF FirstOf

LEMMA CreditType ==
    ASSUME NEW t \in TrackerType, NEW s \in Site, NEW n \in Nat, Usable(t, s) # {}
    PROVE  Credit(t, s, n) \in TrackerType
<1> DEFINE i == FirstOf(Usable(t, s))
<1>1. i \in Entry
  BY FirstExists DEF Usable
<1>2. t[i].counter + n \in Nat
  BY <1>1 DEF TrackerType
<1> HIDE DEF i
<1>3. [counter |-> t[i].counter + n, site |-> s] \in [counter : Nat, site : Site \cup {NoSite}]
  BY <1>2
<1>4. Credit(t, s, n) = [t EXCEPT ![i] = [counter |-> t[i].counter + n, site |-> s]]
  BY DEF Credit, i
<1> QED BY <1>1, <1>3, <1>4 DEF TrackerType

\* The least counter is one of them.
LEMMA LeastCounter ==
    ASSUME NEW t \in TrackerType
    PROVE  /\ Least(t) \in Nat
           /\ \A i \in Entry : Least(t) <= t[i].counter
           /\ \E i \in Entry : Least(t) = t[i].counter
<1> DEFINE S == {t[i].counter : i \in Entry}
<1>1. S \in SUBSET Nat
  BY DEF TrackerType
<1>2. S # {}
  <2>1. 1 \in Entry
    BY CounterAssumption DEF Entry
  <2> QED BY <2>1
<1>3. \E n \in S : \A m \in S : n <= m
  <2> HIDE DEF S
  <2> QED BY <1>1, <1>2, LeastElement
<1>4. PICK n \in S : \A m \in S : n <= m
  BY <1>3
<1>5. Least(t) \in S /\ \A i \in Entry : Least(t) <= t[i].counter
  BY <1>4 DEF Least
<1> QED BY <1>1, <1>5

LEMMA SubtractType ==
    ASSUME NEW t \in TrackerType, NEW n \in Nat, \A i \in Entry : n <= t[i].counter
    PROVE  /\ Subtract(t, n) \in TrackerType
           /\ \A i \in Entry : Subtract(t, n)[i].counter = t[i].counter - n
<1>1. ASSUME NEW i \in Entry
      PROVE  /\ [t[i] EXCEPT !.counter = @ - n] \in [counter : Nat, site : Site \cup {NoSite}]
             /\ [t[i] EXCEPT !.counter = @ - n].counter = t[i].counter - n
  <2>1. t[i] \in [counter : Nat, site : Site \cup {NoSite}] /\ t[i].counter - n \in Nat
    BY <1>1 DEF TrackerType
  <2> QED BY <2>1
<1> QED BY <1>1 DEF Subtract, TrackerType

\* No counter ever goes below 0: as much is subtracted as the least one allows.
LEMMA CountersStayCounters ==
    ASSUME NEW t \in TrackerType, NEW s \in Site, NEW n \in Nat
    PROVE  updateCounters(t, n, s) \in TrackerType
<1>1. CASE Usable(t, s) # {}
  BY <1>1, CreditType DEF updateCounters
<1>2. CASE Usable(t, s) = {} /\ n <= Least(t)
  <2>1. \A i \in Entry : n <= t[i].counter
    <3> TAKE i \in Entry
    <3>1. t[i].counter \in Nat
      BY DEF TrackerType
    <3> QED BY <1>2, <3>1, LeastCounter
  <2> QED BY <1>2, <2>1, SubtractType DEF updateCounters
<1>3. CASE Usable(t, s) = {} /\ ~(n <= Least(t))
  <2> DEFINE u == Subtract(t, Least(t))
  <2>1. u \in TrackerType /\ \A i \in Entry : u[i].counter = t[i].counter - Least(t)
    BY LeastCounter, SubtractType
  <2>2. PICK i \in Entry : Least(t) = t[i].counter
    BY LeastCounter
  <2>3. u[i].counter = 0
    BY <2>1, <2>2, LeastCounter
  <2> HIDE DEF u
  <2>4. Usable(u, s) # {}
    BY <2>3 DEF Usable
  <2>5. n - Least(t) \in Nat
    BY <1>3, LeastCounter
  <2>6. Credit(u, s, n - Least(t)) \in TrackerType
    BY <2>1, <2>4, <2>5, CreditType
  <2> QED BY <1>3, <2>6 DEF updateCounters, u
<1> QED BY <1>1, <1>2, <1>3

LEMMA EntryFinite == IsFiniteSet(Entry) /\ Cardinality(Entry) = NUMBERCOUNTERS
<1>1. 1 \in Int /\ NUMBERCOUNTERS \in Int /\ ~(1 > NUMBERCOUNTERS)
      /\ NUMBERCOUNTERS - 1 + 1 = NUMBERCOUNTERS
  BY CounterAssumption
<1> QED BY <1>1, FS_Interval DEF Entry

\* Sorting has an entry for every place.
LEMMA PlacesAreTaken ==
    ASSUME NEW t \in TrackerType, NEW k \in Entry
    PROVE  \E i \in Entry : Place(t, i) = k
<1> DEFINE Before(i) == {j \in Entry : Goes(t, j, i)}
           place == [i \in Entry |-> Place(t, i)]
<1>1. NUMBERCOUNTERS \in Nat /\ NUMBERCOUNTERS # 0 /\ \A i \in Entry : t[i].counter \in Nat /\ i \in Nat
  BY CounterAssumption DEF TrackerType, Entry
<1>2. IsFiniteSet(Entry) /\ Cardinality(Entry) = NUMBERCOUNTERS
  BY EntryFinite
<1>3. \A i \in Entry : /\ IsFiniteSet(Before(i)) /\ i \notin Before(i)
                       /\ Before(i) \subseteq Entry
  <2> TAKE i \in Entry
  <2>1. ~Goes(t, i, i)
    BY <1>1 DEF Goes
  <2> QED BY <1>2, <2>1, FS_Subset
<1>4. \A i \in Entry : Place(t, i) = Cardinality(Before(i)) + 1
  BY DEF Place
<1>5. ASSUME NEW i \in Entry, NEW j \in Entry, Goes(t, i, j)
      PROVE  Place(t, i) < Place(t, j)
  <2>1. Before(i) \subseteq Before(j)
    <3> SUFFICES ASSUME NEW b \in Before(i) PROVE Goes(t, b, j)
      OBVIOUS
    <3>1. b \in Entry /\ Goes(t, b, i)
      OBVIOUS
    <3> QED BY <1>1, <1>5, <3>1 DEF Goes
  <2>2. i \in Before(j) /\ i \notin Before(i)
    BY <1>3, <1>5
  <2>3. Cardinality(Before(i)) <= Cardinality(Before(j)) /\ Cardinality(Before(i)) # Cardinality(Before(j))
    BY <1>3, <2>1, <2>2, FS_Subset
  <2>4. Cardinality(Before(i)) \in Nat /\ Cardinality(Before(j)) \in Nat
    BY <1>3, FS_CardinalityType
  <2> HIDE DEF Before
  <2> QED BY <1>4, <2>3, <2>4
<1>6. ASSUME NEW i \in Entry PROVE Place(t, i) \in Entry
  <2>1. Cardinality(Before(i)) \in Nat /\ Cardinality(Before(i)) <= NUMBERCOUNTERS
        /\ Cardinality(Before(i)) # NUMBERCOUNTERS
    BY <1>2, <1>3, FS_Subset, FS_CardinalityType
  <2> HIDE DEF Before
  <2> QED BY <1>1, <1>4, <2>1 DEF Entry
<1>7. place \in Injection(Entry, Entry)
  <2>1. place \in [Entry -> Entry]
    BY <1>6
  <2>2. ASSUME NEW i \in Entry, NEW j \in Entry, i # j PROVE place[i] # place[j]
    <3>1. Goes(t, i, j) \/ Goes(t, j, i)
      BY <1>1, <2>2 DEF Goes
    <3>2. Place(t, i) \in Nat /\ Place(t, j) \in Nat
      BY <1>6 DEF Entry
    <3>3. Place(t, i) # Place(t, j)
      BY <1>5, <3>1, <3>2
    <3> QED BY <3>3
  <2> HIDE DEF place
  <2> QED BY <2>1, <2>2 DEF Injection, IsInjective
<1>8. place \in Surjection(Entry, Entry)
  <2> HIDE DEF place
  <2> QED BY <1>2, <1>7, FS_Injection
<1>9. \E i \in Entry : place[i] = k
  <2> HIDE DEF place
  <2> QED BY <1>8 DEF Surjection
<1> QED BY <1>9

LEMMA SortKeepsEntries ==
    ASSUME NEW t \in TrackerType
    PROVE  sortHitTracker(t) \in TrackerType
<1>1. ASSUME NEW k \in Entry PROVE (CHOOSE i \in Entry : Place(t, i) = k) \in Entry
  BY <1>1, PlacesAreTaken
<1> QED BY <1>1 DEF sortHitTracker, TrackerType

\* What TypeOK says of the trackers.
TrackersOK ==
    /\ szTracker \in TrackerType \cup {<<>>}
    /\ freqTracker \in TrackerType \cup {<<>>}
    /\ allocated \in [Site -> Nat]

LEMMA TrackingKeepsTypes ==
    ASSUME TrackersOK, NEW sz \in Nat, NEW s \in Site, NEW r, Tracked(r, sz, s),
           szTracker = <<>> <=> freqTracker = <<>>
    PROVE  TrackersOK' /\ (szTracker = <<>> <=> freqTracker = <<>>)'
<1>1. \A t \in TrackerType : t # <<>>
  <2> SUFFICES ASSUME <<>> \in TrackerType PROVE FALSE
    OBVIOUS
  <2>1. 1 \in Entry /\ DOMAIN <<>> = Entry
    BY CounterAssumption DEF Entry, TrackerType
  <2> QED BY <2>1
<1>2. CASE r = NULL
  BY <1>2 DEF Tracked, trackerVars, TrackersOK
<1>3. CASE r # NULL
  <2>1. trackAllocByHH(sz, s)
    BY <1>3 DEF Tracked
  <2>2. allocated' \in [Site -> Nat]
    BY <2>1 DEF trackAllocByHH, TrackersOK
  <2>3. CASE szTracker = <<>>
    <3>1. Zeroed \in TrackerType
      BY DEF Zeroed, TrackerType
    <3>2. \A fresh \in FreshTrackers : fresh \in TrackerType
      BY CounterAssumption DEF FreshTrackers, TrackerType
    <3>3. 1 \in Nat
      OBVIOUS
    <3>4. szTracker' \in TrackerType /\ freqTracker' \in TrackerType
      BY <2>1, <2>3, <3>1, <3>2, <3>3, CountersStayCounters DEF trackAllocByHH
    <3> QED BY <1>1, <2>2, <3>4 DEF TrackersOK
  <2>4. CASE szTracker # <<>>
    <3>1. szTracker \in TrackerType /\ freqTracker \in TrackerType /\ 1 \in Nat
      BY <2>4 DEF TrackersOK
    <3>2. szTracker' \in TrackerType /\ freqTracker' \in TrackerType
      BY <2>1, <2>4, <3>1, CountersStayCounters DEF trackAllocByHH
    <3> QED BY <1>1, <2>2, <3>2 DEF TrackersOK
  <2> QED BY <2>3, <2>4
<1> QED BY <1>2, <1>3

-----------------------------------------------------------------------------
(* The steps                                                                   *)

IInv ==
    /\ TypeOK
    /\ HeapInv(heap)
    /\ szTracker = <<>> <=> freqTracker = <<>>

LEMMA InitInv == Init => IInv
<1> SUFFICES ASSUME Init PROVE IInv
  OBVIOUS
<1> USE SizeAssumption, PointerAssumption
<1>1. Unused \in BlockType
  BY DEF Unused, BlockType
<1>2. heap.mem = [a \in Address |-> Unused] /\ heap.lastAlloc = NULL
      /\ heap.active_count = 0
  BY DEF Init
<1>3. heap \in HeapType
  BY <1>1 DEF Init, HeapType
<1>4. ActiveIn(heap) = {}
  BY <1>2 DEF ActiveIn, Unused
<1>5. IsList(heap) /\ Births(heap) /\ BigEnough(heap)
  BY <1>2, <1>4 DEF IsList, Births, BigEnough
<1>6. Count(heap)
  BY <1>2, <1>4, FS_EmptySet DEF Count
<1>7. Marks(heap)
  BY <1>2 DEF Marks, Unused
<1>8. TypeOK
  BY <1>3 DEF Init, TypeOK, TrackersInit, Report
<1> QED BY <1>3, <1>5, <1>6, <1>7, <1>8 DEF Init, IInv, HeapInv, TrackersInit

\* What the parts of a step come to.
LEMMA StepKeepsInv ==
    ASSUME IInv, HeapInv(heap)', report' \in Report, life' \in {"running", "crashed"},
           calls' \in Nat, work' = work, TrackersOK',
           (szTracker = <<>> <=> freqTracker = <<>>)'
    PROVE  IInv'
BY DEF IInv, TypeOK, TrackersOK, HeapInv

LEMMA MallocStep ==
    ASSUME IInv, NEW sz \in work.sizes, NEW s \in work.sites, m61_malloc(sz, s)
    PROVE  IInv'
<1>1. work \in Workloads /\ calls \in Nat /\ HeapInv(heap) /\ TrackersOK
      /\ (szTracker = <<>> <=> freqTracker = <<>>)
  BY DEF IInv, TypeOK, TrackersOK
<1>2. sz \in Nat /\ s \in Site
  BY <1>1, WorkAssumption, SizeAssumption
<1>3. PICK r \in Rooms(sz) : heap' = AfterMalloc(r, sz, sz) /\ Tracked(r, sz, s)
  BY DEF m61_malloc
<1>4. HeapInv(heap)'
  BY <1>1, <1>2, <1>3, MallocCall DEF HeapInv, IsList, Births, Marks, BigEnough, Count
<1>5. TrackersOK' /\ (szTracker = <<>> <=> freqTracker = <<>>)'
  BY <1>1, <1>2, <1>3, TrackingKeepsTypes
<1>6. report' \in Report /\ life' \in {"running", "crashed"} /\ calls' \in Nat /\ work' = work
  BY <1>1 DEF m61_malloc, Asked, Running, Report
<1> QED BY <1>4, <1>5, <1>6, StepKeepsInv

\* The product is computed only if it is small enough not to wrap.
LEMMA ProductFits ==
    ASSUME NEW n \in Nat, n > 0, NEW sz \in Nat, ~TooLarge(n, sz)
    PROVE  sz * n \in Nat /\ (sz * n) % (SIZE_MAX + 1) = sz * n
<1> DEFINE m == maximumSizeValid
           q == m \div n
<1>1. m \in Nat /\ m <= SIZE_MAX /\ SIZE_MAX \in Nat
  BY SizeAssumption DEF maximumSizeValid
<1>2. sz <= q /\ q \in Nat /\ n * q <= m
  <2>1. ~(sz > q)
    BY DEF TooLarge
  <2> HIDE DEF m
  <2>2. q \in Nat /\ n * q <= m
    BY <1>1
  <2> HIDE DEF q
  <2> QED BY <2>1, <2>2
<1> HIDE DEF m, q
<1>3. sz * n <= q * n
  BY <1>2
<1>4. sz * n \in Nat /\ sz * n <= m
  BY <1>1, <1>2, <1>3
<1> HIDE DEF m
<1>5. \A x \in Nat : x <= m => x % (SIZE_MAX + 1) = x
  BY <1>1
<1> QED BY <1>4, <1>5

LEMMA CallocStep ==
    ASSUME IInv, NEW n \in work.members, NEW sz \in work.sizes, NEW s \in work.sites,
           m61_calloc(n, sz, s)
    PROVE  IInv'
<1>1. work \in Workloads /\ calls \in Nat /\ HeapInv(heap) /\ TrackersOK
      /\ (szTracker = <<>> <=> freqTracker = <<>>)
  BY DEF IInv, TypeOK, TrackersOK
<1>2. sz \in Nat /\ s \in Site /\ n \in Nat /\ n > 0
  BY <1>1, WorkAssumption, SizeAssumption DEF m61_calloc
<1>3. report' \in Report /\ life' \in {"running", "crashed"} /\ calls' \in Nat /\ work' = work
  BY <1>1 DEF m61_calloc, Asked, Running, Report
<1>4. CASE TooLarge(n, sz)
  <2>1. heap' = allocationFailedWithSize(heap, sz) /\ UNCHANGED trackerVars
    BY <1>4 DEF m61_calloc
  <2>2. HeapInv(heap)'
    BY <1>1, <1>2, <2>1, FailureKeepsHeapInv
       DEF HeapInv, IsList, Births, Marks, BigEnough, Count
  <2>3. TrackersOK' /\ (szTracker = <<>> <=> freqTracker = <<>>)'
    BY <1>1, <2>1 DEF TrackersOK, trackerVars
  <2> QED BY <1>3, <2>2, <2>3, StepKeepsInv
<1>5. CASE ~TooLarge(n, sz)
  <2> DEFINE product == (sz * n) % (SIZE_MAX + 1)
  <2>1. sz * n \in Nat /\ product = sz * n
    BY <1>2, <1>5, ProductFits
  <2>2. PICK r \in Rooms(product) : /\ heap' = AfterMalloc(r, product, sz * n)
                                    /\ Tracked(r, product, s)
    BY <1>5 DEF m61_calloc
  <2> HIDE DEF product
  <2>3. HeapInv(heap)'
    <3>1. HeapInv(AfterMalloc(r, product, sz * n))
      BY <1>1, <2>1, <2>2, MallocCall
    <3> QED BY <2>2, <3>1 DEF HeapInv, IsList, Births, Marks, BigEnough, Count
  <2>4. TrackersOK' /\ (szTracker = <<>> <=> freqTracker = <<>>)'
    <3>1. product \in Nat
      BY <2>1
    <3> QED BY <1>1, <1>2, <2>2, <3>1, TrackingKeepsTypes
  <2> QED BY <1>3, <2>3, <2>4, StepKeepsInv
<1> QED BY <1>4, <1>5

LEMMA FreeStep ==
    ASSUME IInv, NEW p, m61_free(p)
    PROVE  IInv'
<1>1. HeapInv(heap)'
  <2>1. HeapInv(AfterFree(heap, p))
    BY FreeCall DEF IInv
  <2> QED BY <2>1 DEF m61_free, HeapInv, IsList, Births, Marks, BigEnough, Count
<1>2. report' \in Report /\ life' \in {"running", "crashed"} /\ calls' \in Nat /\ work' = work
  BY DiagnosisIsReport DEF m61_free, Running, IInv, TypeOK
<1>3. TrackersOK' /\ (szTracker = <<>> <=> freqTracker = <<>>)'
  BY DEF m61_free, trackerVars, TrackersOK, IInv, TypeOK
<1> QED BY <1>1, <1>2, <1>3, StepKeepsInv

LEMMA ReallocStep ==
    ASSUME IInv, NEW p, NEW sz \in work.sizes, NEW s \in work.sites,
           m61_realloc(p, sz, s)
    PROVE  IInv'
<1>1. work \in Workloads /\ calls \in Nat /\ HeapInv(heap) /\ TrackersOK
      /\ (szTracker = <<>> <=> freqTracker = <<>>)
  BY DEF IInv, TypeOK, TrackersOK
<1>2. sz \in Nat /\ s \in Site
  BY <1>1, WorkAssumption, SizeAssumption
<1>3. PICK r \in Rooms(sz) :
         /\ heap' = AfterFree(AfterMalloc(r, sz, sz), p)
         /\ Tracked(r, sz, s)
         /\ report' \in Diagnoses(AfterMalloc(r, sz, sz), p)
  BY DEF m61_realloc
<1>4. HeapInv(heap)'
  <2>1. HeapInv(AfterFree(AfterMalloc(r, sz, sz), p))
    BY <1>1, <1>2, <1>3, MallocCall, FreeCall
  <2> QED BY <1>3, <2>1 DEF HeapInv, IsList, Births, Marks, BigEnough, Count
<1>5. TrackersOK' /\ (szTracker = <<>> <=> freqTracker = <<>>)'
  BY <1>1, <1>2, <1>3, TrackingKeepsTypes
<1>6. report' \in Report
  BY <1>3, DiagnosisIsReport
<1>7. life' \in {"running", "crashed"} /\ calls' \in Nat /\ work' = work
  BY <1>1 DEF m61_realloc, Asked, Running
<1> QED BY <1>4, <1>5, <1>6, <1>7, StepKeepsInv

\* Steps of the program and of malloc(3) on one block.
LEMMA MemoryStep ==
    ASSUME IInv, NEW a \in Address, WriteOver(a) \/ WriteUnder(a) \/ Recycle(a)
    PROVE  IInv'
<1> USE SizeAssumption, PointerAssumption
<1>1. HeapInv(heap) /\ heap.mem[a] \in BlockType /\ heap \in HeapType
  BY DEF IInv, HeapInv, HeapType
<1>2. Marks(heap)
  BY <1>1 DEF HeapInv
<1>3. \E r \in BlockType :
         /\ heap' = [heap EXCEPT !.mem = [@ EXCEPT ![a] = r]]
         /\ r.state = "active" <=> heap.mem[a].state = "active"
         /\ r.state = "active" =>
              /\ r.prv = heap.mem[a].prv /\ r.next = heap.mem[a].next
              /\ r.born = heap.mem[a].born /\ r.sz = heap.mem[a].sz
              /\ r.want = heap.mem[a].want
         /\ r.state = "freed" => r.previously_freed
         /\ r.state # "active" => ~r.self /\ ~r.backpack
         /\ r.state = "active" =>
              /\ ~r.previously_freed
              /\ r.self <=> "under" \notin r.hit
              /\ r.backpack <=> "over" \notin r.hit
  <2>1. CASE WriteOver(a)
    <3> DEFINE r == [heap.mem[a] EXCEPT !.backpack = FALSE, !.hit = @ \cup {"over"}]
    <3>1. r \in BlockType
      BY <1>1 DEF BlockType
    <3>2. heap' = [heap EXCEPT !.mem = [@ EXCEPT ![a] = r]]
      BY <2>1 DEF WriteOver
    <3>3. r.state = "active" /\ heap.mem[a].state = "active"
      BY <1>1, <2>1 DEF WriteOver, BlockType
    <3>4. /\ r.prv = heap.mem[a].prv /\ r.next = heap.mem[a].next
          /\ r.born = heap.mem[a].born /\ r.sz = heap.mem[a].sz
          /\ r.want = heap.mem[a].want
      BY <1>1 DEF BlockType
    <3>5. /\ r.previously_freed = heap.mem[a].previously_freed
          /\ r.self = heap.mem[a].self /\ r.backpack = FALSE
          /\ r.hit = heap.mem[a].hit \cup {"over"}
      BY <1>1 DEF BlockType
    <3>6. /\ ~r.previously_freed
          /\ r.self <=> "under" \notin r.hit
          /\ r.backpack <=> "over" \notin r.hit
      BY <1>2, <3>3, <3>5 DEF Marks
    <3> HIDE DEF r
    <3> QED BY <3>1, <3>2, <3>3, <3>4, <3>6
  <2>2. CASE WriteUnder(a)
    <3> DEFINE r == [heap.mem[a] EXCEPT !.self = FALSE, !.hit = @ \cup {"under"}]
    <3>1. r \in BlockType
      BY <1>1 DEF BlockType
    <3>2. heap' = [heap EXCEPT !.mem = [@ EXCEPT ![a] = r]]
      BY <2>2 DEF WriteUnder
    <3>3. r.state = "active" /\ heap.mem[a].state = "active"
      BY <1>1, <2>2 DEF WriteUnder, BlockType
    <3>4. /\ r.prv = heap.mem[a].prv /\ r.next = heap.mem[a].next
          /\ r.born = heap.mem[a].born /\ r.sz = heap.mem[a].sz
          /\ r.want = heap.mem[a].want
      BY <1>1 DEF BlockType
    <3>5. /\ r.previously_freed = heap.mem[a].previously_freed
          /\ r.backpack = heap.mem[a].backpack /\ r.self = FALSE
          /\ r.hit = heap.mem[a].hit \cup {"under"}
      BY <1>1 DEF BlockType
    <3>6. /\ ~r.previously_freed
          /\ r.self <=> "under" \notin r.hit
          /\ r.backpack <=> "over" \notin r.hit
      BY <1>2, <3>3, <3>5 DEF Marks
    <3> HIDE DEF r
    <3> QED BY <3>1, <3>2, <3>3, <3>4, <3>6
  <2>3. CASE Recycle(a)
    <3>1. PICK flag \in BOOLEAN :
             heap' = [heap EXCEPT !.mem[a] = [Unused EXCEPT !.previously_freed = flag]]
      BY <2>3 DEF Recycle
    <3> DEFINE r == [Unused EXCEPT !.previously_freed = flag]
    <3>2. r \in BlockType
      <4>1. Unused \in BlockType
        BY DEF Unused, BlockType
      <4> QED BY <4>1, Zenon DEF BlockType
    <3>3. heap' = [heap EXCEPT !.mem = [@ EXCEPT ![a] = r]]
      BY <3>1
    <3>4. r.state = "unused" /\ r.self = FALSE /\ r.backpack = FALSE
      BY DEF Unused
    <3>5. heap.mem[a].state = "freed"
      BY <2>3 DEF Recycle
    <3> HIDE DEF r
    <3> QED BY <3>2, <3>3, <3>4, <3>5
  <2> QED BY <2>1, <2>2, <2>3
<1>4. HeapInv(heap)'
  <2>1. HeapInv(heap')
    BY <1>1, <1>3, OtherBlock
  <2> QED BY <2>1 DEF HeapInv, IsList, Births, Marks, BigEnough, Count
<1>5. report' \in Report /\ life' \in {"running", "crashed"} /\ calls' \in Nat /\ work' = work
  BY DEF WriteOver, WriteUnder, Recycle, Running, Report, IInv, TypeOK
<1>6. TrackersOK' /\ (szTracker = <<>> <=> freqTracker = <<>>)'
  BY DEF WriteOver, WriteUnder, Recycle, trackerVars, TrackersOK, IInv, TypeOK
<1> QED BY <1>4, <1>5, <1>6, StepKeepsInv

LEMMA ReportStep ==
    ASSUME IInv, HeavyHitterReport
    PROVE  IInv'
<1>1. szTracker \in TrackerType /\ freqTracker \in TrackerType
  BY DEF HeavyHitterReport, printHeavyHitterReport, IInv, TypeOK
<1>2. szTracker' \in TrackerType /\ freqTracker' \in TrackerType
  BY <1>1, SortKeepsEntries DEF HeavyHitterReport, printHeavyHitterReport
<1>3. \A t \in TrackerType : t # <<>>
  <2> SUFFICES ASSUME <<>> \in TrackerType PROVE FALSE
    OBVIOUS
  <2>1. 1 \in Entry /\ DOMAIN <<>> = Entry
    BY CounterAssumption DEF Entry, TrackerType
  <2> QED BY <2>1
<1>4. TrackersOK' /\ (szTracker = <<>> <=> freqTracker = <<>>)'
  BY <1>2, <1>3 DEF HeavyHitterReport, printHeavyHitterReport, TrackersOK, IInv, TypeOK
<1>5. HeapInv(heap)'
  BY DEF HeavyHitterReport, IInv, HeapInv, IsList, Births, Marks, BigEnough, Count
<1>6. report' \in Report /\ life' \in {"running", "crashed"} /\ calls' \in Nat /\ work' = work
  BY DEF HeavyHitterReport, Running, Report, IInv, TypeOK
<1> QED BY <1>4, <1>5, <1>6, StepKeepsInv

\* Whatever the program does next, the invariant holds afterwards.
LEMMA NextInv == IInv /\ [Next]_vars => IInv'
<1> SUFFICES ASSUME IInv, [Next]_vars PROVE IInv'
  OBVIOUS
<1>1. work.addresses \subseteq Address
  BY WorkAssumption DEF IInv, TypeOK
<1>2. ASSUME NEW sz \in work.sizes, NEW s \in work.sites, m61_malloc(sz, s) PROVE IInv'
  BY <1>2, MallocStep
<1>3. ASSUME NEW sz \in work.sizes, NEW s \in work.sites, NEW n \in work.members,
             m61_calloc(n, sz, s)
      PROVE IInv'
  BY <1>3, CallocStep
<1>4. ASSUME NEW sz \in work.sizes, NEW s \in work.sites, NEW p, m61_realloc(p, sz, s)
      PROVE IInv'
  BY <1>4, ReallocStep
<1>5. ASSUME NEW p, m61_free(p) PROVE IInv'
  BY <1>5, FreeStep
<1>6. ASSUME NEW a \in work.addresses, WriteOver(a) \/ WriteUnder(a) \/ Recycle(a)
      PROVE IInv'
  BY <1>1, <1>6, MemoryStep
<1>7. CASE HeavyHitterReport
  BY <1>7, ReportStep
<1>8. CASE Crash
  BY <1>8 DEF Crash, trackerVars, IInv, TypeOK, HeapInv, IsList, Births, Marks, BigEnough, Count
<1>9. CASE UNCHANGED vars
  BY <1>9 DEF vars, IInv, TypeOK, HeapInv, IsList, Births, Marks, BigEnough, Count
<1> QED BY <1>2, <1>3, <1>4, <1>5, <1>6, <1>7, <1>8, <1>9 DEF Next

-----------------------------------------------------------------------------
(* The theorems                                                                *)

\* The allocator's blocks, links, marks and counts fit together in every state
\* that any program can reach (all of m61.c but the wording of its reports).
THEOREM HeapInvariant == Spec => []IInv
BY InitInv, NextInv, PTL DEF Spec

\* Types; active_count and the heavy hitters' counters never wrap (m61.c:11-22).
THEOREM M61TypeCorrect == Spec => []TypeOK
<1>1. IInv => TypeOK
  BY DEF IInv
<1> QED BY <1>1, HeapInvariant, PTL

\* The blocks in use form one doubly linked list that ends at lastAlloc
\* (m61.c:101-105 and 175-200): no free damages it, wherever the block is.
THEOREM ListStaysConsistent == Spec => []ListConsistent
<1>1. IInv => ListConsistent
  BY DEF IInv, HeapInv, ListConsistent
<1> QED BY <1>1, HeapInvariant, PTL

\* active_count is exact, whatever is freed twice or never (m61.c:108 and 162).
THEOREM ActiveCountIsExact == Spec => []ActiveCountExact
<1>1. IInv => ActiveCountExact
  BY DEF IInv, HeapInv, Count, ActiveCountExact, Active
<1> QED BY <1>1, HeapInvariant, PTL

\* m61_free's diagnoses are right for every block it has handed out, at however
\* often used an address (m61.c:112-119 and 133-160).
THEOREM DiagnosesAreExact == Spec => []DiagnosisExact
<1>1. IInv => DiagnosisExact
  <2> SUFFICES ASSUME IInv, NEW a \in Address
      PROVE  /\ heap.mem[a].state = "freed" => Diagnoses(heap, a) = {"double free"}
             /\ heap.mem[a].state = "active" =>
                  Diagnoses(heap, a) = {CASE heap.mem[a].hit = {} -> "none"
                                          [] heap.mem[a].hit = {"over", "under"} -> "not allocated"
                                          [] OTHER -> "wild write"}
    BY DEF DiagnosisExact
  <2>1. a # NULL /\ a # OUTSIDE /\ a # ASTRAY
    BY PointerAssumption
  <2>2. Marks(heap) /\ heap.mem[a] \in BlockType
    BY DEF IInv, HeapInv, HeapType
  <2>3. ASSUME heap.mem[a].state = "freed" PROVE Diagnoses(heap, a) = {"double free"}
    BY <2>1, <2>2, <2>3 DEF Diagnoses, Marks
  <2>4. ASSUME heap.mem[a].state = "active"
        PROVE  Diagnoses(heap, a) = {CASE heap.mem[a].hit = {} -> "none"
                                       [] heap.mem[a].hit = {"over", "under"} -> "not allocated"
                                       [] OTHER -> "wild write"}
    <3>1. ~heap.mem[a].previously_freed
          /\ (heap.mem[a].self <=> "under" \notin heap.mem[a].hit)
          /\ (heap.mem[a].backpack <=> "over" \notin heap.mem[a].hit)
      BY <2>2, <2>4 DEF Marks
    <3>2. heap.mem[a].hit \in SUBSET {"over", "under"}
      BY <2>2 DEF BlockType
    <3>3. CASE heap.mem[a].hit = {}
      BY <2>1, <3>1, <3>3 DEF Diagnoses
    <3>4. CASE heap.mem[a].hit = {"over", "under"}
      BY <2>1, <3>1, <3>4 DEF Diagnoses
    <3>5. CASE heap.mem[a].hit # {} /\ heap.mem[a].hit # {"over", "under"}
      <4>1. "under" \notin heap.mem[a].hit <=> "over" \in heap.mem[a].hit
        BY <3>2, <3>5
      <4>2. Diagnoses(heap, a) = {"wild write"}
        BY <2>1, <3>1, <4>1 DEF Diagnoses
      <4> QED BY <3>5, <4>2
    <3> QED BY <3>3, <3>4, <3>5
  <2> QED BY <2>3, <2>4
<1> QED BY <1>1, HeapInvariant, PTL

\* A block is as large as what was asked for: m61_calloc's product never wraps
\* (m61.c:223 and 228).
THEOREM BlocksLargeEnough == Spec => []NeverTooSmall
<1>1. IInv => NeverTooSmall
  BY DEF IInv, HeapInv, BigEnough, NeverTooSmall, Active
<1> QED BY <1>1, HeapInvariant, PTL

-----------------------------------------------------------------------------
(* The statistics                                                              *)

\* The sizes of the active blocks are the ones that are counted.
Balanced(h) == h.active_size = StoredSize(h)

StatInv ==
    /\ IInv
    /\ StatisticsExact

LEMMA SizesAreInts ==
    ASSUME NEW h, h \in HeapType
    PROVE  \A a \in Address : h.mem[a].sz \in Int
<1> SUFFICES ASSUME NEW a \in Address PROVE h.mem[a].sz \in Int
  OBVIOUS
<1>1. h.mem[a] \in BlockType
  BY DEF HeapType
<1> QED BY <1>1, SizeAssumption DEF BlockType

\* Steps that leave the active blocks and their sizes leave the sum.
LEMMA SameBlocksSameSize ==
    ASSUME NEW h, h \in HeapType, NEW g,
           \A b \in Address :
              /\ g.mem[b].state = "active" <=> h.mem[b].state = "active"
              /\ g.mem[b].state = "active" => g.mem[b].sz = h.mem[b].sz
    PROVE  StoredSize(g) = StoredSize(h)
<1> DEFINE f == [a \in Address |-> h.mem[a].sz]
           e == [a \in Address |-> g.mem[a].sz]
<1>1. ActiveIn(g) = ActiveIn(h)
  BY DEF ActiveIn
<1>2. \A b \in ActiveIn(h) : f[b] \in Int /\ f[b] = e[b]
  BY SizesAreInts DEF ActiveIn
<1>3. IsFiniteSet(ActiveIn(h))
  BY ActiveFinite
<1> HIDE DEF f, e
<1>4. SumFunctionOnSet(f, ActiveIn(h)) = SumFunctionOnSet(e, ActiveIn(h))
  BY <1>2, <1>3, SumSame
<1> QED BY <1>1, <1>4 DEF StoredSize, f, e

\* A failed allocation changes nothing but the counts of failures.
LEMMA FailureBooks ==
    ASSUME NEW h, h \in HeapType, Balanced(h), NEW sz
    PROVE  LET g == allocationFailedWithSize(h, sz)
           IN /\ Balanced(g)
              /\ g.fail_count = h.fail_count + 1 /\ g.total_count = h.total_count
              /\ g.total_size = h.total_size
<1> DEFINE g == allocationFailedWithSize(h, sz)
<1>1. /\ g.mem = h.mem /\ g.active_size = h.active_size
      /\ g.fail_count = h.fail_count + 1 /\ g.total_count = h.total_count
      /\ g.total_size = h.total_size
  BY Zenon DEF HeapType, allocationFailedWithSize
<1> HIDE DEF g
<1>2. StoredSize(g) = StoredSize(h)
  BY <1>1, SameBlocksSameSize
<1>3. Balanced(g)
  BY <1>1, <1>2 DEF Balanced
<1> QED BY <1>1, <1>3 DEF g

\* A new block adds its size.
LEMMA AllocationBooks ==
    ASSUME NEW h, HeapInv(h), Balanced(h), NEW a \in Address,
           h.mem[a].state # "active", NEW sz \in 0..SIZE_MAX, NEW want \in Nat, sz = want
    PROVE  LET g == Allocated(h, a, sz, want)
           IN /\ Balanced(g)
              /\ g.fail_count = h.fail_count /\ g.total_count = h.total_count + 1
              /\ g.total_size = h.total_size + sz
<1> DEFINE g == Allocated(h, a, sz, want)
           f == [b \in Address |-> h.mem[b].sz]
           e == [b \in Address |-> g.mem[b].sz]
<1> USE SizeAssumption, PointerAssumption
<1>1. h \in HeapType /\ h.mem \in [Address -> BlockType]
      /\ h.lastAlloc \in Address \cup {NULL} /\ h.active_size \in Int
  BY DEF HeapInv, HeapType
<1>2. /\ g.mem = [Joined(h, a) EXCEPT ![a] = NewBlock(h, sz, want)]
      /\ g.active_size = h.active_size + sz
      /\ g.fail_count = h.fail_count /\ g.total_count = h.total_count + 1
      /\ g.total_size = h.total_size + sz
  BY <1>1, Zenon DEF HeapType, Allocated
<1> HIDE DEF g
<1>3. /\ Joined(h, a) \in [Address -> BlockType]
      /\ \A b \in Address : /\ Joined(h, a)[b].state = h.mem[b].state
                            /\ Joined(h, a)[b].sz = h.mem[b].sz
  <2>1. CASE h.lastAlloc = NULL
    BY <1>1, <2>1 DEF Joined
  <2>2. CASE h.lastAlloc # NULL
    <3>1. Joined(h, a) = [h.mem EXCEPT ![h.lastAlloc].next = a]
      BY <2>2 DEF Joined
    <3> QED BY <1>1, <2>2, <3>1 DEF BlockType
  <2> QED BY <2>1, <2>2
<1>4. g.mem[a] = NewBlock(h, sz, want) /\ \A b \in Address \ {a} : g.mem[b] = Joined(h, a)[b]
  BY <1>2, <1>3
<1>5. ActiveIn(g) = ActiveIn(h) \cup {a} /\ a \notin ActiveIn(h)
  BY <1>3, <1>4 DEF ActiveIn, NewBlock
<1>6. e[a] = sz /\ \A b \in ActiveIn(h) : f[b] \in Int /\ f[b] = e[b]
  BY <1>1, <1>3, <1>4, <1>5, SizesAreInts DEF ActiveIn, NewBlock
<1>7. IsFiniteSet(ActiveIn(h)) /\ sz \in Int
  BY ActiveFinite
<1> HIDE DEF f, e
<1>8. /\ SumFunctionOnSet(f, ActiveIn(h)) = SumFunctionOnSet(e, ActiveIn(h))
      /\ SumFunctionOnSet(f, ActiveIn(h)) \in Int
  BY <1>6, <1>7, SumSame, SumType
<1>9. SumFunctionOnSet(e, ActiveIn(g)) = e[a] + SumFunctionOnSet(e, ActiveIn(h))
  <2>1. \A b \in ActiveIn(h) \cup {a} : e[b] \in Int
    BY <1>6, <1>7
  <2> QED BY <1>5, <1>7, <2>1, SumAdds
<1>10. StoredSize(g) = sz + StoredSize(h)
  BY <1>6, <1>8, <1>9 DEF StoredSize, f, e
<1>11. StoredSize(h) \in Int
  BY <1>8 DEF StoredSize, f
<1>12. Balanced(g)
  BY <1>1, <1>2, <1>7, <1>10, <1>11 DEF Balanced
<1> QED BY <1>2, <1>12 DEF g

\* A freed block takes its size away.
LEMMA FreeBooks ==
    ASSUME NEW h, HeapInv(h), Balanced(h), NEW p
    PROVE  LET g == AfterFree(h, p)
           IN /\ Balanced(g)
              /\ g.fail_count = h.fail_count /\ g.total_count = h.total_count
              /\ g.total_size = h.total_size
<1> USE SizeAssumption, PointerAssumption
<1>1. CASE ~(p \in Address /\ Diagnoses(h, p) \cap {"none", "wild write"} # {})
  BY <1>1 DEF AfterFree
<1>2. CASE p \in Address /\ Diagnoses(h, p) \cap {"none", "wild write"} # {}
  <2> DEFINE g == Freed(h, p)
             f == [b \in Address |-> h.mem[b].sz]
             e == [b \in Address |-> g.mem[b].sz]
  <2>1. p \in ActiveIn(h)
    <3>1. p # NULL /\ p # OUTSIDE /\ p # ASTRAY
      BY <1>2
    <3>2. h.mem[p].self \/ h.mem[p].backpack
      BY <1>2, <3>1 DEF Diagnoses
    <3> QED BY <1>2, <3>2 DEF HeapInv, Marks, ActiveIn
  <2>2. h \in HeapType /\ h.mem \in [Address -> BlockType] /\ h.active_size \in Int
    BY DEF HeapInv, HeapType
  <2>3. /\ g.mem = [Unlinked(h, p) EXCEPT ![p] = Invalid(@)]
        /\ g.active_size = h.active_size - h.mem[p].sz
        /\ g.fail_count = h.fail_count /\ g.total_count = h.total_count
        /\ g.total_size = h.total_size
    BY <2>2, Zenon DEF HeapType, Freed
  <2> HIDE DEF g
  <2>4. /\ Unlinked(h, p) \in [Address -> BlockType]
        /\ \A b \in Address : /\ Unlinked(h, p)[b].state = h.mem[b].state
                              /\ Unlinked(h, p)[b].sz = h.mem[b].sz
    <3>1. CASE Disowned(h, p)
      BY <2>2, <3>1 DEF Unlinked
    <3>2. CASE ~Disowned(h, p)
      <4> DEFINE next(b) == IF b = h.mem[p].prv THEN h.mem[p].next ELSE h.mem[b].next
                 prv(b) == IF b = h.mem[p].next THEN h.mem[p].prv ELSE h.mem[b].prv
                 moved(b) == [h.mem[b] EXCEPT !.next = next(b), !.prv = prv(b)]
      <4>1. Unlinked(h, p) = [b \in Address |-> moved(b)]
        BY <3>2, Zenon DEF Unlinked
      <4>2. ASSUME NEW b \in Address
            PROVE  next(b) \in Address \cup {NULL} /\ prv(b) \in Address \cup {NULL}
        <5>1. h.mem[b] \in BlockType /\ h.mem[p] \in BlockType
          BY <1>2, <2>2
        <5> QED BY <5>1 DEF BlockType
      <4> HIDE DEF next, prv
      <4>3. ASSUME NEW b \in Address
            PROVE  /\ moved(b) \in BlockType
                   /\ moved(b).state = h.mem[b].state /\ moved(b).sz = h.mem[b].sz
        <5>1. h.mem[b] \in BlockType
          BY <2>2
        <5> QED BY <4>2, <5>1, Zenon DEF BlockType
      <4> HIDE DEF moved
      <4> QED BY <4>1, <4>3
    <3> QED BY <3>1, <3>2
  <2>5. /\ g.mem[p].state = "freed"
        /\ \A b \in Address \ {p} : g.mem[b] = Unlinked(h, p)[b]
    <3>1. g.mem[p] = Invalid(Unlinked(h, p)[p])
      BY <1>2, <2>3, <2>4
    <3>2. Unlinked(h, p)[p] \in BlockType
      BY <1>2, <2>4
    <3>3. g.mem[p].state = "freed"
      BY <3>1, <3>2, InvalidBlock
    <3> QED BY <2>3, <2>4, <3>3
  <2>6. ActiveIn(g) = ActiveIn(h) \ {p}
    BY <2>4, <2>5 DEF ActiveIn
  <2>7. f[p] = h.mem[p].sz
        /\ \A b \in ActiveIn(h) : f[b] \in Int /\ (b # p => f[b] = e[b])
    BY <1>2, <2>2, <2>4, <2>5, SizesAreInts DEF ActiveIn
  <2>8. IsFiniteSet(ActiveIn(h)) /\ IsFiniteSet(ActiveIn(g))
    BY ActiveFinite
  <2> HIDE DEF f, e
  <2>9. /\ SumFunctionOnSet(f, ActiveIn(h)) = f[p] + SumFunctionOnSet(f, ActiveIn(g))
        /\ SumFunctionOnSet(f, ActiveIn(g)) \in Int
    BY <2>1, <2>6, <2>7, <2>8, SumRemoves, SumType
  <2>10. SumFunctionOnSet(f, ActiveIn(g)) = SumFunctionOnSet(e, ActiveIn(g))
    <3>1. \A b \in ActiveIn(g) : f[b] \in Int /\ f[b] = e[b]
      BY <2>6, <2>7
    <3> QED BY <2>8, <3>1, SumSame
  <2>11. StoredSize(h) = h.mem[p].sz + StoredSize(g) /\ StoredSize(g) \in Int
         /\ h.mem[p].sz \in Int
    BY <2>1, <2>7, <2>9, <2>10 DEF StoredSize, f, e
  <2>12. Balanced(g)
    BY <2>3, <2>11 DEF Balanced
  <2>13. AfterFree(h, p) = g
    BY <1>2 DEF AfterFree, g
  <2> QED BY <2>3, <2>12, <2>13
<1> QED BY <1>1, <1>2

\* malloc's part of a call: one more block, or one more failure.
LEMMA MallocBooks ==
    ASSUME HeapInv(heap), Balanced(heap), work \in Workloads,
           NEW sz \in Nat, NEW want \in Nat, sz = want, NEW r \in Rooms(sz)
    PROVE  LET g == AfterMalloc(r, sz, want)
           IN /\ HeapInv(g) /\ Balanced(g)
              /\ g.total_count + g.fail_count = heap.total_count + heap.fail_count + 1
              /\ g.total_size = heap.total_size + IF r = NULL THEN 0 ELSE sz
<1> USE SizeAssumption, PointerAssumption
<1>1. heap \in HeapType /\ heap.total_count \in Nat /\ heap.fail_count \in Nat
      /\ heap.total_size \in Nat
  BY DEF HeapInv, HeapType
<1>2. HeapInv(AfterMalloc(r, sz, want))
  BY MallocCall
<1>3. CASE r = NULL
  BY <1>1, <1>2, <1>3, FailureBooks DEF AfterMalloc
<1>4. CASE r # NULL
  <2>1. sz <= maximumSizeValid /\ r \in work.addresses /\ heap.mem[r].state # "active"
    BY <1>4 DEF Rooms, maximumSizeValid
  <2>2. r \in Address /\ sz \in 0..SIZE_MAX
    BY <2>1, WorkAssumption DEF maximumSizeValid
  <2> DEFINE g == Allocated(heap, r, sz, want)
  <2>3. /\ Balanced(g)
        /\ g.fail_count = heap.fail_count /\ g.total_count = heap.total_count + 1
        /\ g.total_size = heap.total_size + sz
    BY <2>1, <2>2, AllocationBooks
  <2>4. AfterMalloc(r, sz, want) = g
    BY <1>4 DEF AfterMalloc
  <2> HIDE DEF g
  <2> QED BY <1>1, <1>2, <1>4, <2>3, <2>4
<1> QED BY <1>3, <1>4

\* The bytes allocated, by site, add up to one more block's.
LEMMA TrackingBooks ==
    ASSUME allocated \in [Site -> Nat], NEW sz \in Nat, NEW s \in Site, NEW r,
           Tracked(r, sz, s)
    PROVE  SumFunctionOnSet(allocated', Site) =
              SumFunctionOnSet(allocated, Site) + IF r = NULL THEN 0 ELSE sz
<1>1. IsFiniteSet(Site)
  BY CounterAssumption
<1>2. SumFunctionOnSet(allocated, Site) \in Int
  BY <1>1, SumType
<1>3. CASE r = NULL
  BY <1>2, <1>3 DEF Tracked, trackerVars
<1>4. CASE r # NULL
  <2>1. allocated' = [allocated EXCEPT ![s] = @ + sz]
    BY <1>4 DEF Tracked, trackAllocByHH
  <2>2. /\ allocated'[s] = allocated[s] + sz
        /\ \A x \in Site : allocated[x] \in Int /\ allocated'[x] \in Int
        /\ \A x \in Site \ {s} : allocated[x] = allocated'[x]
    BY <2>1
  <2>3. SumFunctionOnSet(allocated', Site) =
           SumFunctionOnSet(allocated, Site) - allocated[s] + allocated'[s]
    BY <1>1, <2>2, SumChanges
  <2> QED BY <1>2, <1>4, <2>2, <2>3
<1> QED BY <1>3, <1>4

LEMMA InitStat == Init => StatInv
<1> SUFFICES ASSUME Init PROVE StatInv
  OBVIOUS
<1>1. IInv /\ szTracker = <<>> /\ allocated = [s \in Site |-> 0] /\ calls = 0
  BY InitInv DEF Init, TrackersInit
<1>2. ActiveIn(heap) = {} /\ heap.active_size = 0 /\ heap.total_count = 0
      /\ heap.fail_count = 0 /\ heap.total_size = 0
  BY DEF Init, ActiveIn, Unused
<1>3. StoredSize(heap) = 0
  BY <1>2, SumEmpty DEF StoredSize
<1>4. SumFunctionOnSet(allocated, Site) = 0
  <2>1. IsFiniteSet(Site) /\ \A x \in Site : allocated[x] = 0
    BY <1>1, CounterAssumption
  <2> QED BY <2>1, SumZero
<1> QED BY <1>1, <1>2, <1>3, <1>4 DEF StatInv, StatisticsExact

\* What the parts of a step come to.
LEMMA StepKeepsStat ==
    ASSUME StatInv, IInv', Balanced(heap)',
           NEW n \in Nat, calls' = calls + n,
           heap'.total_count + heap'.fail_count = heap.total_count + heap.fail_count + n,
           NEW sz \in Nat, heap'.total_size = heap.total_size + sz,
           SumFunctionOnSet(allocated', Site) = SumFunctionOnSet(allocated, Site) + sz
    PROVE  StatisticsExact'
BY DEF StatInv, StatisticsExact, Balanced


LEMMA MallocStat ==
    ASSUME StatInv, NEW sz \in work.sizes, NEW s \in work.sites, m61_malloc(sz, s)
    PROVE  StatInv'
<1>1. IInv /\ IInv' /\ HeapInv(heap) /\ Balanced(heap) /\ work \in Workloads /\ calls \in Nat
      /\ allocated \in [Site -> Nat]
  BY MallocStep DEF StatInv, StatisticsExact, Balanced, IInv, TypeOK
<1>2. sz \in Nat /\ s \in Site
  BY <1>1, WorkAssumption, SizeAssumption
<1>3. PICK r \in Rooms(sz) : heap' = AfterMalloc(r, sz, sz) /\ Tracked(r, sz, s)
  BY DEF m61_malloc
<1>4. calls' = calls + 1
  BY DEF m61_malloc, Asked
<1> DEFINE more == IF r = NULL THEN 0 ELSE sz
<1>5. /\ Balanced(heap') /\ more \in Nat
      /\ heap'.total_count + heap'.fail_count = heap.total_count + heap.fail_count + 1
      /\ heap'.total_size = heap.total_size + more
  BY <1>1, <1>2, <1>3, MallocBooks
<1>6. SumFunctionOnSet(allocated', Site) = SumFunctionOnSet(allocated, Site) + more
  BY <1>1, <1>2, <1>3, TrackingBooks
<1> HIDE DEF more
<1>7. Balanced(heap)' /\ 1 \in Nat
  BY <1>5 DEF Balanced
<1> QED BY <1>1, <1>4, <1>5, <1>6, <1>7, StepKeepsStat DEF StatInv

LEMMA CallocStat ==
    ASSUME StatInv, NEW n \in work.members, NEW sz \in work.sizes, NEW s \in work.sites,
           m61_calloc(n, sz, s)
    PROVE  StatInv'
<1>1. IInv /\ IInv' /\ HeapInv(heap) /\ Balanced(heap) /\ work \in Workloads /\ calls \in Nat
      /\ allocated \in [Site -> Nat]
  BY CallocStep DEF StatInv, StatisticsExact, Balanced, IInv, TypeOK
<1>2. sz \in Nat /\ s \in Site /\ n \in Nat /\ n > 0
  BY <1>1, WorkAssumption, SizeAssumption DEF m61_calloc
<1>3. calls' = calls + 1 /\ 1 \in Nat /\ 0 \in Nat
  BY DEF m61_calloc, Asked
<1>4. CASE TooLarge(n, sz)
  <2>1. heap' = allocationFailedWithSize(heap, sz) /\ allocated' = allocated
    BY <1>4 DEF m61_calloc, trackerVars
  <2>2. heap \in HeapType /\ heap.total_count \in Nat /\ heap.fail_count \in Nat
        /\ heap.total_size \in Nat
    BY <1>1 DEF HeapInv, HeapType
  <2>3. /\ Balanced(heap)
        /\ heap'.total_count + heap'.fail_count = heap.total_count + heap.fail_count + 1
        /\ heap'.total_size = heap.total_size + 0
        /\ Balanced(heap')
    BY <1>1, <2>1, <2>2, FailureBooks
  <2>4. SumFunctionOnSet(allocated', Site) = SumFunctionOnSet(allocated, Site) + 0
    <3>1. SumFunctionOnSet(allocated, Site) \in Int
      BY <1>1, CounterAssumption, SumType
    <3> QED BY <2>1, <3>1
  <2>5. Balanced(heap)'
    BY <2>3 DEF Balanced
  <2> QED BY <1>1, <1>3, <2>3, <2>4, <2>5, StepKeepsStat DEF StatInv
<1>5. CASE ~TooLarge(n, sz)
  <2> DEFINE product == (sz * n) % (SIZE_MAX + 1)
  <2>1. sz * n \in Nat /\ product = sz * n
    BY <1>2, <1>5, ProductFits
  <2>2. PICK r \in Rooms(product) : /\ heap' = AfterMalloc(r, product, sz * n)
                                    /\ Tracked(r, product, s)
    BY <1>5 DEF m61_calloc
  <2>3. product \in Nat
    BY <2>1
  <2> HIDE DEF product
  <2> DEFINE more == IF r = NULL THEN 0 ELSE product
  <2>4. /\ Balanced(heap') /\ more \in Nat
        /\ heap'.total_count + heap'.fail_count = heap.total_count + heap.fail_count + 1
        /\ heap'.total_size = heap.total_size + more
    BY <1>1, <2>1, <2>2, <2>3, MallocBooks
  <2>5. SumFunctionOnSet(allocated', Site) = SumFunctionOnSet(allocated, Site) + more
    BY <1>1, <1>2, <2>2, <2>3, TrackingBooks
  <2> HIDE DEF more
  <2>6. Balanced(heap)'
    BY <2>4 DEF Balanced
  <2> QED BY <1>1, <1>3, <2>4, <2>5, <2>6, StepKeepsStat DEF StatInv
<1> QED BY <1>4, <1>5

LEMMA ReallocStat ==
    ASSUME StatInv, NEW p, NEW sz \in work.sizes, NEW s \in work.sites,
           m61_realloc(p, sz, s)
    PROVE  StatInv'
<1>1. IInv /\ IInv' /\ HeapInv(heap) /\ Balanced(heap) /\ work \in Workloads /\ calls \in Nat
      /\ allocated \in [Site -> Nat]
  BY ReallocStep DEF StatInv, StatisticsExact, Balanced, IInv, TypeOK
<1>2. sz \in Nat /\ s \in Site
  BY <1>1, WorkAssumption, SizeAssumption
<1>3. PICK r \in Rooms(sz) :
         /\ heap' = AfterFree(AfterMalloc(r, sz, sz), p)
         /\ Tracked(r, sz, s)
  BY DEF m61_realloc
<1>4. calls' = calls + 1 /\ 1 \in Nat
  BY DEF m61_realloc, Asked
<1> DEFINE more == IF r = NULL THEN 0 ELSE sz
           g == AfterMalloc(r, sz, sz)
<1>5. /\ HeapInv(g) /\ Balanced(g) /\ more \in Nat
      /\ g.total_count + g.fail_count = heap.total_count + heap.fail_count + 1
      /\ g.total_size = heap.total_size + more
  BY <1>1, <1>2, <1>3, MallocBooks
<1>6. SumFunctionOnSet(allocated', Site) = SumFunctionOnSet(allocated, Site) + more
  BY <1>1, <1>2, <1>3, TrackingBooks
<1>7. heap' = AfterFree(g, p)
  BY <1>3
<1> HIDE DEF more, g
<1>8. /\ Balanced(heap')
      /\ heap'.fail_count = g.fail_count /\ heap'.total_count = g.total_count
      /\ heap'.total_size = g.total_size
  BY <1>5, <1>7, FreeBooks
<1>9. Balanced(heap)'
  BY <1>8 DEF Balanced
<1> QED BY <1>1, <1>4, <1>5, <1>6, <1>8, <1>9, StepKeepsStat DEF StatInv

\* The other steps ask for no block.
LEMMA OtherStat ==
    ASSUME StatInv, IInv', calls' = calls, allocated' = allocated,
           Balanced(heap'),
           heap'.total_count = heap.total_count, heap'.fail_count = heap.fail_count,
           heap'.total_size = heap.total_size
    PROVE  StatInv'
BY DEF StatInv, StatisticsExact, Balanced

LEMMA FreeStat ==
    ASSUME StatInv, NEW p, m61_free(p)
    PROVE  StatInv'
<1>1. IInv' /\ HeapInv(heap) /\ Balanced(heap)
  BY FreeStep DEF StatInv, StatisticsExact, Balanced, IInv
<1>2. heap' = AfterFree(heap, p) /\ calls' = calls /\ allocated' = allocated
  BY DEF m61_free, trackerVars
<1>3. /\ Balanced(heap')
      /\ heap'.total_count = heap.total_count /\ heap'.fail_count = heap.fail_count
      /\ heap'.total_size = heap.total_size
  BY <1>1, <1>2, FreeBooks
<1> QED BY <1>1, <1>2, <1>3, OtherStat

LEMMA MemoryStat ==
    ASSUME StatInv, NEW a \in Address, WriteOver(a) \/ WriteUnder(a) \/ Recycle(a)
    PROVE  StatInv'
<1>1. IInv' /\ HeapInv(heap) /\ Balanced(heap) /\ heap \in HeapType
      /\ heap.mem \in [Address -> BlockType]
  BY MemoryStep DEF StatInv, StatisticsExact, Balanced, IInv, HeapInv, HeapType
<1>2. calls' = calls /\ allocated' = allocated
  BY DEF WriteOver, WriteUnder, Recycle, trackerVars
<1>3. \E r : /\ heap' = [heap EXCEPT !.mem = [@ EXCEPT ![a] = r]]
             /\ r.state = "active" <=> heap.mem[a].state = "active"
             /\ r.state = "active" => r.sz = heap.mem[a].sz
  <2>1. heap.mem[a] \in BlockType
    BY <1>1
  <2>2. CASE WriteOver(a)
    <3> DEFINE r == [heap.mem[a] EXCEPT !.backpack = FALSE, !.hit = @ \cup {"over"}]
    <3>1. heap' = [heap EXCEPT !.mem = [@ EXCEPT ![a] = r]]
      BY <2>2 DEF WriteOver
    <3>2. r.state = heap.mem[a].state /\ r.sz = heap.mem[a].sz
      BY <2>1 DEF BlockType
    <3> HIDE DEF r
    <3> QED BY <3>1, <3>2
  <2>3. CASE WriteUnder(a)
    <3> DEFINE r == [heap.mem[a] EXCEPT !.self = FALSE, !.hit = @ \cup {"under"}]
    <3>1. heap' = [heap EXCEPT !.mem = [@ EXCEPT ![a] = r]]
      BY <2>3 DEF WriteUnder
    <3>2. r.state = heap.mem[a].state /\ r.sz = heap.mem[a].sz
      BY <2>1 DEF BlockType
    <3> HIDE DEF r
    <3> QED BY <3>1, <3>2
  <2>4. CASE Recycle(a)
    <3>1. PICK flag \in BOOLEAN :
             heap' = [heap EXCEPT !.mem[a] = [Unused EXCEPT !.previously_freed = flag]]
      BY <2>4 DEF Recycle
    <3> DEFINE r == [Unused EXCEPT !.previously_freed = flag]
    <3>2. heap' = [heap EXCEPT !.mem = [@ EXCEPT ![a] = r]]
      BY <3>1
    <3>3. r.state = "unused" /\ heap.mem[a].state = "freed"
      BY <2>4 DEF Unused, Recycle
    <3> HIDE DEF r
    <3> QED BY <3>2, <3>3
  <2> QED BY <2>2, <2>3, <2>4
<1>4. PICK r : /\ heap' = [heap EXCEPT !.mem = [@ EXCEPT ![a] = r]]
               /\ r.state = "active" <=> heap.mem[a].state = "active"
               /\ r.state = "active" => r.sz = heap.mem[a].sz
  BY <1>3
<1>5. /\ heap'.mem = [heap.mem EXCEPT ![a] = r]
      /\ heap'.active_size = heap.active_size
      /\ heap'.total_count = heap.total_count /\ heap'.fail_count = heap.fail_count
      /\ heap'.total_size = heap.total_size
  BY <1>1, <1>4, Zenon DEF HeapType
<1>6. StoredSize(heap') = StoredSize(heap)
  <2>1. heap'.mem[a] = r /\ \A b \in Address : b # a => heap'.mem[b] = heap.mem[b]
    BY <1>1, <1>5
  <2>2. \A b \in Address :
           /\ heap'.mem[b].state = "active" <=> heap.mem[b].state = "active"
           /\ heap'.mem[b].state = "active" => heap'.mem[b].sz = heap.mem[b].sz
    BY <1>4, <2>1
  <2> QED BY <1>1, <2>2, SameBlocksSameSize
<1>7. Balanced(heap')
  BY <1>1, <1>5, <1>6 DEF Balanced
<1> QED BY <1>1, <1>2, <1>5, <1>7, OtherStat

LEMMA NextStat == StatInv /\ [Next]_vars => StatInv'
<1> SUFFICES ASSUME StatInv, [Next]_vars PROVE StatInv'
  OBVIOUS
<1>1. work.addresses \subseteq Address /\ IInv' /\ Balanced(heap)
  BY WorkAssumption, NextInv DEF StatInv, IInv, TypeOK, StatisticsExact, Balanced
<1>2. ASSUME NEW sz \in work.sizes, NEW s \in work.sites, m61_malloc(sz, s) PROVE StatInv'
  BY <1>2, MallocStat
<1>3. ASSUME NEW sz \in work.sizes, NEW s \in work.sites, NEW n \in work.members,
             m61_calloc(n, sz, s)
      PROVE StatInv'
  BY <1>3, CallocStat
<1>4. ASSUME NEW sz \in work.sizes, NEW s \in work.sites, NEW p, m61_realloc(p, sz, s)
      PROVE StatInv'
  BY <1>4, ReallocStat
<1>5. ASSUME NEW p, m61_free(p) PROVE StatInv'
  BY <1>5, FreeStat
<1>6. ASSUME NEW a \in work.addresses, WriteOver(a) \/ WriteUnder(a) \/ Recycle(a)
      PROVE StatInv'
  BY <1>1, <1>6, MemoryStat
<1>7. CASE HeavyHitterReport
  <2>1. heap' = heap /\ calls' = calls /\ allocated' = allocated
    BY <1>7 DEF HeavyHitterReport, printHeavyHitterReport
  <2> QED BY <1>1, <2>1, OtherStat
<1>8. CASE Crash
  <2>1. heap' = heap /\ calls' = calls /\ allocated' = allocated
    BY <1>8 DEF Crash, trackerVars
  <2> QED BY <1>1, <2>1, OtherStat
<1>9. CASE UNCHANGED vars
  <2>1. heap' = heap /\ calls' = calls /\ allocated' = allocated
    BY <1>9 DEF vars
  <2> QED BY <1>1, <2>1, OtherStat
<1> QED BY <1>2, <1>3, <1>4, <1>5, <1>6, <1>7, <1>8, <1>9 DEF Next

\* The statistics are exact for any program, with any mistakes: one count for
\* each block asked for, the bytes by site and in all, and those in use
\* (m61.c:66-69, 107-110 and 162-164).
THEOREM StatisticsAreExact == Spec => []StatisticsExact
<1>1. Spec => []StatInv
  BY InitStat, NextStat, PTL DEF Spec
<1>2. StatInv => StatisticsExact
  BY DEF StatInv
<1> QED BY <1>1, <1>2, PTL

-----------------------------------------------------------------------------
(* The estimates of the heavy hitters                                          *)

\* d is what has been taken from every counter, so far: NUMBERCOUNTERS times from
\* what was counted, and once from what was about to be.
CountedWithin(t, d, given, total) ==
    /\ total = CountedAll(t) + (NUMBERCOUNTERS * d + d)
    /\ \A s \in Site : /\ Counted(t, s) <= given[s]
                       /\ given[s] <= Counted(t, s) + NUMBERCOUNTERS * d

CountersExact ==
    /\ szTracker = <<>> => allocated = [s \in Site |-> 0]
    /\ szTracker # <<>> =>
          \E d \in Nat : CountedWithin(szTracker, d, allocated, heap.total_size)

LEMMA CountedType ==
    ASSUME NEW t \in TrackerType
    PROVE  CountedAll(t) \in Int /\ \A s \in Site : Counted(t, s) \in Int
<1>1. \A i \in Entry : t[i].counter \in Int
  BY DEF TrackerType
<1>2. CountedAll(t) \in Int
  BY <1>1, EntryFinite, SumType DEF CountedAll
<1>3. ASSUME NEW s \in Site PROVE Counted(t, s) \in Int
  <2> DEFINE f == [i \in Entry |-> IF t[i].site = s THEN t[i].counter ELSE 0]
  <2>1. \A i \in Entry : f[i] \in Int
    BY <1>1
  <2> HIDE DEF f
  <2>2. SumFunctionOnSet(f, Entry) \in Int
    BY <2>1, EntryFinite, SumType
  <2> QED BY <2>2 DEF Counted, f
<1> QED BY <1>2, <1>3

\* A credit goes to one site, and takes no other's entry that counts anything.
LEMMA CreditCounts ==
    ASSUME NEW t \in TrackerType, NEW s \in Site, NEW n \in Nat, Usable(t, s) # {}
    PROVE  /\ CountedAll(Credit(t, s, n)) = CountedAll(t) + n
           /\ Counted(Credit(t, s, n), s) = Counted(t, s) + n
           /\ \A x \in Site \ {s} : Counted(Credit(t, s, n), x) = Counted(t, x)
<1> DEFINE k == FirstOf(Usable(t, s))
           u == Credit(t, s, n)
           c == t[k].counter
<1>1. k \in Entry /\ (t[k].site = s \/ c = 0)
  BY FirstExists DEF Usable
<1>2. \A i \in Entry : t[i].counter \in Int
  BY DEF TrackerType
<1>3. /\ u[k].counter = c + n /\ u[k].site = s
      /\ \A i \in Entry \ {k} : u[i] = t[i]
  BY <1>1 DEF Credit, TrackerType
<1>4. c \in Int /\ n \in Int
  BY <1>1, <1>2
<1> HIDE DEF k, u, c
<1>5. CountedAll(u) = CountedAll(t) + n
  <2> DEFINE f == [i \in Entry |-> t[i].counter]
             g == [i \in Entry |-> u[i].counter]
  <2>1. /\ \A i \in Entry : f[i] \in Int /\ g[i] \in Int
        /\ \A i \in Entry \ {k} : f[i] = g[i]
        /\ f[k] = c /\ g[k] = c + n
    BY <1>1, <1>2, <1>3, <1>4 DEF c
  <2> HIDE DEF f, g
  <2>2. SumFunctionOnSet(g, Entry) = SumFunctionOnSet(f, Entry) - f[k] + g[k]
        /\ SumFunctionOnSet(f, Entry) \in Int
    BY <1>1, <2>1, EntryFinite, SumChanges, SumType
  <2>3. SumFunctionOnSet(g, Entry) = SumFunctionOnSet(f, Entry) + n
    BY <1>4, <2>1, <2>2
  <2> QED BY <2>3 DEF CountedAll, f, g
<1>6. ASSUME NEW x \in Site
      PROVE  Counted(u, x) = Counted(t, x) + IF x = s THEN n ELSE 0
  <2> DEFINE f == [i \in Entry |-> IF t[i].site = x THEN t[i].counter ELSE 0]
             g == [i \in Entry |-> IF u[i].site = x THEN u[i].counter ELSE 0]
             more == IF x = s THEN n ELSE 0
  <2>1. /\ \A i \in Entry : f[i] \in Int /\ g[i] \in Int
        /\ \A i \in Entry \ {k} : f[i] = g[i]
        /\ g[k] = f[k] + more
    BY <1>1, <1>2, <1>3, <1>4 DEF c
  <2>2. more \in Int /\ f[k] \in Int
    BY <1>1, <1>4, <2>1
  <2> HIDE DEF f, g, more
  <2>3. SumFunctionOnSet(g, Entry) = SumFunctionOnSet(f, Entry) - f[k] + g[k]
        /\ SumFunctionOnSet(f, Entry) \in Int
    BY <1>1, <2>1, EntryFinite, SumChanges, SumType
  <2>4. SumFunctionOnSet(g, Entry) = SumFunctionOnSet(f, Entry) + more
    BY <2>1, <2>2, <2>3
  <2> QED BY <2>4 DEF Counted, f, g, more
<1>7. \A x \in Site : Counted(t, x) \in Int
  BY CountedType
<1> QED BY <1>5, <1>6, <1>7 DEF u

\* What is taken from all entries alike is missing NUMBERCOUNTERS times, and no
\* site misses more.
LEMMA SubtractCounts ==
    ASSUME NEW t \in TrackerType, NEW n \in Nat, \A i \in Entry : n <= t[i].counter
    PROVE  /\ CountedAll(t) = CountedAll(Subtract(t, n)) + NUMBERCOUNTERS * n
           /\ \A x \in Site : /\ Counted(Subtract(t, n), x) <= Counted(t, x)
                              /\ Counted(t, x) <= Counted(Subtract(t, n), x) + NUMBERCOUNTERS * n
           /\ \A x \in Site : (\A i \in Entry : t[i].site # x) =>
                                 Counted(Subtract(t, n), x) = Counted(t, x)
<1> DEFINE u == Subtract(t, n)
<1>1. \A i \in Entry : /\ t[i].counter \in Int /\ u[i].counter = t[i].counter - n
                       /\ u[i].site = t[i].site
  BY SubtractType DEF TrackerType, Subtract
<1>2. NUMBERCOUNTERS \in Int /\ n \in Int /\ NUMBERCOUNTERS * n \in Int
      /\ n * NUMBERCOUNTERS = NUMBERCOUNTERS * n
  BY CounterAssumption
<1>3. u \in TrackerType
  BY SubtractType
<1> HIDE DEF u
<1>4. CountedAll(t) \in Int /\ \A x \in Site : Counted(t, x) \in Int /\ Counted(u, x) \in Int
  BY <1>3, CountedType
<1>5. CountedAll(t) = CountedAll(u) + NUMBERCOUNTERS * n
  <2> DEFINE f == [i \in Entry |-> t[i].counter]
             g == [i \in Entry |-> u[i].counter]
  <2>1. \A i \in Entry : f[i] \in Int /\ g[i] = f[i] - n
    BY <1>1
  <2> HIDE DEF f, g
  <2>2. SumFunctionOnSet(g, Entry) = SumFunctionOnSet(f, Entry) - n * NUMBERCOUNTERS
    BY <1>2, <2>1, EntryFinite, SumShifts
  <2>3. CountedAll(u) = CountedAll(t) - n * NUMBERCOUNTERS
    BY <2>2 DEF CountedAll, f, g
  <2> QED BY <1>2, <1>4, <2>3
<1>6. ASSUME NEW x \in Site
      PROVE  /\ Counted(u, x) <= Counted(t, x)
             /\ Counted(t, x) <= Counted(u, x) + NUMBERCOUNTERS * n
             /\ (\A i \in Entry : t[i].site # x) => Counted(u, x) = Counted(t, x)
  <2> DEFINE f == [i \in Entry |-> IF t[i].site = x THEN t[i].counter ELSE 0]
             g == [i \in Entry |-> IF u[i].site = x THEN u[i].counter ELSE 0]
             b == [i \in Entry |-> f[i] - n]
  <2>1. \A i \in Entry : /\ f[i] \in Int /\ g[i] \in Int /\ b[i] \in Int
                         /\ g[i] <= f[i] /\ b[i] = f[i] - n /\ b[i] <= g[i]
    BY <1>1
  <2>2. (\A i \in Entry : t[i].site # x) => \A i \in Entry : f[i] = g[i]
    BY <1>1
  <2> HIDE DEF f, g, b
  <2>3. SumFunctionOnSet(g, Entry) <= SumFunctionOnSet(f, Entry)
    BY <2>1, EntryFinite, SumGrows
  <2>4. SumFunctionOnSet(b, Entry) <= SumFunctionOnSet(g, Entry)
    BY <2>1, EntryFinite, SumGrows
  <2>5. SumFunctionOnSet(b, Entry) = SumFunctionOnSet(f, Entry) - n * NUMBERCOUNTERS
    BY <1>2, <2>1, EntryFinite, SumShifts
  <2>6. (\A i \in Entry : t[i].site # x) =>
           SumFunctionOnSet(f, Entry) = SumFunctionOnSet(g, Entry)
    BY <2>1, <2>2, EntryFinite, SumSame
  <2>7. Counted(t, x) = SumFunctionOnSet(f, Entry) /\ Counted(u, x) = SumFunctionOnSet(g, Entry)
    BY DEF Counted, f, g
  <2> QED BY <1>2, <1>4, <2>3, <2>4, <2>5, <2>6, <2>7
<1> QED BY <1>5, <1>6 DEF u

\* An allocation of n bytes keeps the account, whichever way it is counted.
LEMMA UpdateCounts ==
    ASSUME NEW t \in TrackerType, NEW s \in Site, NEW n \in Nat, NEW d \in Nat,
           NEW given \in [Site -> Nat], NEW total \in Nat,
           CountedWithin(t, d, given, total)
    PROVE  \E e \in Nat :
              CountedWithin(updateCounters(t, n, s), e, [given EXCEPT ![s] = @ + n], total + n)
<1> DEFINE u == updateCounters(t, n, s)
           now == [given EXCEPT ![s] = @ + n]
<1>1. /\ now[s] = given[s] + n /\ \A x \in Site \ {s} : now[x] = given[x]
      /\ \A x \in Site : given[x] \in Int /\ now[x] \in Int
  OBVIOUS
<1>2. /\ CountedAll(t) \in Int /\ \A x \in Site : Counted(t, x) \in Int
      /\ u \in TrackerType /\ CountedAll(u) \in Int
      /\ \A x \in Site : Counted(u, x) \in Int
  BY CountersStayCounters, CountedType
<1>3. /\ total = CountedAll(t) + (NUMBERCOUNTERS * d + d)
      /\ \A x \in Site : /\ Counted(t, x) <= given[x]
                         /\ given[x] <= Counted(t, x) + NUMBERCOUNTERS * d
  BY DEF CountedWithin
<1>4. NUMBERCOUNTERS * d \in Nat /\ NUMBERCOUNTERS \in Nat
  BY CounterAssumption
\* What it comes to when each counter goes down by m first.
<1>5. ASSUME NEW m \in Nat, m <= n,
             CountedAll(u) = CountedAll(t) - NUMBERCOUNTERS * m + (n - m),
             Counted(t, s) + (n - m) = Counted(u, s),
             \A x \in Site \ {s} : /\ Counted(u, x) <= Counted(t, x)
                                   /\ Counted(t, x) <= Counted(u, x) + NUMBERCOUNTERS * m
      PROVE  CountedWithin(u, d + m, now, total + n)
  <2> HIDE DEF u, now
  <2>1. NUMBERCOUNTERS * (d + m) = NUMBERCOUNTERS * d + NUMBERCOUNTERS * m
        /\ NUMBERCOUNTERS * m \in Nat /\ m <= NUMBERCOUNTERS * m
    <3>1. NUMBERCOUNTERS * m \in Nat /\ NUMBERCOUNTERS * (d + m) = NUMBERCOUNTERS * d + NUMBERCOUNTERS * m
      BY <1>4
    <3>2. NUMBERCOUNTERS - 1 \in Nat
      BY CounterAssumption
    <3>3. (NUMBERCOUNTERS - 1) * m \in Nat
      BY <3>2
    <3>4. (NUMBERCOUNTERS - 1) * m = NUMBERCOUNTERS * m - m
      BY <1>4
    <3> QED BY <3>1, <3>3, <3>4
  <2> DEFINE nd == NUMBERCOUNTERS * d
             nm == NUMBERCOUNTERS * m
             ndm == NUMBERCOUNTERS * (d + m)
  <2>2. nd \in Nat /\ nm \in Nat /\ ndm = nd + nm /\ m <= nm
    BY <1>4, <2>1
  <2>3. /\ total = CountedAll(t) + (nd + d)
        /\ CountedAll(u) = CountedAll(t) - nm + (n - m)
        /\ \A x \in Site : Counted(t, x) <= given[x] /\ given[x] <= Counted(t, x) + nd
        /\ \A x \in Site \ {s} : /\ Counted(u, x) <= Counted(t, x)
                                 /\ Counted(t, x) <= Counted(u, x) + nm
    BY <1>3, <1>5
  <2> HIDE DEF nd, nm, ndm
  <2>4. total + n = CountedAll(u) + (ndm + (d + m))
    BY <1>2, <2>2, <2>3
  <2>5. ASSUME NEW x \in Site
        PROVE  Counted(u, x) <= now[x] /\ now[x] <= Counted(u, x) + ndm
    <3>1. CASE x = s
      BY <1>1, <1>2, <1>5, <2>2, <2>3, <3>1
    <3>2. CASE x # s
      BY <1>1, <1>2, <2>2, <2>3, <3>2
    <3> QED BY <3>1, <3>2
  <2> QED BY <2>4, <2>5 DEF CountedWithin, ndm
<1>6. CASE Usable(t, s) # {}
  <2>1. u = Credit(t, s, n)
    BY <1>6 DEF updateCounters
  <2>2. /\ CountedAll(u) = CountedAll(t) + n /\ Counted(u, s) = Counted(t, s) + n
        /\ \A x \in Site \ {s} : Counted(u, x) = Counted(t, x)
    BY <1>6, <2>1, CreditCounts
  <2>3. NUMBERCOUNTERS * 0 = 0 /\ 0 \in Nat /\ 0 <= n
    BY <1>4
  <2> HIDE DEF u, now
  <2>4. /\ CountedAll(u) = CountedAll(t) - NUMBERCOUNTERS * 0 + (n - 0)
        /\ Counted(t, s) + (n - 0) = Counted(u, s)
        /\ \A x \in Site \ {s} : /\ Counted(u, x) <= Counted(t, x)
                                 /\ Counted(t, x) <= Counted(u, x) + NUMBERCOUNTERS * 0
    BY <1>2, <2>2, <2>3
  <2>5. CountedWithin(u, d + 0, now, total + n)
    BY <1>5, <2>3, <2>4
  <2>6. d + 0 \in Nat
    OBVIOUS
  <2> QED BY <2>5, <2>6 DEF u, now
<1>7. CASE Usable(t, s) = {}
  <2>1. \A i \in Entry : t[i].site # s
    BY <1>7 DEF Usable
  <2>2. /\ Least(t) \in Nat /\ \A i \in Entry : t[i].counter \in Nat
        /\ \A i \in Entry : Least(t) <= t[i].counter
    BY LeastCounter DEF TrackerType
  <2>3. CASE n <= Least(t)
    <3>1. u = Subtract(t, n)
      BY <1>7, <2>3 DEF updateCounters
    <3>2. \A i \in Entry : n <= t[i].counter
      BY <2>2, <2>3
    <3>3. /\ CountedAll(t) = CountedAll(u) + NUMBERCOUNTERS * n
          /\ Counted(u, s) = Counted(t, s)
          /\ \A x \in Site : /\ Counted(u, x) <= Counted(t, x)
                             /\ Counted(t, x) <= Counted(u, x) + NUMBERCOUNTERS * n
      BY <2>1, <3>1, <3>2, SubtractCounts
    <3>4. NUMBERCOUNTERS * n \in Nat /\ n <= n
      BY <1>4
    <3> HIDE DEF u, now
    <3>5. /\ CountedAll(u) = CountedAll(t) - NUMBERCOUNTERS * n + (n - n)
          /\ Counted(t, s) + (n - n) = Counted(u, s)
      BY <1>2, <3>3, <3>4
    <3>6. CountedWithin(u, d + n, now, total + n)
      BY <1>5, <3>3, <3>4, <3>5
    <3>7. d + n \in Nat
      OBVIOUS
    <3> QED BY <3>6, <3>7 DEF u, now
  <2>4. CASE ~(n <= Least(t))
    <3> DEFINE m == Least(t)
               v == Subtract(t, m)
               k == n - m
    <3>1. u = Credit(v, s, k)
      BY <1>7, <2>4 DEF updateCounters
    <3>2. m \in Nat /\ k \in Nat /\ m <= n /\ \A i \in Entry : m <= t[i].counter
      BY <2>2, <2>4
    <3>3. Usable(v, s) # {} /\ v \in TrackerType
      <4>1. PICK i \in Entry : m = t[i].counter
        BY LeastCounter
      <4> HIDE DEF m
      <4>2. v \in TrackerType /\ v[i].counter = t[i].counter - m
        BY <3>2, SubtractType
      <4>3. v[i].counter = 0
        BY <2>2, <4>1, <4>2
      <4> QED BY <4>2, <4>3 DEF Usable
    <3> HIDE DEF m
    <3>4. /\ CountedAll(t) = CountedAll(v) + NUMBERCOUNTERS * m
          /\ Counted(v, s) = Counted(t, s)
          /\ \A x \in Site : /\ Counted(v, x) <= Counted(t, x)
                             /\ Counted(t, x) <= Counted(v, x) + NUMBERCOUNTERS * m
      BY <2>1, <3>2, SubtractCounts
    <3> HIDE DEF v, k
    <3>5. /\ CountedAll(u) = CountedAll(v) + k /\ Counted(u, s) = Counted(v, s) + k
          /\ \A x \in Site \ {s} : Counted(u, x) = Counted(v, x)
      BY <3>1, <3>2, <3>3, CreditCounts
    <3>6. NUMBERCOUNTERS * m \in Nat /\ k = n - m /\ CountedAll(v) \in Int
      BY <1>4, <3>2, <3>3, CountedType DEF k
    <3> HIDE DEF u, now
    <3>7. /\ CountedAll(u) = CountedAll(t) - NUMBERCOUNTERS * m + (n - m)
          /\ Counted(t, s) + (n - m) = Counted(u, s)
          /\ \A x \in Site \ {s} : /\ Counted(u, x) <= Counted(t, x)
                                   /\ Counted(t, x) <= Counted(u, x) + NUMBERCOUNTERS * m
      BY <1>2, <3>4, <3>5, <3>6
    <3>8. CountedWithin(u, d + m, now, total + n)
      BY <1>5, <3>2, <3>7
    <3>9. d + m \in Nat
      BY <3>2
    <3> QED BY <3>8, <3>9 DEF u, now
  <2> QED BY <2>3, <2>4
<1> QED BY <1>6, <1>7

\* Sorting moves the entries and changes none.
LEMMA SortCounts ==
    ASSUME NEW t \in TrackerType
    PROVE  /\ CountedAll(sortHitTracker(t)) = CountedAll(t)
           /\ \A x \in Site : Counted(sortHitTracker(t), x) = Counted(t, x)
<1> DEFINE perm == [k \in Entry |-> CHOOSE i \in Entry : Place(t, i) = k]
           u == sortHitTracker(t)
<1>1. \A k \in Entry : perm[k] \in Entry /\ Place(t, perm[k]) = k
  BY PlacesAreTaken
<1>2. \A k \in Entry : u[k] = t[perm[k]]
  BY DEF sortHitTracker
<1>3. perm \in [Entry -> Entry]
  BY <1>1
<1> HIDE DEF perm, u
<1>4. \A k, l \in Entry : perm[k] = perm[l] => k = l
  BY <1>1
<1>5. {perm[k] : k \in Entry} = Entry
  <2>1. perm \in Injection(Entry, Entry)
    BY <1>3, <1>4 DEF Injection, IsInjective
  <2>2. perm \in Surjection(Entry, Entry)
    BY <2>1, EntryFinite, FS_Injection
  <2> QED BY <1>3, <2>2 DEF Surjection
<1>6. \A i \in Entry : t[i].counter \in Int
  BY DEF TrackerType
<1>7. ASSUME NEW f, NEW g, \A i \in Entry : f[i] \in Int /\ g[i] = f[perm[i]]
      PROVE  SumFunctionOnSet(g, Entry) = SumFunctionOnSet(f, Entry)
  <2>1. SumFunctionOnSet(g, Entry) = SumFunctionOnSet(f, {perm[k] : k \in Entry})
    BY <1>3, <1>4, <1>7, EntryFinite, SumPermutes
  <2> QED BY <1>5, <2>1
<1>8. CountedAll(u) = CountedAll(t)
  <2> DEFINE f == [i \in Entry |-> t[i].counter]
             g == [i \in Entry |-> u[i].counter]
  <2>1. /\ \A i \in Entry : f[i] \in Int
        /\ \A i \in Entry : g[i] = f[perm[i]]
    BY <1>1, <1>2, <1>6
  <2> HIDE DEF f, g
  <2>2. SumFunctionOnSet(g, Entry) = SumFunctionOnSet(f, Entry)
    BY <1>7, <2>1
  <2> QED BY <2>2 DEF CountedAll, f, g
<1>9. ASSUME NEW x \in Site PROVE Counted(u, x) = Counted(t, x)
  <2> DEFINE f == [i \in Entry |-> IF t[i].site = x THEN t[i].counter ELSE 0]
             g == [i \in Entry |-> IF u[i].site = x THEN u[i].counter ELSE 0]
  <2>1. /\ \A i \in Entry : f[i] \in Int
        /\ \A i \in Entry : g[i] = f[perm[i]]
    BY <1>1, <1>2, <1>6
  <2> HIDE DEF f, g
  <2>2. SumFunctionOnSet(g, Entry) = SumFunctionOnSet(f, Entry)
    BY <1>7, <2>1
  <2> QED BY <2>2 DEF Counted, f, g
<1> QED BY <1>8, <1>9 DEF u

\* Every allocation is tracked with the bytes that total_size grows by.
LEMMA AskedBytes ==
    ASSUME IInv, StatisticsExact, NEW sz \in work.sizes, NEW s \in work.sites,
           \/ m61_malloc(sz, s)
           \/ \E n \in work.members : m61_calloc(n, sz, s)
           \/ \E p : m61_realloc(p, sz, s)
    PROVE  /\ s \in Site
           /\ \E z \in Nat : \E r : /\ Tracked(r, z, s)
                                    /\ heap'.total_size = heap.total_size + IF r = NULL THEN 0 ELSE z
<1>1. HeapInv(heap) /\ Balanced(heap) /\ work \in Workloads /\ heap \in HeapType
      /\ heap.total_size \in Nat
  BY DEF StatisticsExact, Balanced, IInv, TypeOK, HeapType
<1>2. sz \in Nat /\ s \in Site
  BY <1>1, WorkAssumption, SizeAssumption
<1>3. CASE m61_malloc(sz, s)
  <2>1. PICK r \in Rooms(sz) : heap' = AfterMalloc(r, sz, sz) /\ Tracked(r, sz, s)
    BY <1>3 DEF m61_malloc
  <2>2. heap'.total_size = heap.total_size + IF r = NULL THEN 0 ELSE sz
    BY <1>1, <1>2, <2>1, MallocBooks
  <2> QED BY <1>2, <2>1, <2>2
<1>4. ASSUME NEW n \in work.members, m61_calloc(n, sz, s)
      PROVE  \E z \in Nat : \E r : /\ Tracked(r, z, s)
                                   /\ heap'.total_size = heap.total_size + IF r = NULL THEN 0 ELSE z
  <2>1. n \in Nat /\ n > 0
    BY <1>1, <1>4, WorkAssumption DEF m61_calloc
  <2>2. CASE TooLarge(n, sz)
    <3>1. heap' = allocationFailedWithSize(heap, sz) /\ UNCHANGED trackerVars
      BY <1>4, <2>2 DEF m61_calloc
    <3>2. Tracked(NULL, 0, s)
      BY <3>1 DEF Tracked
    <3>3. heap'.total_size = heap.total_size + 0
      BY <1>1, <3>1, FailureBooks
    <3> QED BY <3>2, <3>3
  <2>3. CASE ~TooLarge(n, sz)
    <3> DEFINE product == (sz * n) % (SIZE_MAX + 1)
    <3>1. sz * n \in Nat /\ product = sz * n
      BY <1>2, <2>1, <2>3, ProductFits
    <3>2. PICK r \in Rooms(product) : /\ heap' = AfterMalloc(r, product, sz * n)
                                      /\ Tracked(r, product, s)
      BY <1>4, <2>3 DEF m61_calloc
    <3>3. product \in Nat
      BY <3>1
    <3> HIDE DEF product
    <3>4. heap'.total_size = heap.total_size + IF r = NULL THEN 0 ELSE product
      BY <1>1, <3>1, <3>2, <3>3, MallocBooks
    <3> QED BY <3>2, <3>3, <3>4
  <2> QED BY <2>2, <2>3
<1>5. ASSUME NEW p, m61_realloc(p, sz, s)
      PROVE  \E z \in Nat : \E r : /\ Tracked(r, z, s)
                                   /\ heap'.total_size = heap.total_size + IF r = NULL THEN 0 ELSE z
  <2> DEFINE g(r) == AfterMalloc(r, sz, sz)
  <2>1. PICK r \in Rooms(sz) : heap' = AfterFree(g(r), p) /\ Tracked(r, sz, s)
    BY <1>5 DEF m61_realloc
  <2>2. /\ HeapInv(g(r)) /\ Balanced(g(r))
        /\ g(r).total_size = heap.total_size + IF r = NULL THEN 0 ELSE sz
    BY <1>1, <1>2, <2>1, MallocBooks
  <2> HIDE DEF g
  <2>3. heap'.total_size = g(r).total_size
    BY <2>1, <2>2, FreeBooks
  <2> QED BY <1>2, <2>1, <2>2, <2>3
<1> QED BY <1>2, <1>3, <1>4, <1>5

LEMMA TrackersAreNotEmpty == \A t \in TrackerType : t # <<>>
<1> SUFFICES ASSUME <<>> \in TrackerType PROVE FALSE
  OBVIOUS
<1>1. 1 \in Entry /\ DOMAIN <<>> = Entry
  BY CounterAssumption DEF Entry, TrackerType
<1> QED BY <1>1

\* The first allocation starts from counters that hold nothing.
LEMMA ZeroedCounts ==
    ASSUME allocated = [s \in Site |-> 0]
    PROVE  Zeroed \in TrackerType /\ CountedWithin(Zeroed, 0, allocated, 0)
<1>1. Zeroed \in TrackerType /\ \A i \in Entry : Zeroed[i].counter = 0
  BY DEF Zeroed, TrackerType
<1>2. CountedAll(Zeroed) = 0
  <2> DEFINE f == [i \in Entry |-> Zeroed[i].counter]
  <2>1. \A i \in Entry : f[i] = 0
    BY <1>1
  <2> HIDE DEF f
  <2>2. SumFunctionOnSet(f, Entry) = 0
    BY <2>1, EntryFinite, SumZero
  <2> QED BY <2>2 DEF CountedAll, f
<1>3. ASSUME NEW s \in Site PROVE Counted(Zeroed, s) = 0
  <2> DEFINE f == [i \in Entry |-> IF Zeroed[i].site = s THEN Zeroed[i].counter ELSE 0]
  <2>1. \A i \in Entry : f[i] = 0
    BY <1>1
  <2> HIDE DEF f
  <2>2. SumFunctionOnSet(f, Entry) = 0
    BY <2>1, EntryFinite, SumZero
  <2> QED BY <2>2 DEF Counted, f
<1>4. NUMBERCOUNTERS * 0 = 0
  BY CounterAssumption
<1> QED BY <1>1, <1>2, <1>3, <1>4 DEF CountedWithin

LEMMA TrackingKeepsCounters ==
    ASSUME StatInv, CountersExact, NEW s \in Site, NEW z \in Nat, NEW r, Tracked(r, z, s),
           heap'.total_size = heap.total_size + IF r = NULL THEN 0 ELSE z
    PROVE  CountersExact'
<1>1. /\ allocated \in [Site -> Nat] /\ szTracker \in TrackerType \cup {<<>>}
      /\ heap.total_size \in Nat /\ heap.total_size = SumFunctionOnSet(allocated, Site)
  BY DEF StatInv, IInv, TypeOK, HeapType, StatisticsExact
<1>2. CASE r = NULL
  <2>1. szTracker' = szTracker /\ allocated' = allocated
        /\ heap'.total_size = heap.total_size
    BY <1>1, <1>2 DEF Tracked, trackerVars
  <2> QED BY <2>1 DEF CountersExact
<1>3. CASE r # NULL
  <2> DEFINE t == IF szTracker = <<>> THEN Zeroed ELSE szTracker
  <2>1. /\ szTracker' = updateCounters(t, z, s)
        /\ allocated' = [allocated EXCEPT ![s] = @ + z]
        /\ heap'.total_size = heap.total_size + z
    BY <1>3 DEF Tracked, trackAllocByHH
  <2>2. t \in TrackerType /\ \E d \in Nat : CountedWithin(t, d, allocated, heap.total_size)
    <3>1. CASE szTracker = <<>>
      <4>1. allocated = [x \in Site |-> 0]
        BY <3>1 DEF CountersExact
      <4>2. heap.total_size = 0
        <5>1. IsFiniteSet(Site) /\ \A x \in Site : allocated[x] = 0
          BY <4>1, CounterAssumption
        <5> QED BY <1>1, <5>1, SumZero
      <4>3. Zeroed \in TrackerType /\ CountedWithin(Zeroed, 0, allocated, heap.total_size)
        BY <4>1, <4>2, ZeroedCounts
      <4> QED BY <3>1, <4>3
    <3>2. CASE szTracker # <<>>
      BY <1>1, <3>2 DEF CountersExact
    <3> QED BY <3>1, <3>2
  <2> HIDE DEF t
  <2>3. PICK d \in Nat : CountedWithin(t, d, allocated, heap.total_size)
    BY <2>2
  <2>4. PICK e \in Nat : CountedWithin(szTracker', e, allocated', heap'.total_size)
    <3>1. \E e \in Nat : CountedWithin(updateCounters(t, z, s), e,
                                      [allocated EXCEPT ![s] = @ + z], heap.total_size + z)
      <4>1. heap.total_size \in Nat /\ allocated \in [Site -> Nat] /\ t \in TrackerType
        BY <1>1, <2>2
      <4> DEFINE total == heap.total_size
      <4>2. total \in Nat /\ CountedWithin(t, d, allocated, total)
        BY <1>1, <2>3
      <4> HIDE DEF total
      <4>3. \E e \in Nat : CountedWithin(updateCounters(t, z, s), e,
                                        [allocated EXCEPT ![s] = @ + z], total + z)
        BY <4>1, <4>2, UpdateCounts
      <4> QED BY <4>3 DEF total
    <3> QED BY <2>1, <3>1
  <2>5. szTracker' # <<>>
    BY <2>1, <2>2, CountersStayCounters, TrackersAreNotEmpty
  <2>6. CountedWithin(szTracker, e, allocated, heap.total_size)'
    BY <2>4 DEF CountedWithin, CountedAll, Counted
  <2> QED BY <2>5, <2>6 DEF CountersExact
<1> QED BY <1>2, <1>3

CountInv == StatInv /\ CountersExact

LEMMA InitCount == Init => CountInv
BY InitStat DEF Init, TrackersInit, CountInv, CountersExact

LEMMA NextCount == CountInv /\ [Next]_vars => CountInv'
<1> SUFFICES ASSUME CountInv, [Next]_vars PROVE CountersExact'
  BY NextStat DEF CountInv
<1>1. StatInv /\ CountersExact /\ IInv /\ StatisticsExact
  BY DEF CountInv, StatInv
<1>2. ASSUME NEW sz \in work.sizes, NEW s \in work.sites,
             \/ m61_malloc(sz, s)
             \/ \E n \in work.members : m61_calloc(n, sz, s)
             \/ \E p : m61_realloc(p, sz, s)
      PROVE  CountersExact'
  <2>1. s \in Site /\ \E z \in Nat : \E r :
           /\ Tracked(r, z, s)
           /\ heap'.total_size = heap.total_size + IF r = NULL THEN 0 ELSE z
    BY <1>1, <1>2, AskedBytes
  <2>2. PICK z \in Nat : \E r :
           /\ Tracked(r, z, s)
           /\ heap'.total_size = heap.total_size + IF r = NULL THEN 0 ELSE z
    BY <2>1
  <2>3. PICK r : /\ Tracked(r, z, s)
                 /\ heap'.total_size = heap.total_size + IF r = NULL THEN 0 ELSE z
    BY <2>2
  <2> QED BY <1>1, <2>1, <2>3, TrackingKeepsCounters
\* The other steps leave total_size, and the trackers but for their order.
<1>3. ASSUME szTracker' = szTracker, allocated' = allocated,
             heap'.total_size = heap.total_size
      PROVE  CountersExact'
  BY <1>1, <1>3 DEF CountersExact
<1>4. ASSUME NEW p, m61_free(p) PROVE CountersExact'
  <2>1. HeapInv(heap) /\ Balanced(heap) /\ heap' = AfterFree(heap, p)
    BY <1>1, <1>4 DEF IInv, StatisticsExact, Balanced, m61_free
  <2>2. heap'.total_size = heap.total_size
    BY <2>1, FreeBooks
  <2> QED BY <1>3, <1>4, <2>2 DEF m61_free, trackerVars
<1>5. ASSUME NEW a, WriteOver(a) \/ WriteUnder(a) \/ Recycle(a) PROVE CountersExact'
  <2>1. \E m : heap' = [heap EXCEPT !.mem = m]
    BY <1>5 DEF WriteOver, WriteUnder, Recycle
  <2>2. heap \in HeapType
    BY <1>1 DEF IInv, TypeOK
  <2>3. heap'.total_size = heap.total_size
    BY <2>1, <2>2 DEF HeapType
  <2> QED BY <1>3, <1>5, <2>3 DEF WriteOver, WriteUnder, Recycle, trackerVars
<1>6. CASE HeavyHitterReport
  <2>1. /\ szTracker # <<>> /\ szTracker' = sortHitTracker(szTracker)
        /\ allocated' = allocated /\ heap' = heap
    BY <1>6 DEF HeavyHitterReport, printHeavyHitterReport
  <2>2. szTracker \in TrackerType
    BY <1>1, <2>1 DEF IInv, TypeOK
  <2>3. PICK d \in Nat : CountedWithin(szTracker, d, allocated, heap.total_size)
    BY <1>1, <2>1 DEF CountersExact
  <2>4. /\ CountedAll(szTracker') = CountedAll(szTracker)
        /\ \A x \in Site : Counted(szTracker', x) = Counted(szTracker, x)
        /\ szTracker' # <<>>
    BY <2>1, <2>2, SortCounts, SortKeepsEntries, TrackersAreNotEmpty
  <2>5. CountedWithin(szTracker', d, allocated', heap'.total_size)
    BY <2>1, <2>3, <2>4 DEF CountedWithin
  <2>6. CountedWithin(szTracker, d, allocated, heap.total_size)'
    BY <2>5 DEF CountedWithin, CountedAll, Counted
  <2> QED BY <2>4, <2>6 DEF CountersExact
<1>7. CASE Crash
  BY <1>3, <1>7 DEF Crash, trackerVars
<1>8. CASE UNCHANGED vars
  BY <1>3, <1>8 DEF vars
<1> QED BY <1>2, <1>4, <1>5, <1>6, <1>7, <1>8 DEF Next

LEMMA Multiples ==
    ASSUME NEW m \in Nat, m > 0, NEW d \in Nat
    PROVE  (d * m) \div m = d /\ (d * m) % m = 0
<1>1. (d * m) \div m = d
  OBVIOUS
<1>2. (d * m) % m = 0
  OBVIOUS
<1> QED BY <1>1, <1>2

\* The estimates of the heavy hitter report are never above the truth, and below
\* it by no more than what was taken from all counters; that is what they and
\* total_size show it to be, for any number of counters and sites, however often
\* they are sorted (m61.c:276-290 and 308-335).
THEOREM CountsAreBounded == Spec => []CountsBounded
<1>1. Spec => []CountInv
  BY InitCount, NextCount, PTL DEF Spec
<1>2. CountInv => CountsBounded
  <2> SUFFICES ASSUME CountInv, szTracker # <<>>
      PROVE  LET uncounted == heap.total_size - CountedAll(szTracker)
                 subtracted == uncounted \div (NUMBERCOUNTERS + 1)
             IN /\ uncounted % (NUMBERCOUNTERS + 1) = 0
                /\ \A s \in Site :
                      /\ Counted(szTracker, s) <= allocated[s]
                      /\ allocated[s] <= Counted(szTracker, s) + NUMBERCOUNTERS * subtracted
    BY DEF CountsBounded
  <2> DEFINE uncounted == heap.total_size - CountedAll(szTracker)
             m == NUMBERCOUNTERS + 1
  <2>1. PICK d \in Nat : CountedWithin(szTracker, d, allocated, heap.total_size)
    BY DEF CountInv, CountersExact
  <2>2. CountedAll(szTracker) \in Int
    BY CountedType DEF CountInv, StatInv, IInv, TypeOK
  <2>3. m \in Nat /\ m > 0 /\ d * m = NUMBERCOUNTERS * d + d /\ NUMBERCOUNTERS * d \in Nat
    BY CounterAssumption
  <2>4. uncounted = d * m
    BY <2>1, <2>2, <2>3 DEF CountedWithin
  <2> HIDE DEF m, uncounted
  <2>5. uncounted \div m = d /\ uncounted % m = 0
    BY <2>3, <2>4, Multiples
  <2>6. \A s \in Site :
           /\ Counted(szTracker, s) <= allocated[s]
           /\ allocated[s] <= Counted(szTracker, s) + NUMBERCOUNTERS * d
    BY <2>1 DEF CountedWithin
  <2> QED BY <2>5, <2>6 DEF m, uncounted
<1> QED BY <1>1, <1>2, PTL

-----------------------------------------------------------------------------
(* The leak report                                                             *)

\* The block that is printed n-th, from those before it.
Visit(h, walk, n) ==
    IF n = 0 THEN h.lastAlloc
    ELSE IF walk[n - 1] = NULL THEN NULL
    ELSE h.mem[walk[n - 1]].prv

\* The report is a function: a walk of any length exists.
LEMMA WalkExists ==
    ASSUME NEW h, NEW m \in Nat
    PROVE  \E walk : walk = [n \in 0..m |-> Visit(h, walk, n)]
<1> DEFINE F == {k \in Nat : \E walk : walk = [n \in 0..k |-> Visit(h, walk, n)]}
<1>1. 0 \in F
  <2> DEFINE walk == [n \in 0..0 |-> h.lastAlloc]
  <2>1. walk = [n \in 0..0 |-> Visit(h, walk, n)]
    BY DEF Visit
  <2> QED BY <2>1
<1>2. ASSUME NEW k \in Nat, k \in F PROVE k + 1 \in F
  <2>1. PICK walk : walk = [n \in 0..k |-> Visit(h, walk, n)]
    BY <1>2
  <2> DEFINE next == Visit(h, walk, k + 1)
             longer == [n \in 0..k + 1 |-> IF n = k + 1 THEN next ELSE walk[n]]
  <2>2. ASSUME NEW n \in 0..k + 1 PROVE longer[n] = Visit(h, longer, n)
    <3>1. n # 0 => longer[n - 1] = walk[n - 1]
      OBVIOUS
    <3>2. Visit(h, longer, n) = Visit(h, walk, n)
      BY <3>1 DEF Visit
    <3>3. n # k + 1 => walk[n] = Visit(h, walk, n)
      <4>1. n # k + 1 => n \in 0..k
        OBVIOUS
      <4> QED BY <2>1, <4>1
    <3> QED BY <3>2, <3>3
  <2> HIDE DEF next
  <2>3. longer = [n \in 0..k + 1 |-> Visit(h, longer, n)]
    BY <2>2
  <2> HIDE DEF longer
  <2>4. \E w : w = [n \in 0..k + 1 |-> Visit(h, w, n)]
    BY <2>3
  <2> QED BY <2>4
<1> HIDE DEF F
<1>3. m \in F
  BY <1>1, <1>2, NumberInduction
<1> QED BY <1>3 DEF F

LEMMA ReportIsWalk ==
    \A n \in 0..Cardinality(Address) : LeakReport[n] = Visit(heap, LeakReport, n)
<1> DEFINE m == Cardinality(Address)
<1>1. LeakReport = CHOOSE walk : walk = [n \in 0..m |-> Visit(heap, walk, n)]
  BY DEF LeakReport, Visit
<1>2. \E walk : walk = [n \in 0..m |-> Visit(heap, walk, n)]
  <2>1. m \in Nat
    BY PointerAssumption, FS_CardinalityType
  <2> HIDE DEF m
  <2> QED BY <2>1, WalkExists
<1>3. LeakReport = [n \in 0..m |-> Visit(heap, LeakReport, n)]
  BY <1>1, <1>2
<1> QED BY <1>3

\* In a walk from lastAlloc back, with as many places as there are addresses.
LEMMA WalkVisitsAll ==
    ASSUME NEW h, HeapInv(h), NEW walk, NEW m, m = Cardinality(Address),
           \A n \in 0..m : walk[n] = Visit(h, walk, n)
    PROVE  LET n == Cardinality(ActiveIn(h))
           IN /\ {walk[i] : i \in 0..n - 1} = ActiveIn(h)
              /\ walk[n] = NULL
              /\ \A i, j \in 0..n - 1 : i < j => h.mem[walk[i]].born > h.mem[walk[j]].born
<1> DEFINE A == ActiveIn(h)
<1>1. m \in Nat /\ IsFiniteSet(A) /\ A \subseteq Address /\ NULL \notin A
      /\ IsFiniteSet(Address)
  BY PointerAssumption, ActiveFinite, FS_CardinalityType
<1>2. /\ h.lastAlloc \in A \cup {NULL} /\ h.total_count \in Nat
      /\ \A a \in A : /\ h.mem[a].prv \in A \cup {NULL}
                      /\ h.mem[a].next \in A \cup {NULL}
                      /\ h.mem[a].next = NULL <=> a = h.lastAlloc
                      /\ h.mem[a].next # NULL => h.mem[h.mem[a].next].prv = a
                      /\ h.mem[a].born \in Nat /\ h.mem[a].born <= h.total_count
                      /\ h.mem[a].prv # NULL => h.mem[h.mem[a].prv].born < h.mem[a].born
  <2>1. h \in HeapType /\ IsList(h) /\ Births(h)
    BY DEF HeapInv
  <2>2. \A a \in A : h.mem[a] \in BlockType
    BY <1>1, <2>1 DEF HeapType
  <2> QED BY <2>1, <2>2 DEF IsList, Births, BlockType, HeapType
<1>3. /\ walk[0] = h.lastAlloc
      /\ \A n \in 0..m - 1 : walk[n + 1] = IF walk[n] = NULL THEN NULL ELSE h.mem[walk[n]].prv
  <2>1. walk[0] = h.lastAlloc
    BY <1>1 DEF Visit
  <2>2. ASSUME NEW n \in 0..m - 1
        PROVE  walk[n + 1] = IF walk[n] = NULL THEN NULL ELSE h.mem[walk[n]].prv
    <3>1. n + 1 \in 0..m /\ n + 1 # 0 /\ n + 1 - 1 = n
      BY <1>1
    <3>2. walk[n + 1] = Visit(h, walk, n + 1)
      BY <3>1
    <3> QED BY <3>1, <3>2 DEF Visit
  <2> QED BY <2>1, <2>2
<1> HIDE DEF A
\* It visits active blocks only, and each is older than those before it.
<1>4. \A n \in 0..m : walk[n] \in A \cup {NULL}
  <2> DEFINE F == {n \in Nat : n <= m => walk[n] \in A \cup {NULL}}
  <2>1. 0 \in F
    BY <1>2, <1>3
  <2>2. ASSUME NEW n \in Nat, n \in F PROVE n + 1 \in F
    <3> SUFFICES ASSUME n + 1 <= m PROVE walk[n + 1] \in A \cup {NULL}
      OBVIOUS
    <3>1. n \in 0..m - 1 /\ walk[n] \in A \cup {NULL}
      BY <1>1, <2>2
    <3> QED BY <1>2, <1>3, <3>1
  <2> HIDE DEF F
  <2>3. \A n \in Nat : n \in F
    BY <2>1, <2>2, NumberInduction
  <2> QED BY <1>1, <2>3 DEF F
<1>5. ASSUME NEW i \in 0..m
      PROVE  \A j \in 0..m : i < j /\ walk[j] # NULL =>
                /\ walk[i] # NULL
                /\ h.mem[walk[i]].born > h.mem[walk[j]].born
  <2> DEFINE F == {j \in Nat : j <= m /\ i < j /\ walk[j] # NULL =>
                      walk[i] # NULL /\ h.mem[walk[i]].born > h.mem[walk[j]].born}
  <2>1. 0 \in F
    BY <1>5
  <2>2. ASSUME NEW j \in Nat, j \in F PROVE j + 1 \in F
    <3> SUFFICES ASSUME j + 1 <= m, i < j + 1, walk[j + 1] # NULL
        PROVE  walk[i] # NULL /\ h.mem[walk[i]].born > h.mem[walk[j + 1]].born
      OBVIOUS
    <3>1. j \in 0..m - 1 /\ j \in 0..m
      BY <1>1
    <3>2. /\ walk[j] # NULL /\ walk[j] \in A /\ walk[j + 1] \in A
          /\ walk[j + 1] = h.mem[walk[j]].prv
      BY <1>1, <1>3, <1>4, <3>1
    <3>3. h.mem[walk[j + 1]].born < h.mem[walk[j]].born
          /\ h.mem[walk[j + 1]].born \in Nat /\ h.mem[walk[j]].born \in Nat
      BY <1>2, <3>2
    <3>4. CASE i = j
      BY <3>2, <3>3, <3>4
    <3>5. CASE i # j
      <4>1. i < j
        BY <3>1, <3>5
      <4>2. walk[i] # NULL /\ h.mem[walk[i]].born > h.mem[walk[j]].born
        BY <2>2, <3>1, <3>2, <4>1
      <4>3. h.mem[walk[i]].born \in Nat
        BY <1>2, <1>4, <4>2
      <4> QED BY <3>3, <4>2, <4>3
    <3> QED BY <3>4, <3>5
  <2> HIDE DEF F
  <2>3. \A j \in Nat : j \in F
    BY <2>1, <2>2, NumberInduction
  <2> QED BY <1>1, <2>3 DEF F
<1>6. ASSUME NEW i \in 0..m, NEW j \in 0..m, i # j, walk[i] # NULL, walk[j] # NULL
      PROVE  walk[i] # walk[j]
  <2>1. h.mem[walk[i]].born \in Nat /\ h.mem[walk[j]].born \in Nat
    BY <1>2, <1>4, <1>6
  <2>2. h.mem[walk[i]].born > h.mem[walk[j]].born \/ h.mem[walk[j]].born > h.mem[walk[i]].born
    <3>1. i < j \/ j < i
      BY <1>1, <1>6
    <3> QED BY <1>5, <1>6, <3>1
  <2> QED BY <2>1, <2>2
\* There are fewer addresses than places: it ends.
<1>7. \E n \in 0..m : walk[n] = NULL
  <2> SUFFICES ASSUME \A n \in 0..m : walk[n] # NULL PROVE FALSE
    OBVIOUS
  <2> DEFINE f == [n \in 0..m |-> walk[n]]
  <2>1. f \in [0..m -> Address] /\ \A n \in 0..m : f[n] = walk[n]
    BY <1>1, <1>4
  <2>2. IsFiniteSet(0..m) /\ Cardinality(0..m) = m + 1
    BY <1>1, FS_Interval
  <2> HIDE DEF f
  <2>3. \E i, j \in 0..m : i # j /\ f[i] = f[j]
    <3>1. Cardinality(Address) < Cardinality(0..m)
      BY <1>1, <2>2
    <3> QED BY <1>1, <2>1, <2>2, <3>1, FS_PigeonHole
  <2> QED BY <1>6, <2>1, <2>3
<1>8. PICK k \in 0..m : walk[k] = NULL /\ \A n \in 0..m : n < k => walk[n] # NULL
  <2> DEFINE S == {n \in 0..m : walk[n] = NULL}
  <2>1. S \in SUBSET Nat /\ S # {}
    BY <1>7
  <2>2. PICK k \in S : \A n \in S : k <= n
    <3> HIDE DEF S
    <3> QED BY <2>1, LeastElement
  <2>3. k \in 0..m /\ walk[k] = NULL
    OBVIOUS
  <2>4. \A n \in 0..m : n < k => walk[n] # NULL
    BY <2>2, <2>3
  <2> QED BY <2>3, <2>4
<1>9. \A n \in 0..k - 1 : n \in 0..m /\ walk[n] \in A
  <2>1. \A n \in 0..k - 1 : n \in 0..m /\ n < k
    BY <1>1
  <2> QED BY <1>4, <1>8, <2>1
\* And not before every active block was visited: of those left out, the
\* youngest has a next one that was visited.
<1>10. {walk[i] : i \in 0..k - 1} = A
  <2> DEFINE U == {a \in A : \A i \in 0..k - 1 : walk[i] # a}
  <2>1. CASE U = {}
    BY <1>9, <2>1
  <2>2. CASE U # {}
    <3> DEFINE age == [a \in U |-> h.mem[a].born]
    <3>1. \A a \in U : age[a] \in Nat /\ age[a] <= h.total_count
      BY <1>2
    <3>2. PICK b \in U : \A a \in U : age[a] <= age[b]
      <4> HIDE DEF age, U
      <4> QED BY <1>2, <2>2, <3>1, Youngest
    <3>3. b \in A /\ \A i \in 0..k - 1 : walk[i] # b
      OBVIOUS
    <3>4. \A a \in U : h.mem[a].born <= h.mem[b].born
      BY <3>2
    <3> HIDE DEF age
    <3>5. b # h.lastAlloc
      <4> SUFFICES ASSUME b = h.lastAlloc PROVE FALSE
        OBVIOUS
      <4>1. walk[0] # NULL
        BY <1>1, <1>3, <3>3
      <4>2. 0 \in 0..k - 1
        BY <1>8, <4>1
      <4> QED BY <1>3, <3>3, <4>2
    <3> DEFINE c == h.mem[b].next
    <3>6. c \in A /\ h.mem[c].prv = b /\ h.mem[b].born < h.mem[c].born
      BY <1>1, <1>2, <3>3, <3>5
    <3>7. h.mem[b].born \in Nat /\ h.mem[c].born \in Nat
      BY <1>2, <3>3, <3>6
    <3>8. c \notin U
      BY <3>4, <3>6, <3>7
    <3> HIDE DEF c
    <3>9. PICK i \in 0..k - 1 : walk[i] = c
      BY <3>6, <3>8
    <3>10. i \in 0..m - 1 /\ i + 1 \in 0..m
      BY <1>1
    <3>11. walk[i + 1] = b
      BY <1>1, <1>3, <3>6, <3>9, <3>10
    <3>12. i + 1 # k
      BY <1>1, <1>8, <3>3, <3>11
    <3>13. i + 1 \in 0..k - 1
      BY <1>1, <3>12
    <3> QED BY <3>3, <3>11, <3>13
  <2> QED BY <2>1, <2>2
<1>11. k = Cardinality(A)
  <2> DEFINE f == [n \in 0..k - 1 |-> walk[n]]
  <2>1. /\ f \in [0..k - 1 -> A] /\ \A n \in 0..k - 1 : f[n] = walk[n]
    BY <1>9
  <2>2. IsFiniteSet(0..k - 1) /\ Cardinality(0..k - 1) = k
    <3>1. 0 \in Int /\ k - 1 \in Int /\ k - 1 - 0 + 1 = k /\ (0 > k - 1 => k = 0)
      BY <1>1
    <3> QED BY <3>1, FS_Interval
  <2> HIDE DEF f
  <2>3. f \in Injection(0..k - 1, A)
    <3>1. \A i, j \in 0..k - 1 : f[i] = f[j] => i = j
      BY <1>1, <1>6, <1>9, <2>1
    <3> QED BY <2>1, <3>1 DEF Injection, IsInjective
  <2>4. f \in Surjection(0..k - 1, A)
    BY <1>10, <2>1 DEF Surjection
  <2>5. Cardinality(0..k - 1) = Cardinality(A)
    BY <1>1, <2>3, <2>4, FS_Injection
  <2> QED BY <2>2, <2>5
<1>12. \A i, j \in 0..k - 1 : i < j => h.mem[walk[i]].born > h.mem[walk[j]].born
  BY <1>1, <1>5, <1>9
<1> QED BY <1>8, <1>10, <1>11, <1>12 DEF A

\* The leak report prints every block in use once, the newest first, and ends,
\* whatever was freed before in whatever order (m61.c:255-267).
THEOREM LeakReportIsExact == Spec => []LeakReportExact
<1>1. IInv => LeakReportExact
  <2> SUFFICES ASSUME IInv PROVE LeakReportExact
    OBVIOUS
  <2> DEFINE walk == LeakReport
             m == Cardinality(Address)
  <2>1. HeapInv(heap) /\ \A n \in 0..m : walk[n] = Visit(heap, walk, n)
    BY ReportIsWalk DEF IInv
  <2> HIDE DEF walk, m
  <2>2. m = Cardinality(Address)
    BY DEF m
  <2>3. LET n == Cardinality(ActiveIn(heap))
        IN /\ {walk[i] : i \in 0..n - 1} = ActiveIn(heap)
           /\ walk[n] = NULL
           /\ \A i, j \in 0..n - 1 : i < j => heap.mem[walk[i]].born > heap.mem[walk[j]].born
    BY <2>1, <2>2, WalkVisitsAll
  <2> QED BY <2>3 DEF LeakReportExact, Active, walk
<1> QED BY <1>1, HeapInvariant, PTL
=============================================================================
