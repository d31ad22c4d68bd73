-------------------------- MODULE ProviderProofs ------------------------------
(***************************************************************************)
(* What the pools (ResourcePool) promise for every number of sessions,     *)
(* pools, keys and every max_size: the entries in use are as many as the   *)
(* live handles, and a pool passes its limit by fewer entries than there   *)
(* are sessions; and what a knowledge base (KnowledgeSync) promises.       *)
(***************************************************************************)
EXTENDS MCProviders, FiniteSetTheorems, WellFoundedInduction, TLAPS

-----------------------------------------------------------------------------

\* The less-than relation on the naturals, as the set of its pairs.
Below == {ss \in Nat \X Nat : ss[1] < ss[2]}

LEMMA BelowWellFounded == IsWellFoundedOn(Below, Nat)
  BY NatLessThanWellFounded DEF OpToRel, Below

\* The first element of a non-empty set of indices is one of them.
LEMMA FirstIn ==
    ASSUME NEW I \in SUBSET Nat, I # {}
    PROVE  First(I) \in I
<1>1. \E i \in I : \A j \in I : ~ (<<j, i>> \in Below)
  BY BelowWellFounded, WFMin
<1>2. PICK i \in I : \A j \in I : ~ (<<j, i>> \in Below)
  BY <1>1
<1>3. ASSUME NEW j \in I PROVE i <= j
  <2>1. <<j, i>> \in Below <=> j < i
    BY DEF Below
  <2> QED
    BY <1>2, <2>1
<1> QED
  BY <1>3 DEF First

LEMMA OrderType ==
    /\ DOMAIN Order = 1 .. Len(Order)
    /\ Len(Order) \in Nat \ {0}
    /\ \A i \in DOMAIN Order : Order[i] \in Pools
  BY PoolAssumption

-----------------------------------------------------------------------------

\* The pool and the key a session asks, and the entry it would reuse.
LEMMA AskedType ==
    ASSUME TypeOK, NEW s \in Sessions
    PROVE  Order[step[s]] \in Pools /\ want[s][Order[step[s]]] \in Keys
  BY OrderType DEF TypeOK

LEMMA ReusedEntry ==
    ASSUME TypeOK, NEW p \in Pools, NEW k \in Keys, Free(p, k) # {}
    PROVE  /\ First(Free(p, k)) \in Nat \ {0}
           /\ First(Free(p, k)) \in 1 .. size[p][k]
           /\ First(Free(p, k)) \notin inUse[p][k]
<1>1. size[p][k] \in Nat
  BY DEF TypeOK
<1>2. Free(p, k) \in SUBSET Nat
  BY <1>1 DEF Free
<1>3. First(Free(p, k)) \in Free(p, k)
  BY <1>2, FirstIn
<1> QED
  BY <1>1, <1>3 DEF Free

\* Getting an entry moves the session on and keeps its progress well typed.
LEMMA GotType ==
    ASSUME TypeOK, NEW s \in Sessions, NEW p \in Pools, NEW i \in Nat, Got(s, p, i)
    PROVE  /\ stage' \in [Sessions -> {"idle", "scan", "check", "create", "open", "drop"}]
           /\ step' \in [Sessions -> DOMAIN Order]
           /\ held' \in [Sessions -> [Pools -> Nat]]
<1>1. CASE step[s] = Len(Order)
  BY <1>1 DEF Got, TypeOK
<1>2. CASE step[s] # Len(Order)
  <2>1. step[s] + 1 \in DOMAIN Order
    BY <1>2, OrderType DEF TypeOK
  <2> QED
    BY <1>2, <2>1 DEF Got, TypeOK
<1> QED
  BY <1>1, <1>2

LEMMA InitTypeOK == Init => TypeOK
  BY OrderType DEF Init, TypeOK

LEMMA NextTypeOK == TypeOK /\ [Next]_vars => TypeOK'
<1> SUFFICES ASSUME TypeOK, [Next]_vars PROVE TypeOK'
  OBVIOUS
<1>1. ASSUME NEW s \in Sessions, Begin(s) PROVE TypeOK'
  BY <1>1, OrderType DEF Begin, TypeOK
<1>2. ASSUME NEW s \in Sessions, Reuse(s) PROVE TypeOK'
  <2> DEFINE p == Order[step[s]]
             k == want[s][p]
             i == First(Free(p, k))
  <2>1. p \in Pools /\ k \in Keys
    BY AskedType
  <2>2. i \in Nat
    BY <1>2, <2>1, ReusedEntry DEF Reuse
  <2>3. Got(s, p, i) /\ inUse' = [inUse EXCEPT ![p][k] = @ \cup {i}]
    BY <1>2 DEF Reuse
  <2> HIDE DEF p, k, i
  <2>4. inUse' \in [Pools -> [Keys -> SUBSET Nat]]
    BY <2>1, <2>2, <2>3 DEF TypeOK
  <2>5. size' = size /\ want' = want
    BY <1>2 DEF Reuse
  <2> QED
    BY <2>1, <2>2, <2>3, <2>4, <2>5, GotType DEF TypeOK
<1>3. ASSUME NEW s \in Sessions,
             NoneIdle(s) \/ RoomLeft(s) \/ PoolFull(s) \/ FactoryFails(s)
               \/ Close(s) \/ Dropped(s)
      PROVE  TypeOK'
  BY <1>3 DEF NoneIdle, RoomLeft, PoolFull, FactoryFails, Close, Dropped, TypeOK
<1>4. ASSUME NEW s \in Sessions, Push(s) PROVE TypeOK'
  <2> DEFINE p == Order[step[s]]
             k == want[s][p]
             i == size[p][k] + 1
  <2>1. p \in Pools /\ k \in Keys
    BY AskedType
  <2>2. i \in Nat
    BY <2>1 DEF TypeOK
  <2>3. /\ Got(s, p, i)
        /\ size' = [size EXCEPT ![p][k] = i]
        /\ inUse' = [inUse EXCEPT ![p][k] = @ \cup {i}]
    BY <1>4 DEF Push
  <2> HIDE DEF p, k, i
  <2>4. /\ size' \in [Pools -> [Keys -> Nat]]
        /\ inUse' \in [Pools -> [Keys -> SUBSET Nat]]
    BY <2>1, <2>2, <2>3 DEF TypeOK
  <2>5. want' = want
    BY <1>4 DEF Push
  <2> QED
    BY <2>1, <2>2, <2>3, <2>4, <2>5, GotType DEF TypeOK
<1>5. ASSUME NEW s \in Sessions, NEW p \in Pools, DropHandle(s, p) PROVE TypeOK'
  BY <1>5 DEF DropHandle, Release, TypeOK
<1>6. CASE UNCHANGED vars
  BY <1>6 DEF vars, TypeOK
<1> QED
  BY <1>1, <1>2, <1>3, <1>4, <1>5, <1>6 DEF Next

\* The vectors, the progress of the sessions and their handles keep their types.
THEOREM TypeCorrect == Spec => []TypeOK
  BY InitTypeOK, NextTypeOK, PTL DEF Spec

-----------------------------------------------------------------------------

\* Strengthenings of the two counting properties, kept by every step.
EntriesFinite == \A p \in Pools : IsFiniteSet(Entries(p))

IInv ==
    /\ TypeOK
    /\ InUseInVector
    /\ AcquiresInOrder
    /\ EntriesFinite
    /\ InUseCountsHandles
    /\ OvershootBounded

LEMMA NoEntries == Init => \A p \in Pools : Entries(p) = {}
  BY DEF Init, Entries

LEMMA InitIInv == Init => IInv
<1> SUFFICES ASSUME Init PROVE IInv
  OBVIOUS
<1>1. AcquiresInOrder /\ InUseInVector
  BY OrderType DEF Init, AcquiresInOrder, InUseInVector
<1>2. EntriesFinite
  BY NoEntries, FS_EmptySet DEF EntriesFinite
<1>3. InUseCountsHandles
  <2> SUFFICES ASSUME NEW p \in Pools, NEW k \in Keys
               PROVE  Cardinality(inUse[p][k]) = Cardinality(Holders(p, k))
    BY DEF InUseCountsHandles
  <2>1. inUse[p][k] = {} /\ Holders(p, k) = {}
    BY DEF Init, Holders
  <2> QED
    BY <2>1
<1>4. OvershootBounded
  <2> SUFFICES ASSUME NEW p \in Pools
               PROVE  Cardinality(Entries(p)) + Cardinality(Creating(p))
                        < MaxSize + Cardinality(Sessions)
    BY DEF OvershootBounded
  <2>1. Entries(p) = {} /\ Creating(p) = {}
    BY NoEntries DEF Init, Creating
  <2>2. Cardinality(Sessions) \in Nat \ {0}
    BY PoolAssumption, FS_CardinalityType, FS_EmptySet
  <2> QED
    BY <2>1, <2>2, FS_EmptySet, PoolAssumption
<1> QED
  BY <1>1, <1>2, <1>3, <1>4, InitTypeOK DEF IInv

-----------------------------------------------------------------------------

\* No step marks an entry that the vector does not have.
LEMMA NextInUseInVector ==
    ASSUME TypeOK, InUseInVector, [Next]_vars
    PROVE  InUseInVector'
<1>1. ASSUME NEW s \in Sessions, Reuse(s) PROVE InUseInVector'
  <2> DEFINE p == Order[step[s]]
             k == want[s][p]
             i == First(Free(p, k))
  <2>1. p \in Pools /\ k \in Keys
    BY AskedType
  <2>2. i \in 1 .. size[p][k]
    BY <1>1, <2>1, ReusedEntry DEF Reuse
  <2>3. size' = size /\ inUse' = [inUse EXCEPT ![p][k] = @ \cup {i}]
    BY <1>1 DEF Reuse
  <2> HIDE DEF p, k, i
  <2> QED
    BY <2>1, <2>2, <2>3 DEF InUseInVector, TypeOK
<1>2. ASSUME NEW s \in Sessions, Push(s) PROVE InUseInVector'
  <2> DEFINE p == Order[step[s]]
             k == want[s][p]
             i == size[p][k] + 1
  <2>1. p \in Pools /\ k \in Keys /\ size[p][k] \in Nat
    BY AskedType DEF TypeOK
  <2>2. size' = [size EXCEPT ![p][k] = size[p][k] + 1]
        /\ inUse' = [inUse EXCEPT ![p][k] = @ \cup {size[p][k] + 1}]
    BY <1>2 DEF Push
  <2> HIDE DEF p, k
  <2> QED
    BY <2>1, <2>2 DEF InUseInVector, TypeOK
<1>3. ASSUME NEW s \in Sessions, NEW p \in Pools, DropHandle(s, p) PROVE InUseInVector'
  BY <1>3 DEF DropHandle, Release, InUseInVector, TypeOK
<1>4. ASSUME size' = size, inUse' = inUse PROVE InUseInVector'
  BY <1>4 DEF InUseInVector
<1> QED
  BY <1>1, <1>2, <1>3, <1>4
     DEF Next, vars, Begin, NoneIdle, RoomLeft, PoolFull, FactoryFails, Close, Dropped

\* A session that got an entry of a pool has none of the pools still to come.
LEMMA GotInOrder ==
    ASSUME TypeOK, TypeOK', AcquiresInOrder, NEW s \in Sessions, NEW i \in Nat,
           stage[s] \in {"scan", "create"}, Got(s, Order[step[s]], i)
    PROVE  AcquiresInOrder'
<1>1. ASSUME NEW t \in Sessions, t # s
      PROVE  stage'[t] = stage[t] /\ step'[t] = step[t] /\ held'[t] = held[t]
  BY <1>1 DEF Got, TypeOK
<1>2. stage'[s] # "idle"
  BY DEF Got, TypeOK
<1>3. ASSUME stage'[s] \in {"scan", "check", "create"}, NEW j \in step'[s] .. Len(Order)
      PROVE  held'[s][Order[j]] = 0
  <2>1. step'[s] = step[s] + 1 /\ step[s] \in 1 .. Len(Order)
    BY <1>3, OrderType DEF Got, TypeOK
  <2>2. j \in step[s] .. Len(Order) /\ j # step[s] /\ j \in DOMAIN Order
    BY <2>1, OrderType
  <2>3. Order[j] # Order[step[s]] /\ Order[j] \in Pools
    BY <2>1, <2>2, OrderType, PoolAssumption
  <2>4. held[s][Order[j]] = 0
    BY <2>2 DEF AcquiresInOrder
  <2> QED
    BY <2>3, <2>4, AskedType DEF Got, TypeOK
<1> QED
  BY <1>1, <1>2, <1>3 DEF AcquiresInOrder

LEMMA NextAcquiresInOrder ==
    ASSUME TypeOK, TypeOK', AcquiresInOrder, [Next]_vars
    PROVE  AcquiresInOrder'
<1>1. ASSUME NEW s \in Sessions, Begin(s) PROVE AcquiresInOrder'
  <2>1. /\ held' = held /\ \A p \in Pools : held[s][p] = 0
        /\ stage'[s] = "scan" /\ step'[s] = 1
    BY <1>1 DEF Begin, AcquiresInOrder, TypeOK
  <2>2. ASSUME NEW t \in Sessions, t # s PROVE stage'[t] = stage[t] /\ step'[t] = step[t]
    BY <1>1, <2>2 DEF Begin, TypeOK
  <2> QED
    BY <2>1, <2>2, OrderType DEF AcquiresInOrder
<1>2. ASSUME NEW s \in Sessions, Reuse(s) PROVE AcquiresInOrder'
  <2>1. First(Free(Order[step[s]], want[s][Order[step[s]]])) \in Nat
    BY <1>2, AskedType, ReusedEntry DEF Reuse
  <2> QED
    BY <1>2, <2>1, GotInOrder DEF Reuse
<1>3. ASSUME NEW s \in Sessions, Push(s) PROVE AcquiresInOrder'
  <2>1. size[Order[step[s]]][want[s][Order[step[s]]]] + 1 \in Nat
    BY AskedType DEF TypeOK
  <2> QED
    BY <1>3, <2>1, GotInOrder DEF Push
<1>4. ASSUME NEW s \in Sessions, NoneIdle(s) \/ RoomLeft(s) PROVE AcquiresInOrder'
  <2>1. /\ held' = held /\ step' = step
        /\ stage[s] \in {"scan", "check"}
        /\ stage'[s] \in {"check", "create"}
    BY <1>4 DEF NoneIdle, RoomLeft, TypeOK
  <2>2. ASSUME NEW t \in Sessions, t # s PROVE stage'[t] = stage[t]
    BY <1>4, <2>2 DEF NoneIdle, RoomLeft, TypeOK
  <2> QED
    BY <2>1, <2>2 DEF AcquiresInOrder
<1>5. ASSUME NEW s \in Sessions, PoolFull(s) \/ FactoryFails(s) \/ Close(s)
      PROVE  AcquiresInOrder'
  <2>1. /\ held' = held /\ step' = step
        /\ stage' = [stage EXCEPT ![s] = "drop"]
    BY <1>5 DEF PoolFull, FactoryFails, Close
  <2>2. /\ stage'[s] = "drop"
        /\ \A t \in Sessions : t # s => stage'[t] = stage[t]
    BY <2>1 DEF TypeOK
  <2> QED
    BY <2>1, <2>2 DEF AcquiresInOrder
<1>6. ASSUME NEW s \in Sessions, Dropped(s) PROVE AcquiresInOrder'
  <2>1. /\ held' = held /\ step' = step
        /\ stage'[s] = "idle" /\ \A p \in Pools : held[s][p] = 0
    BY <1>6 DEF Dropped, TypeOK
  <2>2. ASSUME NEW t \in Sessions, t # s PROVE stage'[t] = stage[t]
    BY <1>6, <2>2 DEF Dropped, TypeOK
  <2> QED
    BY <2>1, <2>2 DEF AcquiresInOrder
<1>7. ASSUME NEW s \in Sessions, NEW p \in Pools, DropHandle(s, p) PROVE AcquiresInOrder'
  BY <1>7, OrderType DEF DropHandle, AcquiresInOrder, TypeOK
<1>8. CASE UNCHANGED vars
  BY <1>8 DEF vars, AcquiresInOrder
<1> QED
  BY <1>1, <1>2, <1>3, <1>4, <1>5, <1>6, <1>7, <1>8 DEF Next

-----------------------------------------------------------------------------

\* The entries of a pool are a finite set: a push adds one.
LEMMA PushAddsEntry ==
    ASSUME TypeOK, NEW p \in Pools, NEW k \in Keys,
           size' = [size EXCEPT ![p][k] = size[p][k] + 1]
    PROVE  /\ Entries(p)' = Entries(p) \cup {<<k, size[p][k] + 1>>}
           /\ <<k, size[p][k] + 1>> \notin Entries(p)
           /\ \A q \in Pools : q # p => Entries(q)' = Entries(q)
<1>1. size[p][k] \in Nat /\ \A l \in Keys : size'[p][l] = IF l = k THEN size[p][k] + 1 ELSE size[p][l]
  BY DEF TypeOK
<1>2. 1 .. (size[p][k] + 1) = (1 .. size[p][k]) \cup {size[p][k] + 1}
  BY <1>1
<1>3. Entries(p)' = Entries(p) \cup {<<k, size[p][k] + 1>>}
  BY <1>1, <1>2 DEF Entries
<1>4. <<k, size[p][k] + 1>> \notin Entries(p)
  BY <1>1 DEF Entries
<1>5. ASSUME NEW q \in Pools, q # p PROVE Entries(q)' = Entries(q)
  BY <1>5 DEF Entries, TypeOK
<1> QED
  BY <1>3, <1>4, <1>5

LEMMA PushSize ==
    ASSUME TypeOK, NEW s \in Sessions, Push(s)
    PROVE  \E p \in Pools, k \in Keys :
              /\ p = Order[step[s]] /\ k = want[s][p]
              /\ size' = [size EXCEPT ![p][k] = size[p][k] + 1]
              /\ inUse' = [inUse EXCEPT ![p][k] = inUse[p][k] \cup {size[p][k] + 1}]
              /\ Got(s, p, size[p][k] + 1)
  BY AskedType DEF Push

LEMMA OthersKeepSize ==
    ASSUME [Next]_vars, ~ \E s \in Sessions : Push(s)
    PROVE  size' = size
  BY DEF Next, vars, Begin, Reuse, NoneIdle, RoomLeft, PoolFull, FactoryFails, Close,
         DropHandle, Dropped

LEMMA NextEntriesFinite ==
    ASSUME TypeOK, EntriesFinite, [Next]_vars
    PROVE  EntriesFinite'
<1>1. ASSUME NEW s \in Sessions, Push(s) PROVE EntriesFinite'
  <2>1. PICK p \in Pools, k \in Keys : size' = [size EXCEPT ![p][k] = size[p][k] + 1]
    BY <1>1, PushSize
  <2>2. /\ Entries(p)' = Entries(p) \cup {<<k, size[p][k] + 1>>}
        /\ \A q \in Pools : q # p => Entries(q)' = Entries(q)
    BY <2>1, PushAddsEntry
  <2>3. IsFiniteSet(Entries(p))'
    BY <2>2, FS_AddElement DEF EntriesFinite
  <2> QED
    BY <2>2, <2>3 DEF EntriesFinite
<1>2. CASE ~ \E s \in Sessions : Push(s)
  BY <1>2, OthersKeepSize DEF EntriesFinite, Entries
<1> QED
  BY <1>1, <1>2

-----------------------------------------------------------------------------

\* inUse[p][k] and the holders of (p, k) gain and lose members together.
LEMMA CountsAreFinite ==
    ASSUME TypeOK, InUseInVector, NEW p \in Pools, NEW k \in Keys
    PROVE  IsFiniteSet(inUse[p][k]) /\ IsFiniteSet(Holders(p, k))
<1>1. size[p][k] \in Nat
  BY DEF TypeOK
<1>2. IsFiniteSet(1 .. size[p][k])
  BY <1>1, FS_Interval
<1>3. inUse[p][k] \subseteq 1 .. size[p][k] /\ Holders(p, k) \subseteq Sessions
  BY DEF InUseInVector, Holders
<1> QED
  BY <1>2, <1>3, FS_Subset, PoolAssumption

\* Handing a free entry to a session that has no handle of the pool yet.
LEMMA GotKeepsCounts ==
    ASSUME TypeOK, InUseInVector, AcquiresInOrder, InUseCountsHandles,
           NEW s \in Sessions, NEW p \in Pools, NEW k \in Keys, NEW i \in Nat \ {0},
           stage[s] \in {"scan", "create"}, p = Order[step[s]], k = want[s][p],
           i \notin inUse[p][k], want' = want, Got(s, p, i),
           inUse' = [inUse EXCEPT ![p][k] = inUse[p][k] \cup {i}]
    PROVE  InUseCountsHandles'
<1>1. held' = [held EXCEPT ![s][p] = i]
  BY DEF Got
<1>2. held[s][p] = 0
  <2>1. step[s] \in step[s] .. Len(Order)
    BY OrderType DEF TypeOK
  <2> QED
    BY <2>1 DEF AcquiresInOrder
<1>3. /\ Holders(p, k)' = Holders(p, k) \cup {s}
      /\ s \notin Holders(p, k)
  BY <1>1, <1>2 DEF Holders, TypeOK
<1>4. inUse'[p][k] = inUse[p][k] \cup {i}
  BY DEF TypeOK
<1>5. ASSUME NEW q \in Pools, NEW l \in Keys, q # p \/ l # k
      PROVE  inUse'[q][l] = inUse[q][l] /\ Holders(q, l)' = Holders(q, l)
  <2>1. inUse'[q][l] = inUse[q][l]
    BY <1>5 DEF TypeOK
  <2>2. ASSUME NEW t \in Sessions
        PROVE  (held'[t][q] # 0 /\ want[t][q] = l) <=> (held[t][q] # 0 /\ want[t][q] = l)
    BY <1>1, <1>5 DEF TypeOK
  <2> QED
    BY <2>1, <2>2 DEF Holders
<1>6. Cardinality(inUse[p][k] \cup {i}) = Cardinality(Holders(p, k) \cup {s})
  <2>1. Cardinality(inUse[p][k] \cup {i}) = Cardinality(inUse[p][k]) + 1
    BY CountsAreFinite, FS_AddElement
  <2>2. Cardinality(Holders(p, k) \cup {s}) = Cardinality(Holders(p, k)) + 1
    BY <1>3, CountsAreFinite, FS_AddElement
  <2> QED
    BY <2>1, <2>2 DEF InUseCountsHandles
<1>7. ASSUME NEW q \in Pools, NEW l \in Keys
      PROVE  Cardinality(inUse'[q][l]) = Cardinality(Holders(q, l)')
  <2>1. CASE q = p /\ l = k
    <3>1. Cardinality(inUse'[p][k]) = Cardinality(Holders(p, k)')
      BY <1>3, <1>4, <1>6
    <3> QED
      BY <3>1, <2>1
  <2>2. CASE q # p \/ l # k
    <3>1. inUse'[q][l] = inUse[q][l] /\ Holders(q, l)' = Holders(q, l)
      BY <1>5, <2>2
    <3>2. Cardinality(inUse[q][l]) = Cardinality(Holders(q, l))
      BY DEF InUseCountsHandles
    <3> QED
      BY <3>1, <3>2
  <2> QED
    BY <2>1, <2>2
<1> QED
  BY <1>7 DEF InUseCountsHandles

\* A drop takes one entry and one handle of the same key away.
LEMMA DropKeepsCounts ==
    ASSUME TypeOK, InUseInVector, InUseCountsHandles,
           NEW s \in Sessions, NEW p \in Pools, DropHandle(s, p)
    PROVE  InUseCountsHandles'
<1>1. PICK k \in Keys : k = want[s][p]
  BY DEF TypeOK
<1>2. /\ held[s][p] # 0 /\ want' = want
      /\ held' = [held EXCEPT ![s][p] = 0]
  BY DEF DropHandle
<1>3. /\ Holders(p, k)' = Holders(p, k) \ {s}
      /\ s \in Holders(p, k)
  BY <1>1, <1>2 DEF Holders, TypeOK
<1>4. inUse[p][k] # {}
  <2>1. Cardinality(Holders(p, k)) # 0
    BY <1>3, CountsAreFinite, FS_EmptySet
  <2>2. Cardinality(inUse[p][k]) # 0
    BY <2>1 DEF InUseCountsHandles
  <2> QED
    BY <2>2, CountsAreFinite, FS_EmptySet
<1>5. First(inUse[p][k]) \in inUse[p][k]
  BY <1>4, FirstIn DEF TypeOK
<1>6. inUse' = [inUse EXCEPT ![p][k] = inUse[p][k] \ {First(inUse[p][k])}]
  BY <1>1, <1>4 DEF DropHandle, Release
<1>7. inUse'[p][k] = inUse[p][k] \ {First(inUse[p][k])}
  BY <1>6 DEF TypeOK
<1>8. ASSUME NEW q \in Pools, NEW l \in Keys, q # p \/ l # k
      PROVE  inUse'[q][l] = inUse[q][l] /\ Holders(q, l)' = Holders(q, l)
  <2>1. inUse'[q][l] = inUse[q][l]
    BY <1>6, <1>8 DEF TypeOK
  <2>2. ASSUME NEW t \in Sessions
        PROVE  (held'[t][q] # 0 /\ want[t][q] = l) <=> (held[t][q] # 0 /\ want[t][q] = l)
    BY <1>1, <1>2, <1>8 DEF TypeOK
  <2> QED
    BY <1>2, <2>1, <2>2 DEF Holders
<1>9. Cardinality(inUse[p][k] \ {First(inUse[p][k])}) = Cardinality(Holders(p, k) \ {s})
  <2>1. Cardinality(inUse[p][k] \ {First(inUse[p][k])}) = Cardinality(inUse[p][k]) - 1
    BY <1>5, CountsAreFinite, FS_RemoveElement
  <2>2. Cardinality(Holders(p, k) \ {s}) = Cardinality(Holders(p, k)) - 1
    BY <1>3, CountsAreFinite, FS_RemoveElement
  <2> QED
    BY <2>1, <2>2 DEF InUseCountsHandles
<1>10. ASSUME NEW q \in Pools, NEW l \in Keys
       PROVE  Cardinality(inUse'[q][l]) = Cardinality(Holders(q, l)')
  <2>1. CASE q = p /\ l = k
    BY <1>3, <1>7, <1>9, <2>1
  <2>2. CASE q # p \/ l # k
    BY <1>8, <2>2 DEF InUseCountsHandles
  <2> QED
    BY <2>1, <2>2
<1> QED
  BY <1>10 DEF InUseCountsHandles

LEMMA NextInUseCountsHandles ==
    ASSUME TypeOK, InUseInVector, AcquiresInOrder, InUseCountsHandles, [Next]_vars
    PROVE  InUseCountsHandles'
<1>1. ASSUME NEW s \in Sessions, Begin(s) PROVE InUseCountsHandles'
  <2>1. /\ held' = held /\ inUse' = inUse
        /\ \A p \in Pools : held[s][p] = 0
        /\ \A t \in Sessions : t # s => want'[t] = want[t]
    BY <1>1 DEF Begin, AcquiresInOrder, TypeOK
  <2>2. ASSUME NEW p \in Pools, NEW k \in Keys PROVE Holders(p, k)' = Holders(p, k)
    BY <2>1 DEF Holders
  <2> QED
    BY <2>1, <2>2 DEF InUseCountsHandles
<1>2. ASSUME NEW s \in Sessions, Reuse(s) PROVE InUseCountsHandles'
  <2>1. PICK p \in Pools, k \in Keys : p = Order[step[s]] /\ k = want[s][p]
    BY AskedType
  <2>2. PICK i \in Nat \ {0} : i = First(Free(p, k)) /\ i \notin inUse[p][k]
    BY <1>2, <2>1, ReusedEntry DEF Reuse
  <2>3. /\ inUse' = [inUse EXCEPT ![p][k] = inUse[p][k] \cup {i}]
        /\ Got(s, p, i) /\ want' = want /\ stage[s] = "scan"
    BY <1>2, <2>1, <2>2 DEF Reuse
  <2> QED
    BY <2>1, <2>2, <2>3, GotKeepsCounts
<1>3. ASSUME NEW s \in Sessions, Push(s) PROVE InUseCountsHandles'
  <2>1. PICK p \in Pools, k \in Keys :
           /\ p = Order[step[s]] /\ k = want[s][p]
           /\ inUse' = [inUse EXCEPT ![p][k] = inUse[p][k] \cup {size[p][k] + 1}]
           /\ Got(s, p, size[p][k] + 1)
    BY <1>3, PushSize
  <2>2. /\ size[p][k] + 1 \in Nat \ {0}
        /\ size[p][k] + 1 \notin inUse[p][k]
    BY DEF TypeOK, InUseInVector
  <2>3. want' = want /\ stage[s] = "create"
    BY <1>3 DEF Push
  <2> QED
    BY <2>1, <2>2, <2>3, GotKeepsCounts
<1>4. ASSUME NEW s \in Sessions, NEW p \in Pools, DropHandle(s, p)
      PROVE  InUseCountsHandles'
  BY <1>4, DropKeepsCounts
<1>5. ASSUME inUse' = inUse, held' = held, want' = want PROVE InUseCountsHandles'
  BY <1>5 DEF InUseCountsHandles, Holders
<1> QED
  BY <1>1, <1>2, <1>3, <1>4, <1>5
     DEF Next, vars, NoneIdle, RoomLeft, PoolFull, FactoryFails, Close, Dropped

-----------------------------------------------------------------------------

\* Sessions that create for a pool are never more than the sessions.
LEMMA CreatingBounded ==
    ASSUME NEW p \in Pools
    PROVE  /\ IsFiniteSet(Creating(p))
           /\ Cardinality(Creating(p)) \in Nat
           /\ Cardinality(Creating(p)) <= Cardinality(Sessions)
           /\ Cardinality(Sessions) \in Nat
<1>1. Creating(p) \subseteq Sessions
  BY DEF Creating
<1> QED
  BY <1>1, FS_Subset, FS_CardinalityType, PoolAssumption

\* A step that adds no entry and no creator keeps the bound.
LEMMA FewerCreatorsKeepBound ==
    ASSUME EntriesFinite, OvershootBounded, NEW p \in Pools,
           Entries(p)' = Entries(p), Creating(p)' \subseteq Creating(p)
    PROVE  Cardinality(Entries(p)') + Cardinality(Creating(p)')
             < MaxSize + Cardinality(Sessions)
<1>1. Cardinality(Entries(p)) \in Nat
  BY FS_CardinalityType DEF EntriesFinite
<1>2. /\ Cardinality(Creating(p)') <= Cardinality(Creating(p))
      /\ Cardinality(Creating(p)') \in Nat
  BY CreatingBounded, FS_Subset, FS_CardinalityType
<1>3. Cardinality(Entries(p)) + Cardinality(Creating(p)) < MaxSize + Cardinality(Sessions)
  BY DEF OvershootBounded
<1> QED
  BY <1>1, <1>2, <1>3, CreatingBounded, PoolAssumption
\* Passing the check adds a creator, but then the pool had room.
LEMMA RoomLeftKeepsBound ==
    ASSUME TypeOK, EntriesFinite, OvershootBounded, NEW s \in Sessions, RoomLeft(s)
    PROVE  OvershootBounded'
<1>1. PICK p \in Pools : p = Order[step[s]]
  BY AskedType
<1>2. /\ size' = size /\ step' = step /\ stage' = [stage EXCEPT ![s] = "create"]
      /\ Cardinality(Entries(p)) < MaxSize
  BY <1>1 DEF RoomLeft, HasRoom
<1>3. ASSUME NEW q \in Pools PROVE Entries(q)' = Entries(q)
  BY <1>2 DEF Entries
<1>4. /\ IsFiniteSet(Creating(p)') /\ Cardinality(Creating(p)') <= Cardinality(Sessions)
      /\ Cardinality(Creating(p)') \in Nat /\ Cardinality(Sessions) \in Nat
  <2>1. Creating(p)' \subseteq Sessions
    BY DEF Creating
  <2> QED
    BY <2>1, FS_Subset, FS_CardinalityType, PoolAssumption
<1>5. Cardinality(Entries(p)) \in Nat
  BY FS_CardinalityType DEF EntriesFinite
<1>6. ASSUME NEW q \in Pools, q # p PROVE Creating(q)' \subseteq Creating(q)
  BY <1>1, <1>2, <1>6 DEF Creating, TypeOK
<1>7. ASSUME NEW q \in Pools
      PROVE  Cardinality(Entries(q)') + Cardinality(Creating(q)')
               < MaxSize + Cardinality(Sessions)
  <2>1. CASE q = p
    BY <1>2, <1>3, <1>4, <1>5, <2>1, PoolAssumption
  <2>2. CASE q # p
    BY <1>3, <1>6, <2>2, FewerCreatorsKeepBound
  <2> QED
    BY <2>1, <2>2
<1> QED
  BY <1>7 DEF OvershootBounded

\* A push turns a creator into an entry.
LEMMA PushKeepsBound ==
    ASSUME TypeOK, EntriesFinite, OvershootBounded, NEW s \in Sessions, Push(s)
    PROVE  OvershootBounded'
<1>1. PICK p \in Pools, k \in Keys :
         /\ p = Order[step[s]]
         /\ size' = [size EXCEPT ![p][k] = size[p][k] + 1]
         /\ Got(s, p, size[p][k] + 1)
  BY PushSize
<1>2. /\ Entries(p)' = Entries(p) \cup {<<k, size[p][k] + 1>>}
      /\ <<k, size[p][k] + 1>> \notin Entries(p)
      /\ \A q \in Pools : q # p => Entries(q)' = Entries(q)
  BY <1>1, PushAddsEntry
<1>3. Cardinality(Entries(p)') = Cardinality(Entries(p)) + 1 /\ Cardinality(Entries(p)) \in Nat
  BY <1>2, FS_AddElement, FS_CardinalityType DEF EntriesFinite
<1>4. /\ stage'[s] # "create" /\ stage[s] = "create"
      /\ \A t \in Sessions : t # s => stage'[t] = stage[t] /\ step'[t] = step[t]
  BY <1>1 DEF Got, Push, TypeOK
<1>5. ASSUME NEW q \in Pools PROVE Creating(q)' = Creating(q) \ {s}
  BY <1>4 DEF Creating
<1>6. s \in Creating(p)
  BY <1>1, <1>4 DEF Creating
<1>7. /\ Cardinality(Creating(p)') = Cardinality(Creating(p)) - 1
      /\ Cardinality(Creating(p)) \in Nat
  BY <1>5, <1>6, CreatingBounded, FS_RemoveElement
<1>8. ASSUME NEW q \in Pools
      PROVE  Cardinality(Entries(q)') + Cardinality(Creating(q)')
               < MaxSize + Cardinality(Sessions)
  <2>1. CASE q = p
    <3>1. Cardinality(Entries(p)) + Cardinality(Creating(p)) < MaxSize + Cardinality(Sessions)
      BY DEF OvershootBounded
    <3> QED
      BY <1>3, <1>7, <2>1, <3>1, CreatingBounded, PoolAssumption
  <2>2. CASE q # p
    BY <1>2, <1>5, <2>2, FewerCreatorsKeepBound
  <2> QED
    BY <2>1, <2>2
<1> QED
  BY <1>8 DEF OvershootBounded

LEMMA NextOvershootBounded ==
    ASSUME TypeOK, EntriesFinite, OvershootBounded, [Next]_vars
    PROVE  OvershootBounded'
<1>1. ASSUME NEW s \in Sessions, RoomLeft(s) PROVE OvershootBounded'
  BY <1>1, RoomLeftKeepsBound
<1>2. ASSUME NEW s \in Sessions, Push(s) PROVE OvershootBounded'
  BY <1>2, PushKeepsBound
<1>3. ASSUME size' = size, \A p \in Pools : Creating(p)' \subseteq Creating(p)
      PROVE  OvershootBounded'
  <2>1. ASSUME NEW p \in Pools PROVE Entries(p)' = Entries(p)
    BY <1>3 DEF Entries
  <2> QED
    BY <1>3, <2>1, FewerCreatorsKeepBound DEF OvershootBounded
<1>4. ASSUME NEW s \in Sessions, Begin(s) \/ Reuse(s)
      PROVE  size' = size /\ \A p \in Pools : Creating(p)' \subseteq Creating(p)
  <2>1. /\ size' = size /\ stage'[s] # "create"
        /\ \A t \in Sessions : t # s => stage'[t] = stage[t] /\ step'[t] = step[t]
    BY <1>4 DEF Begin, Reuse, Got, TypeOK
  <2> QED
    BY <2>1 DEF Creating
<1>5. ASSUME NEW s \in Sessions,
             NoneIdle(s) \/ PoolFull(s) \/ FactoryFails(s) \/ Close(s) \/ Dropped(s)
      PROVE  size' = size /\ \A p \in Pools : Creating(p)' \subseteq Creating(p)
  <2>1. /\ size' = size /\ step' = step /\ stage'[s] # "create"
        /\ \A t \in Sessions : t # s => stage'[t] = stage[t]
    BY <1>5 DEF NoneIdle, PoolFull, FactoryFails, Close, Dropped, TypeOK
  <2> QED
    BY <2>1 DEF Creating
<1>6. ASSUME NEW s \in Sessions, NEW p \in Pools, DropHandle(s, p)
      PROVE  size' = size /\ \A q \in Pools : Creating(q)' \subseteq Creating(q)
  BY <1>6 DEF DropHandle, Creating
<1>7. ASSUME UNCHANGED vars
      PROVE  size' = size /\ \A p \in Pools : Creating(p)' \subseteq Creating(p)
  BY <1>7 DEF vars, Creating
<1> QED
  BY <1>1, <1>2, <1>3, <1>4, <1>5, <1>6, <1>7 DEF Next

-----------------------------------------------------------------------------

LEMMA NextIInv == IInv /\ [Next]_vars => IInv'
  BY NextTypeOK, NextInUseInVector, NextAcquiresInOrder, NextEntriesFinite,
     NextInUseCountsHandles, NextOvershootBounded DEF IInv

\* However sessions fail, close and interleave, the entries of a key marked
\* in_use are as many as the live handles of that key.
THEOREM InUseIsLiveHandles == Spec => []InUseCountsHandles
<1>1. IInv => InUseCountsHandles
  BY DEF IInv
<1> QED
  BY <1>1, InitIInv, NextIInv, PTL DEF Spec

\* Concurrent initialisations take a pool past max_size by fewer entries than
\* there are sessions.
THEOREM LimitOvershoot == Spec => []OvershootBounded
<1>1. IInv => OvershootBounded
  BY DEF IInv
<1> QED
  BY <1>1, InitIInv, NextIInv, PTL DEF Spec

(***************************************************************************)
(* What KnowledgeSync promises for every set of documents and every number *)
(* of jobs.  A document is never lost because a copy is named, or read in  *)
(* a row, only after the job that made it has named it: a deletion takes   *)
(* such a copy alone, and only when the one that replaces it is ready or   *)
(* its document is gone.                                                   *)
(***************************************************************************)
DocRecords == [here : BOOLEAN, file : BOOLEAN, ext : Jobs \cup {NoJob},
               status : {"none", "pending", "uploading", "synced", "upload_failed", "parse_failed"}]
JobRecords == [kind : {"none", "doc", "base", "delete"}, doc : Docs \cup {NoDoc},
               at : {"unused", "load", "mark", "ensure", "create", "merge", "write", "upload",
                     "parse", "replace", "name", "delete", "count", "drop", "over"},
               file : BOOLEAN, old : Jobs \cup {NoJob}, dataset : Jobs \cup {NoJob},
               seen : Jobs \cup {NoJob}, own : BOOLEAN, next : {"ensure", "upload", "merge", "over"}]
CopyRecords == [doc : Docs \cup {NoDoc}, dataset : Jobs \cup {NoJob}, here : BOOLEAN]

\* A job that has made its copy and named it, or never will.
Settled(r) == r.kind = "doc" /\ (r.at = "over" \/ (r.at \in {"merge", "write"} /\ r.next = "over"))
\* A job that has its copy ready, and is about to name it.
Ready(r) == r.kind = "doc" /\ r.at \in {"parse", "replace"}
Naming(r) == r.kind = "doc" /\ r.at = "name"

HasCopy(d) == \E j \in Jobs : copy[j].doc = d /\ copy[j].here

\* Jobs are spawned in the order of their numbers, and one that was not has done nothing.
SpawnedInOrder == \A i, j \in Jobs : i < j /\ IsSpawned(j) => IsSpawned(i)
UnspawnedRests == \A j \in Jobs : ~ IsSpawned(j) => job[j] = Waiting

\* What a job is about.
JobsHaveDocs ==
    \A j \in Jobs : /\ job[j].kind = "doc" => job[j].doc \in Docs
                    /\ job[j].next # "over" => job[j].at \in {"merge", "write"}

\* A copy is of the document of the job that made it, which has it ready, names it or has named it.
CopyIsOwn ==
    \A j \in Jobs :
       copy[j].doc # NoDoc => /\ job[j].doc = copy[j].doc
                              /\ Ready(job[j]) \/ Naming(job[j]) \/ Settled(job[j])

\* A copy that a row names, or a job has read in a row, is of that document, and was named by its
\* job: nobody deletes a copy that is not named yet.
RowsNameTheirs ==
    \A d \in Docs : doc[d].ext # NoJob => Settled(job[doc[d].ext]) /\ copy[doc[d].ext].doc = d
JobsReadTheirs ==
    \A j \in Jobs : job[j].old # NoJob => /\ job[j].doc \in Docs
                                          /\ Settled(job[job[j].old])
                                          /\ copy[job[j].old].doc = job[j].doc

\* The copy of a job that has not named it is there.
ReadyIsThere ==
    \A j \in Jobs : /\ Ready(job[j]) => copy[j].doc = job[j].doc /\ copy[j].here
                    /\ Naming(job[j]) /\ copy[j].doc # NoDoc => copy[j].here
                    /\ Naming(job[j]) /\ provider # "dify" => copy[j].doc = job[j].doc

\* A document that is about to be named has a copy, and so has one that was named.
NamedHasCopy == \A j \in Jobs : Naming(job[j]) /\ doc[job[j].doc].here => HasCopy(job[j].doc)

\* No deletion runs for a document that is there.
HereIsNotDeleted ==
    \A d \in Docs, j \in Jobs : doc[d].here /\ job[j].kind = "delete" => job[j].doc # d

\* The copy that a synchronised row names is there, and who has read it has not marked the row yet.
SyncedIsSafe ==
    \A d \in Docs : doc[d].here /\ doc[d].status = "synced" /\ provider # "dify" =>
       /\ doc[d].ext # NoJob /\ copy[doc[d].ext].here
       /\ \A j \in Jobs : job[j].old = doc[d].ext /\ job[j].kind = "doc" => job[j].at = "mark"

\* The types of the rows, the jobs and the copies.
SyncRecords ==
    /\ doc \in [Docs -> DocRecords] /\ job \in [Jobs -> JobRecords] /\ copy \in [Jobs -> CopyRecords]
    /\ everSynced \subseteq Docs

SyncGoes ==
    /\ SyncRecords /\ SpawnedInOrder /\ UnspawnedRests /\ JobsHaveDocs /\ CopyIsOwn /\ RowsNameTheirs
    /\ JobsReadTheirs /\ ReadyIsThere /\ NamedHasCopy /\ HereIsNotDeleted /\ SyncedIsSafe
    /\ KeepsACopy
SyncInv == SyncTypeOK /\ SyncGoes

\* A step of job j keeps what the job is about and settles nothing that is not, and reads at most
\* the row of its document; it comes to naming a copy when there is one.
JobMoves(j) ==
    /\ job' \in [Jobs -> JobRecords] /\ \A i \in Jobs \ {j} : job'[i] = job[i]
    /\ job[j].kind # "none" /\ job'[j].kind = job[j].kind /\ job'[j].doc = job[j].doc
    /\ \/ job'[j].old \in {NoJob, job[j].old}
       \/ job'[j].at = "mark" /\ job[j].doc \in Docs /\ job'[j].old = doc[job[j].doc].ext
    /\ Settled(job[j]) => Settled(job'[j])
    /\ Ready(job'[j]) => Ready(job[j])
    /\ Naming(job'[j]) => \/ Naming(job[j]) \/ Ready(job[j])
                          \/ provider = "dify" /\ copy[j].doc = NoDoc /\ HasCopy(job[j].doc)
    /\ Ready(job[j]) \/ Naming(job[j]) => Ready(job'[j]) \/ Naming(job'[j])
    /\ job'[j].next # "over" => job'[j].at \in {"merge", "write"}

\* What it may do to the rows: put back the copy it has read of its document, which is not
\* synchronised after that.
RowMoves(j) ==
    /\ doc' \in [Docs -> DocRecords]
    /\ \A d \in Docs :
          /\ doc'[d].here = doc[d].here
          /\ doc'[d].ext # doc[d].ext => job[j].doc = d /\ doc'[d].ext = job[j].old
          /\ doc[d].here /\ doc'[d].status = "synced" => doc'[d] = doc[d]
          /\ (job[j].kind = "doc" /\ job[j].doc = d /\ job[j].at = "mark" /\ job'[j].at # "mark"
                /\ job'[j].old # NoJob /\ doc[d].here) => doc'[d].status # "synced"

\* And to the copies: it deletes the one it has read, when its own is ready or the document is gone.
CopyMoves(j) ==
    \/ copy' = copy
    \/ /\ job[j].old # NoJob
       /\ Ready(job[j]) \/ job[j].kind = "delete"
       /\ copy' = [copy EXCEPT ![job[j].old].here = FALSE]

LEMMA SyncTypes == SyncTypeOK =>
    /\ doc \in [Docs -> DocRecords] /\ job \in [Jobs -> JobRecords] /\ copy \in [Jobs -> CopyRecords]
    /\ NoJob \notin Jobs /\ Jobs \subseteq Nat /\ NoDoc \notin Docs
  BY KnowledgeAssumption DEF SyncTypeOK, DocRecords, JobRecords, CopyRecords, NoJob, Jobs

\* No copy is lost that is not named, nor the last one of a document.
LEMMA CopiesStay ==
    ASSUME SyncInv, NEW j \in Jobs, CopyMoves(j)
    PROVE  /\ copy' \in [Jobs -> CopyRecords]
           /\ \A i \in Jobs : /\ copy'[i].doc = copy[i].doc
                              /\ Ready(job[i]) \/ Naming(job[i]) => copy'[i].here = copy[i].here
           /\ \A d \in Docs : doc[d].here /\ HasCopy(d) => HasCopy(d)'
           /\ \A i \in Jobs : copy[i].here /\ ~ copy'[i].here
                 => /\ i = job[j].old
                    /\ Ready(job[j]) \/ job[j].kind = "delete"
<1>1. job \in [Jobs -> JobRecords] /\ copy \in [Jobs -> CopyRecords] /\ NoJob \notin Jobs
      /\ NoDoc \notin Docs
  BY SyncTypes DEF SyncInv
<1>2. CASE copy' = copy
  BY <1>1, <1>2 DEF HasCopy
<1>3. ASSUME job[j].old # NoJob, Ready(job[j]) \/ job[j].kind = "delete",
             copy' = [copy EXCEPT ![job[j].old].here = FALSE]
      PROVE  /\ copy' \in [Jobs -> CopyRecords]
             /\ \A i \in Jobs : /\ copy'[i].doc = copy[i].doc
                                /\ Ready(job[i]) \/ Naming(job[i]) => copy'[i].here = copy[i].here
             /\ \A d \in Docs : doc[d].here /\ HasCopy(d) => HasCopy(d)'
             /\ \A i \in Jobs : copy[i].here /\ ~ copy'[i].here => i = job[j].old
  <2>1. PICK o \in Jobs : o = job[j].old
    BY <1>1, <1>3 DEF JobRecords
  <2>2. PICK c : c = [copy[o] EXCEPT !.here = FALSE]
    OBVIOUS
  <2>3. c \in CopyRecords /\ c.doc = copy[o].doc /\ c.here = FALSE
    BY <1>1, <2>2 DEF CopyRecords
  <2>4. copy' = [copy EXCEPT ![o] = c]
    BY <1>1, <1>3, <2>1, <2>2
  <2>5. Settled(job[o]) /\ copy[o].doc = job[j].doc /\ job[j].doc \in Docs
    BY <1>1, <2>1 DEF SyncInv, SyncGoes, JobsReadTheirs
  <2>6. /\ copy' \in [Jobs -> CopyRecords] /\ \A i \in Jobs : copy'[i].doc = copy[i].doc
        /\ \A i \in Jobs \ {o} : copy'[i] = copy[i]
    BY <1>1, <2>3, <2>4
  <2>7. ASSUME NEW i \in Jobs, Ready(job[i]) \/ Naming(job[i]) PROVE i # o
    BY <2>5, <2>7 DEF Settled, Ready, Naming
  <2>8. ASSUME NEW d \in Docs, doc[d].here, HasCopy(d) PROVE HasCopy(d)'
    <3>1. CASE d # job[j].doc
      BY <2>5, <2>6, <2>8, <3>1 DEF HasCopy
    <3>2. CASE d = job[j].doc
      <4>1. Ready(job[j])
        BY <1>3, <2>8, <3>2 DEF SyncInv, SyncGoes, HereIsNotDeleted
      <4>2. copy[j].doc = d /\ copy[j].here
        BY <3>2, <4>1 DEF SyncInv, SyncGoes, ReadyIsThere
      <4> QED
        BY <2>6, <2>7, <4>1, <4>2 DEF HasCopy
    <3> QED
      BY <3>1, <3>2
  <2> QED
    BY <2>1, <2>6, <2>7, <2>8
<1> QED
  BY <1>2, <1>3 DEF CopyMoves

LEMMA MovesKeep ==
    ASSUME SyncInv, NEW j \in Jobs, JobMoves(j), RowMoves(j), CopyMoves(j),
           UNCHANGED <<provider, everSynced>>
    PROVE  SyncGoes'
<1>1. /\ doc \in [Docs -> DocRecords] /\ job \in [Jobs -> JobRecords]
      /\ copy \in [Jobs -> CopyRecords] /\ NoJob \notin Jobs /\ Jobs \subseteq Nat
      /\ NoDoc \notin Docs
  BY SyncTypes DEF SyncInv
<1>2. \A i \in Jobs : /\ job'[i].kind = job[i].kind /\ job'[i].doc = job[i].doc
                      /\ Settled(job[i]) => Settled(job'[i])
                      /\ Ready(job'[i]) => Ready(job[i])
                      /\ i # j /\ Naming(job'[i]) => Naming(job[i])
  BY DEF JobMoves
<1>3. /\ \A i \in Jobs : /\ copy'[i].doc = copy[i].doc
                         /\ Ready(job[i]) \/ Naming(job[i]) => copy'[i].here = copy[i].here
      /\ \A d \in Docs : doc[d].here /\ HasCopy(d) => HasCopy(d)'
      /\ \A i \in Jobs : copy[i].here /\ ~ copy'[i].here
            => i = job[j].old /\ (Ready(job[j]) \/ job[j].kind = "delete")
  BY CopiesStay
<1>4. SpawnedInOrder' /\ UnspawnedRests' /\ JobsHaveDocs'
  BY <1>1, <1>2 DEF SyncInv, SyncGoes, SpawnedInOrder, UnspawnedRests, JobsHaveDocs, JobMoves,
     IsSpawned
<1>5. CopyIsOwn'
  BY <1>1, <1>2, <1>3 DEF SyncInv, SyncGoes, CopyIsOwn, JobMoves
<1>6. RowsNameTheirs'
  <2> SUFFICES ASSUME NEW d \in Docs, doc'[d].ext # NoJob
               PROVE  Settled(job'[doc'[d].ext]) /\ copy'[doc'[d].ext].doc = d
    BY DEF RowsNameTheirs
  <2>1. doc[d].ext \in Jobs \cup {NoJob} /\ job[j].old \in Jobs \cup {NoJob}
    BY <1>1 DEF DocRecords, JobRecords
  <2>2. CASE doc'[d].ext = doc[d].ext
    BY <1>2, <1>3, <2>1, <2>2 DEF SyncInv, SyncGoes, RowsNameTheirs
  <2>3. CASE doc'[d].ext # doc[d].ext
    BY <1>2, <1>3, <2>1, <2>3 DEF SyncInv, SyncGoes, JobsReadTheirs, RowMoves
  <2> QED
    BY <2>2, <2>3
<1>7. JobsReadTheirs'
  <2> SUFFICES ASSUME NEW i \in Jobs, job'[i].old # NoJob
               PROVE  /\ job'[i].doc \in Docs /\ Settled(job'[job'[i].old])
                      /\ copy'[job'[i].old].doc = job'[i].doc
    BY DEF JobsReadTheirs
  <2>1. CASE job'[i].old = job[i].old
    <3>1. job[i].old \in Jobs
      BY <1>1, <2>1 DEF JobRecords
    <3> QED
      BY <1>2, <1>3, <2>1, <3>1 DEF SyncInv, SyncGoes, JobsReadTheirs
  <2>2. CASE job'[i].old # job[i].old
    <3>1. i = j /\ job[j].doc \in Docs /\ job'[j].old = doc[job[j].doc].ext
      BY <2>2 DEF JobMoves
    <3>2. job'[j].old \in Jobs
      BY <3>1, <1>1 DEF DocRecords
    <3> QED
      BY <1>2, <1>3, <3>1, <3>2 DEF SyncInv, SyncGoes, RowsNameTheirs
  <2> QED
    BY <2>1, <2>2
<1>8. ReadyIsThere'
  BY <1>1, <1>2, <1>3 DEF SyncInv, SyncGoes, ReadyIsThere, JobMoves
<1>9. NamedHasCopy'
  <2> SUFFICES ASSUME NEW i \in Jobs, Naming(job'[i]), doc'[job'[i].doc].here
               PROVE  \E k \in Jobs : copy'[k].doc = job'[i].doc /\ copy'[k].here
    BY DEF NamedHasCopy, HasCopy
  <2>1. job[i].doc \in Docs /\ job'[i].doc = job[i].doc
    BY <1>2 DEF SyncInv, SyncGoes, JobsHaveDocs, Naming
  <2>2. doc[job[i].doc].here
    BY <2>1 DEF RowMoves
  <2>3. HasCopy(job[i].doc)
    <3>1. CASE Naming(job[i])
      BY <2>2, <3>1 DEF SyncInv, SyncGoes, NamedHasCopy
    <3>2. CASE Ready(job[i])
      BY <3>2 DEF SyncInv, SyncGoes, ReadyIsThere, HasCopy
    <3> QED
      BY <1>2, <3>1, <3>2 DEF JobMoves
  <2> QED
    BY <1>3, <2>1, <2>2, <2>3 DEF HasCopy
<1>10. HereIsNotDeleted'
  BY <1>2 DEF SyncInv, SyncGoes, HereIsNotDeleted, RowMoves
<1>11. SyncedIsSafe'
  <2> SUFFICES ASSUME NEW d \in Docs, doc'[d].here, doc'[d].status = "synced", provider # "dify"
               PROVE  /\ doc'[d].ext # NoJob /\ copy'[doc'[d].ext].here
                      /\ \A i \in Jobs : job'[i].old = doc'[d].ext /\ job'[i].kind = "doc"
                                           => job'[i].at = "mark"
    BY DEF SyncedIsSafe
  <2>1. doc[d].here /\ doc'[d] = doc[d]
    BY DEF RowMoves
  <2>2. /\ doc[d].ext # NoJob /\ copy[doc[d].ext].here
        /\ \A i \in Jobs : job[i].old = doc[d].ext /\ job[i].kind = "doc" => job[i].at = "mark"
    BY <2>1 DEF SyncInv, SyncGoes, SyncedIsSafe
  <2>3. ASSUME NEW i \in Jobs, job'[i].old = doc[d].ext, job'[i].kind = "doc",
               job'[i].at # "mark"
        PROVE  FALSE
    <3>1. i = j /\ job[j].old = doc[d].ext
      BY <2>2, <2>3 DEF JobMoves
    <3>2. job[j].at = "mark" /\ job[j].kind = "doc"
      BY <1>2, <2>2, <2>3, <3>1
    <3>3. job[j].doc = d
      BY <2>2, <3>1 DEF SyncInv, SyncGoes, JobsReadTheirs, RowsNameTheirs
    <3> QED
      BY <2>1, <2>2, <2>3, <3>1, <3>2, <3>3 DEF RowMoves
  <2>4. copy'[doc[d].ext].here
    <3>1. doc[d].ext \in Jobs
      BY <1>1, <2>2 DEF DocRecords
    <3>2. ASSUME ~ copy'[doc[d].ext].here PROVE FALSE
      <4>1. job[j].old = doc[d].ext /\ (Ready(job[j]) \/ job[j].kind = "delete")
        BY <1>3, <2>2, <3>1, <3>2
      <4>2. ~ Ready(job[j])
        BY <2>2, <4>1 DEF Ready
      <4>3. job[j].doc = d
        BY <2>2, <4>1 DEF SyncInv, SyncGoes, JobsReadTheirs, RowsNameTheirs
      <4> QED
        BY <2>1, <4>1, <4>2, <4>3 DEF SyncInv, SyncGoes, HereIsNotDeleted
    <3> QED
      BY <3>2
  <2> QED
    BY <2>1, <2>2, <2>3, <2>4
<1>13. SyncRecords'
  BY CopiesStay DEF SyncInv, SyncGoes, SyncRecords, JobMoves, RowMoves
<1>12. KeepsACopy'
  BY <1>3 DEF SyncInv, SyncGoes, KeepsACopy, HasCopy, RowMoves, SyncTypeOK
<1> QED
  BY <1>4, <1>5, <1>6, <1>7, <1>8, <1>9, <1>10, <1>11, <1>12, <1>13 DEF SyncGoes

\* A job that goes on to another place, with what it has.
Places == {"unused", "load", "mark", "ensure", "create", "merge", "write", "upload",
           "parse", "replace", "name", "delete", "count", "drop", "over"}
LEMMA ThenFields ==
    ASSUME SyncTypeOK, NEW j \in Jobs, NEW at \in Places, Then(j, at)
    PROVE  /\ job' \in [Jobs -> JobRecords] /\ \A i \in Jobs \ {j} : job'[i] = job[i]
           /\ job'[j].kind = job[j].kind /\ job'[j].doc = job[j].doc /\ job'[j].at = at
           /\ job'[j].old = IF at = "over" THEN NoJob ELSE job[j].old
           /\ job'[j].next = IF at = "over" THEN "over" ELSE job[j].next
<1>1. job \in [Jobs -> JobRecords]
  BY SyncTypes
<1>2. CASE at = "over"
  <2>1. /\ Ended(j) \in JobRecords
        /\ Ended(j).kind = job[j].kind /\ Ended(j).doc = job[j].doc /\ Ended(j).at = "over"
        /\ Ended(j).old = NoJob /\ Ended(j).next = "over"
    BY <1>1 DEF Ended, Waiting, JobRecords
  <2>2. job' = [job EXCEPT ![j] = Ended(j)]
    BY <1>2 DEF Then, Over
  <2> QED
    BY <1>1, <1>2, <2>1, <2>2
<1>3. CASE at # "over"
  <2>1. job' = [job EXCEPT ![j].at = at]
    BY <1>3 DEF Then
  <2>2. PICK r : r = [job[j] EXCEPT !.at = at]
    OBVIOUS
  <2>3. /\ r \in JobRecords /\ r.kind = job[j].kind /\ r.doc = job[j].doc /\ r.at = at
        /\ r.old = job[j].old /\ r.next = job[j].next
    BY <1>1, <2>2 DEF JobRecords, Places
  <2>4. job'[j] = r /\ \A i \in Jobs \ {j} : job'[i] = job[i]
    BY <1>1, <2>1, <2>2
  <2>5. job' \in [Jobs -> JobRecords]
    BY <1>1, <2>1, <2>2, <2>3
  <2> QED
    BY <1>3, <2>3, <2>4, <2>5
<1> QED
  BY <1>2, <1>3

\* Nothing changes in the rows.
LEMMA RowsStay ==
    ASSUME SyncTypeOK, NEW j \in Jobs, UNCHANGED doc,
           (job[j].at = "mark" => job'[j].old = NoJob \/ job'[j].at = "mark")
    PROVE  RowMoves(j)
  BY SyncTypes DEF RowMoves

\* What a failure leaves in the row.
LEMMA FailRowMoves ==
    ASSUME SyncInv, NEW j \in Jobs, NEW status \in {"uploading", "upload_failed"},
           job[j].kind = "doc", doc' = FailRow(j, status)
    PROVE  RowMoves(j)
<1>1. doc \in [Docs -> DocRecords] /\ job[j] \in JobRecords /\ job[j].doc \in Docs
  BY SyncTypes DEF SyncInv, SyncGoes, JobsHaveDocs
<1> DEFINE d == job[j].doc
<1>2. CASE ~ doc[d].here
  <2>1. doc' = doc
    BY <1>1, <1>2 DEF FailRow
  <2> QED
    BY <1>1, <1>2, <2>1 DEF RowMoves
<1>3. CASE doc[d].here
  <2> DEFINE e == IF job[j].old = NoJob THEN doc[d].ext ELSE job[j].old
             r == [doc[d] EXCEPT !.status = status, !.ext = e]
  <2>1. e \in Jobs \cup {NoJob} /\ doc[d] \in DocRecords
    BY <1>1 DEF DocRecords, JobRecords
  <2>2. doc' = [doc EXCEPT ![d] = r]
    BY <1>3 DEF FailRow
  <2>3. e \in {doc[d].ext, job[j].old}
    OBVIOUS
  <2> HIDE DEF e
  <2>4. r \in DocRecords /\ r.here = doc[d].here /\ r.status = status /\ r.ext = e
    BY <2>1 DEF DocRecords
  <2> HIDE DEF r
  <2> QED
    BY <1>1, <2>2, <2>3, <2>4 DEF RowMoves
<1> QED
  BY <1>2, <1>3

\* A job that has no copy yet, or whose copy is parsed, goes on.
LEMMA ThenMoves ==
    ASSUME SyncInv, NEW j \in Jobs, NEW at \in Places \ {"parse", "name"}, Then(j, at),
           job[j].at \notin {"unused", "over", "merge", "write", "name", "replace"},
           at = "replace" <=> job[j].at = "parse"
    PROVE  JobMoves(j)
<1>1. SyncTypeOK /\ job \in [Jobs -> JobRecords] /\ at \in Places
  BY SyncTypes DEF SyncInv
<1>2. job[j].kind # "none"
  BY DEF SyncInv, SyncGoes, UnspawnedRests, IsSpawned, Waiting
<1>3. job[j].next = "over"
  BY <1>1 DEF SyncInv, SyncGoes, JobsHaveDocs
<1>4. /\ job' \in [Jobs -> JobRecords] /\ \A i \in Jobs \ {j} : job'[i] = job[i]
      /\ job'[j].kind = job[j].kind /\ job'[j].doc = job[j].doc /\ job'[j].at = at
      /\ job'[j].old \in {NoJob, job[j].old} /\ job'[j].next = "over"
  BY <1>1, <1>3, ThenFields
<1> QED
  BY <1>2, <1>4 DEF JobMoves, Settled, Ready, Naming

LEMMA MergesKeep ==
    ASSUME SyncInv, NEW j \in Jobs, MergeReads(j) \/ MergeWrites(j)
    PROVE  SyncGoes'
<1>1. SyncTypeOK /\ job \in [Jobs -> JobRecords] /\ base.dataset \in Jobs \cup {NoJob}
      /\ job[j].at \in {"merge", "write"} /\ UNCHANGED <<provider, doc, copy, everSynced>>
  BY SyncTypes DEF SyncInv, MergeReads, MergeWrites, SyncTypeOK
<1>2. job[j].kind # "none"
  BY <1>1 DEF SyncInv, SyncGoes, UnspawnedRests, IsSpawned, Waiting
<1>3. CASE MergeReads(j)
  <2>1. PICK r : r = [job[j] EXCEPT !.seen = base.dataset, !.at = "write"]
    OBVIOUS
  <2>2. /\ r \in JobRecords /\ r.kind = job[j].kind /\ r.doc = job[j].doc /\ r.old = job[j].old
        /\ r.next = job[j].next /\ r.at = "write"
    BY <1>1, <2>1 DEF JobRecords
  <2>3. job' = [job EXCEPT ![j] = r] /\ job[j].at = "merge"
    BY <1>3, <1>1, <2>1 DEF MergeReads
  <2>4. JobMoves(j)
    BY <1>1, <1>2, <2>2, <2>3 DEF JobMoves, Settled, Ready, Naming
  <2> QED
    BY <1>1, <2>2, <2>3, <2>4, RowsStay, MovesKeep DEF CopyMoves
<1>4. CASE MergeWrites(j) /\ job[j].next = "over"
  <2>1. Then(j, "over")
    BY <1>4 DEF MergeWrites, Then
  <2>2. /\ job' \in [Jobs -> JobRecords] /\ \A i \in Jobs \ {j} : job'[i] = job[i]
        /\ job'[j].kind = job[j].kind /\ job'[j].doc = job[j].doc /\ job'[j].at = "over"
        /\ job'[j].old = NoJob /\ job'[j].next = "over"
    BY <1>1, <2>1, ThenFields DEF Places
  <2>3. JobMoves(j)
    BY <1>1, <1>2, <2>2 DEF JobMoves, Settled, Ready, Naming
  <2> QED
    BY <1>1, <2>2, <2>3, RowsStay, MovesKeep DEF CopyMoves
<1>5. CASE MergeWrites(j) /\ job[j].next # "over"
  <2>1. PICK r : r = [job[j] EXCEPT !.own = FALSE, !.seen = NoJob, !.at = job[j].next, !.next = "over"]
    OBVIOUS
  <2>2. /\ r \in JobRecords /\ r.kind = job[j].kind /\ r.doc = job[j].doc /\ r.old = job[j].old
        /\ r.next = "over" /\ r.at \in {"ensure", "upload", "merge"}
    BY <1>1, <1>5, <2>1 DEF JobRecords
  <2>3. job' = [job EXCEPT ![j] = r]
    BY <1>5, <1>1, <2>1 DEF MergeWrites
  <2>4. JobMoves(j)
    BY <1>1, <1>2, <1>5, <2>2, <2>3 DEF JobMoves, Settled, Ready, Naming
  <2> QED
    BY <1>1, <2>2, <2>3, <2>4, RowsStay, MovesKeep DEF CopyMoves
<1> QED
  BY <1>3, <1>4, <1>5, <1>1 DEF MergeReads, MergeWrites

LEMMA EnsuresKeep ==
    ASSUME SyncInv, NEW j \in Jobs,
           EnsureKnown(j) \/ EnsureAsks(j) \/ EnsureCreates(j) \/ EnsureFails(j) \/ NoConfig(j)
    PROVE  SyncGoes'
<1>1. SyncTypeOK /\ job \in [Jobs -> JobRecords] /\ base.dataset \in Jobs \cup {NoJob}
      /\ job[j].at \in {"ensure", "create"} /\ UNCHANGED <<provider, copy, everSynced>>
  BY SyncTypes
     DEF SyncInv, EnsureKnown, EnsureAsks, EnsureCreates, EnsureFails, NoConfig, SyncTypeOK
<1>2. job[j].kind # "none" /\ job[j].next = "over"
  BY <1>1 DEF SyncInv, SyncGoes, UnspawnedRests, JobsHaveDocs, IsSpawned, Waiting
<1>3. CASE EnsureKnown(j)
  <2>1. PICK r : r = [job[j] EXCEPT !.dataset = base.dataset, !.at = Ensured(j)]
    OBVIOUS
  <2>2. /\ r \in JobRecords /\ r.kind = job[j].kind /\ r.doc = job[j].doc /\ r.old = job[j].old
        /\ r.next = "over" /\ r.at = Ensured(j)
    BY <1>1, <1>2, <2>1 DEF JobRecords, Ensured
  <2>3. job' = [job EXCEPT ![j] = r] /\ doc' = doc
    BY <1>3, <1>1, <2>1 DEF EnsureKnown
  <2>4. JobMoves(j)
    BY <1>1, <1>2, <2>2, <2>3 DEF JobMoves, Settled, Ready, Naming, Ensured
  <2> QED
    BY <1>1, <2>3, <2>4, RowsStay, MovesKeep DEF CopyMoves
<1>4. CASE EnsureCreates(j)
  <2>1. PICK r : r = [job[j] EXCEPT !.dataset = j, !.own = TRUE, !.at = "merge", !.next = Ensured(j)]
    OBVIOUS
  <2>2. /\ r \in JobRecords /\ r.kind = job[j].kind /\ r.doc = job[j].doc /\ r.old = job[j].old
        /\ r.at = "merge"
    BY <1>1, <1>2, <2>1 DEF JobRecords, Ensured
  <2>3. job' = [job EXCEPT ![j] = r] /\ doc' = doc
    BY <1>4, <1>1, <2>1 DEF EnsureCreates
  <2>4. JobMoves(j)
    BY <1>1, <1>2, <2>2, <2>3 DEF JobMoves, Settled, Ready, Naming
  <2> QED
    BY <1>1, <2>3, <2>4, RowsStay, MovesKeep DEF CopyMoves
<1>5. ASSUME NEW at \in {"create", "merge", "over"}, Then(j, at)
      PROVE  JobMoves(j)
  BY <1>1, <1>5, ThenMoves DEF Places
<1>6. CASE EnsureAsks(j) \/ NoConfig(j) \/ (EnsureFails(j) /\ job[j].kind # "doc")
  <2>1. JobMoves(j) /\ doc' = doc
    BY <1>5, <1>6 DEF EnsureAsks, NoConfig, EnsureFails
  <2> QED
    BY <1>1, <2>1, RowsStay, MovesKeep DEF CopyMoves
<1>7. CASE EnsureFails(j) /\ job[j].kind = "doc"
  <2>1. doc' = FailRow(j, "upload_failed") /\ JobMoves(j)
    BY <1>5, <1>7 DEF EnsureFails, Then
  <2> QED
    BY <1>1, <1>7, <2>1, FailRowMoves, MovesKeep DEF CopyMoves
<1> QED
  BY <1>3, <1>4, <1>6, <1>7

LEMMA LoadKeeps == ASSUME SyncInv, NEW j \in Jobs, Load(j) PROVE SyncGoes'
<1>1. SyncTypeOK /\ job \in [Jobs -> JobRecords] /\ doc \in [Docs -> DocRecords]
      /\ job[j].kind = "doc" /\ job[j].at = "load" /\ UNCHANGED <<provider, doc, copy, everSynced>>
  BY SyncTypes DEF SyncInv, Load, JobAt
<1>2. job[j].doc \in Docs /\ job[j].next = "over"
  BY <1>1 DEF SyncInv, SyncGoes, JobsHaveDocs
<1> DEFINE d == job[j].doc
<1>3. CASE job' = [job EXCEPT ![j].old = doc[d].ext, ![j].file = doc[d].file, ![j].at = "mark"]
  <2>1. PICK r : r = [job[j] EXCEPT !.old = doc[d].ext, !.file = doc[d].file, !.at = "mark"]
    OBVIOUS
  <2>2. /\ r \in JobRecords /\ r.kind = "doc" /\ r.doc = d /\ r.old = doc[d].ext
        /\ r.next = "over" /\ r.at = "mark"
    BY <1>1, <1>2, <2>1 DEF JobRecords, DocRecords
  <2>3. job' = [job EXCEPT ![j] = r]
    BY <1>1, <1>3, <2>1
  <2>4. JobMoves(j)
    BY <1>1, <1>2, <2>2, <2>3 DEF JobMoves, Settled, Ready, Naming
  <2> QED
    BY <1>1, <2>2, <2>3, <2>4, RowsStay, MovesKeep DEF CopyMoves
<1>4. CASE Then(j, "over")
  <2>1. JobMoves(j)
    BY <1>1, <1>4, ThenMoves DEF Places
  <2> QED
    BY <1>1, <2>1, RowsStay, MovesKeep DEF CopyMoves
<1> QED
  BY <1>3, <1>4 DEF Load, Then

\* The row is marked, or told of a failure.
LEMMA MarksKeep ==
    ASSUME SyncInv, NEW j \in Jobs, MarkUploading(j) \/ UploadFails(j)
    PROVE  SyncGoes'
<1>1. /\ job[j].kind = "doc" /\ job[j].at \in {"mark", "upload"}
      /\ \E status \in {"uploading", "upload_failed"} : doc' = FailRow(j, status)
      /\ Then(j, "ensure") \/ Then(j, "over")
  BY DEF MarkUploading, UploadFails, JobAt, Then
<1>2. UNCHANGED <<provider, copy, everSynced>>
  BY DEF MarkUploading, UploadFails
<1>3. JobMoves(j)
  BY <1>1, ThenMoves DEF Places
<1> QED
  BY <1>1, <1>2, <1>3, FailRowMoves, MovesKeep DEF CopyMoves

LEMMA DeletionsKeep ==
    ASSUME SyncInv, NEW j \in Jobs, Parsed(j) \/ CountDataset(j) \/ DropDataset(j) \/ DeleteCopy(j)
    PROVE  SyncGoes'
<1>1. /\ UNCHANGED <<provider, doc, everSynced>> /\ SyncTypeOK
      /\ job[j].at \in {"parse", "count", "drop", "delete"}
      /\ Parsed(j) => job[j].at = "parse"
      /\ ~ Parsed(j) => job[j].at # "parse"
  BY DEF Parsed, CountDataset, DropDataset, DeleteCopy, JobAt, SyncInv
<1>2. \E at \in {"replace", "over", "drop", "count"} :
         Then(j, at) /\ (at = "replace" <=> job[j].at = "parse")
  BY <1>1 DEF Parsed, CountDataset, DropDataset, DeleteCopy, Then
<1>3. JobMoves(j)
  BY <1>1, <1>2, ThenMoves DEF Places
<1>4. CopyMoves(j)
  BY DEF CopyMoves, Parsed, CountDataset, DropDataset, DeleteCopy, JobAt
<1> QED
  BY <1>1, <1>3, <1>4, RowsStay, MovesKeep

\* A job comes to naming its copy: it has replaced the old one, or has edited it in place.
LEMMA NamingKeeps ==
    ASSUME SyncInv, NEW j \in Jobs, ReplaceFile(j) \/ EditInPlace(j)
    PROVE  SyncGoes'
<1>1. /\ UNCHANGED <<provider, doc, everSynced>> /\ SyncTypeOK
      /\ job \in [Jobs -> JobRecords] /\ copy \in [Jobs -> CopyRecords] /\ NoJob \notin Jobs
      /\ job[j].kind = "doc" /\ job[j].at \in {"replace", "upload"} /\ Then(j, "name")
  BY SyncTypes DEF ReplaceFile, EditInPlace, JobAt, SyncInv
<1>2. job[j].next = "over"
  BY <1>1 DEF SyncInv, SyncGoes, JobsHaveDocs
<1>3. /\ job' \in [Jobs -> JobRecords] /\ \A i \in Jobs \ {j} : job'[i] = job[i]
      /\ job'[j].kind = job[j].kind /\ job'[j].doc = job[j].doc /\ job'[j].at = "name"
      /\ job'[j].old = job[j].old /\ job'[j].next = "over"
  BY <1>1, <1>2, ThenFields DEF Places
<1>4. CASE ReplaceFile(j)
  <2>1. job[j].at = "replace"
    BY <1>4 DEF ReplaceFile, JobAt
  <2>2. JobMoves(j)
    BY <1>1, <1>3, <2>1 DEF JobMoves, Settled, Ready, Naming
  <2>3. CopyMoves(j)
    BY <1>1, <1>4, <2>1 DEF CopyMoves, ReplaceFile, Ready
  <2> QED
    BY <1>1, <2>1, <2>2, <2>3, RowsStay, MovesKeep
<1>5. CASE EditInPlace(j)
  <2>1. /\ job[j].at = "upload" /\ provider = "dify" /\ job[j].old # NoJob
        /\ copy[job[j].old].here /\ copy' = copy
    BY <1>5 DEF EditInPlace, JobAt, InPlace
  <2>2. copy[j].doc = NoDoc
    BY <2>1 DEF SyncInv, SyncGoes, CopyIsOwn, Ready, Naming, Settled
  <2>3. HasCopy(job[j].doc)
    BY <1>1, <2>1 DEF SyncInv, SyncGoes, JobsReadTheirs, HasCopy, JobRecords
  <2>4. JobMoves(j)
    BY <1>1, <1>3, <2>1, <2>2, <2>3 DEF JobMoves, Settled, Ready, Naming
  <2> QED
    BY <1>1, <2>1, <2>4, RowsStay, MovesKeep DEF CopyMoves
<1> QED
  BY <1>4, <1>5

\* A job has its copy at the provider, beside the one it has read.
LEMMA UploadKeeps == ASSUME SyncInv, NEW j \in Jobs, Upload(j) PROVE SyncGoes'
<1>1. /\ UNCHANGED <<provider, doc, everSynced>> /\ SyncTypeOK
      /\ job \in [Jobs -> JobRecords] /\ copy \in [Jobs -> CopyRecords]
      /\ doc \in [Docs -> DocRecords] /\ NoJob \notin Jobs /\ Jobs \subseteq Nat /\ NoDoc \notin Docs
      /\ job[j].kind = "doc" /\ job[j].at = "upload"
      /\ copy' = [copy EXCEPT ![j] = [doc |-> job[j].doc, dataset |-> job[j].dataset, here |-> TRUE]]
  BY SyncTypes DEF Upload, JobAt, SyncInv
<1>2. job[j].next = "over" /\ job[j].doc \in Docs
  BY <1>1 DEF SyncInv, SyncGoes, JobsHaveDocs
<1>3. \E at \in {"replace", "parse"} :
         /\ job' \in [Jobs -> JobRecords] /\ \A i \in Jobs \ {j} : job'[i] = job[i]
         /\ job'[j].kind = "doc" /\ job'[j].doc = job[j].doc /\ job'[j].at = at
         /\ job'[j].old = job[j].old /\ job'[j].next = "over"
  <2>1. \E at \in {"replace", "parse"} : Then(j, at)
    BY DEF Upload
  <2> QED
    BY <1>1, <1>2, <2>1, ThenFields DEF Places
<1>4. /\ copy' \in [Jobs -> CopyRecords] /\ \A i \in Jobs \ {j} : copy'[i] = copy[i]
      /\ copy'[j].doc = job[j].doc /\ copy'[j].here
  BY <1>1 DEF CopyRecords, JobRecords
<1>5. copy[j].doc = NoDoc
  BY <1>1 DEF SyncInv, SyncGoes, CopyIsOwn, Ready, Naming, Settled
<1>6. ~ Settled(job[j]) /\ Ready(job'[j]) /\ ~ Naming(job[j]) /\ ~ Naming(job'[j])
  BY <1>1, <1>3 DEF Settled, Ready, Naming
<1>a. /\ \A i \in Jobs :
            /\ job[i].old \in Jobs \cup {NoJob}
            /\ Settled(job[i]) => i # j /\ job'[i] = job[i]
            /\ job'[i].old = job[i].old /\ job'[i].doc = job[i].doc /\ job'[i].kind = job[i].kind
      /\ \A x \in Docs : doc[x].ext \in Jobs \cup {NoJob}
  BY <1>1, <1>3, <1>6 DEF JobRecords, DocRecords
<1>7. SpawnedInOrder' /\ UnspawnedRests' /\ JobsHaveDocs'
  BY <1>1, <1>2, <1>3 DEF SyncInv, SyncGoes, SpawnedInOrder, UnspawnedRests, JobsHaveDocs, IsSpawned
<1>8. CopyIsOwn' /\ ReadyIsThere'
  BY <1>1, <1>2, <1>3, <1>4, <1>6 DEF SyncInv, SyncGoes, CopyIsOwn, ReadyIsThere
<1>9. RowsNameTheirs'
  BY <1>1, <1>3, <1>4, <1>6 DEF SyncInv, SyncGoes, RowsNameTheirs, DocRecords
<1>10. JobsReadTheirs'
  <2> SUFFICES ASSUME NEW i \in Jobs, job'[i].old # NoJob
               PROVE  /\ job'[i].doc \in Docs /\ Settled(job'[job'[i].old])
                      /\ copy'[job'[i].old].doc = job'[i].doc
    BY DEF JobsReadTheirs
  <2> QED
    BY <1>4, <1>a DEF SyncInv, SyncGoes, JobsReadTheirs
<1>11. \A d \in Docs : HasCopy(d) => HasCopy(d)'
  BY <1>1, <1>4, <1>5 DEF HasCopy
<1>12. NamedHasCopy' /\ HereIsNotDeleted' /\ KeepsACopy'
  <2>1. NamedHasCopy'
    <3> SUFFICES ASSUME NEW i \in Jobs, Naming(job'[i]), doc[job'[i].doc].here
                 PROVE  \E k \in Jobs : copy'[k].doc = job'[i].doc /\ copy'[k].here
      BY <1>1 DEF NamedHasCopy, HasCopy
    <3>1. i # j /\ job'[i] = job[i] /\ job[i].doc \in Docs
      BY <1>3, <1>6 DEF SyncInv, SyncGoes, JobsHaveDocs, Naming
    <3> QED
      BY <1>11, <3>1 DEF SyncInv, SyncGoes, NamedHasCopy, HasCopy
  <2>2. HereIsNotDeleted' /\ KeepsACopy'
    BY <1>1, <1>3, <1>11 DEF SyncInv, SyncGoes, HereIsNotDeleted, KeepsACopy, HasCopy, SyncTypeOK
  <2> QED
    BY <2>1, <2>2
<1>13. SyncedIsSafe'
  <2> SUFFICES ASSUME NEW d \in Docs, doc[d].here, doc[d].status = "synced", provider # "dify"
               PROVE  /\ doc[d].ext # NoJob /\ copy'[doc[d].ext].here
                      /\ \A i \in Jobs : job'[i].old = doc[d].ext /\ job'[i].kind = "doc"
                                           => job'[i].at = "mark"
    BY <1>1 DEF SyncedIsSafe
  <2>1. /\ doc[d].ext # NoJob /\ copy[doc[d].ext].here /\ doc[d].ext # j
        /\ \A i \in Jobs : job[i].old = doc[d].ext /\ job[i].kind = "doc" => job[i].at = "mark"
    BY <1>a, <1>6 DEF SyncInv, SyncGoes, SyncedIsSafe, RowsNameTheirs
  <2>2. job[j].old # doc[d].ext
    BY <1>1, <2>1
  <2> QED
    BY <1>3, <1>4, <1>a, <2>1, <2>2
<1>14. SyncRecords'
  BY <1>1, <1>3, <1>4 DEF SyncInv, SyncGoes, SyncRecords
<1> QED
  BY <1>7, <1>8, <1>9, <1>10, <1>12, <1>13, <1>14 DEF SyncGoes

\* A job has named its copy, whatever it says of it, or finds its row gone.
LEMMA NamesKeep ==
    ASSUME SyncInv, NEW j \in Jobs, ParseFails(j) \/ NameCopy(j)
    PROVE  SyncGoes'
<1> DEFINE d == job[j].doc
           e == IF copy[j].doc = d THEN j ELSE job[j].old
<1>1. /\ UNCHANGED <<provider, copy>> /\ SyncTypeOK
      /\ job \in [Jobs -> JobRecords] /\ copy \in [Jobs -> CopyRecords]
      /\ doc \in [Docs -> DocRecords] /\ NoJob \notin Jobs /\ Jobs \subseteq Nat /\ NoDoc \notin Docs
      /\ job[j].kind = "doc" /\ job[j].at \in {"name", "parse"}
      /\ job[j].at = "name" <=> NameCopy(j)
  BY SyncTypes DEF ParseFails, NameCopy, JobAt, SyncInv
<1>2. job[j].next = "over" /\ d \in Docs
  BY <1>1 DEF SyncInv, SyncGoes, JobsHaveDocs
<1>3. \E at \in {"merge", "over"} :
         /\ job' \in [Jobs -> JobRecords] /\ \A i \in Jobs \ {j} : job'[i] = job[i]
         /\ job'[j].kind = "doc" /\ job'[j].doc = job[j].doc /\ job'[j].at = at
         /\ job'[j].old \in {NoJob, job[j].old} /\ job'[j].next = "over"
  <2>1. \E at \in {"merge", "over"} : Then(j, at)
    BY DEF ParseFails, NameCopy, Then
  <2> QED
    BY <1>1, <1>2, <2>1, ThenFields DEF Places
<1>4. /\ ~ Settled(job[j]) /\ Settled(job'[j]) /\ ~ Ready(job'[j]) /\ ~ Naming(job'[j])
  BY <1>1, <1>3 DEF Settled, Ready, Naming
<1>5. PICK status \in {"parse_failed", "synced"} :
         /\ doc' = Names(j, status)
         /\ status = "synced" <=> NameCopy(j)
  BY <1>1 DEF ParseFails, NameCopy, JobAt
<1>6. e \in Jobs \cup {NoJob}
  BY <1>1 DEF JobRecords
<1>7. e # NoJob => Settled(job'[e]) /\ copy[e].doc = d
  BY <1>1, <1>3, <1>4 DEF SyncInv, SyncGoes, JobsReadTheirs, JobRecords
<1> HIDE DEF e
<1>8. /\ doc' \in [Docs -> DocRecords]
      /\ \A x \in Docs : doc'[x].here = doc[x].here /\ (x # d => doc'[x] = doc[x])
      /\ ~ doc[d].here => doc'[d] = doc[d]
      /\ doc[d].here => doc'[d].ext = e /\ doc'[d].status = status
  <2>1. CASE ~ doc[d].here
    BY <1>1, <1>5, <2>1 DEF Names
  <2>2. CASE doc[d].here
    <3> DEFINE r == [doc[d] EXCEPT !.ext = e, !.status = status]
    <3>1. doc' = [doc EXCEPT ![d] = r]
      BY <1>5, <2>2 DEF Names, e
    <3>2. r \in DocRecords /\ r.here = doc[d].here /\ r.ext = e /\ r.status = status
      BY <1>1, <1>2, <1>6 DEF DocRecords
    <3> HIDE DEF r
    <3> QED
      BY <1>1, <1>2, <2>2, <3>1, <3>2
  <2> QED
    BY <2>1, <2>2
<1>a. /\ \A i \in Jobs :
            /\ job[i].old \in Jobs \cup {NoJob}
            /\ Settled(job[i]) => i # j /\ Settled(job'[i])
            /\ job'[i].old \in {NoJob, job[i].old} /\ job'[i].doc = job[i].doc
      /\ \A x \in Docs : doc[x].ext \in Jobs \cup {NoJob}
  BY <1>1, <1>3, <1>4 DEF JobRecords, DocRecords
<1>9. SpawnedInOrder' /\ UnspawnedRests' /\ JobsHaveDocs'
  BY <1>1, <1>2, <1>3 DEF SyncInv, SyncGoes, SpawnedInOrder, UnspawnedRests, JobsHaveDocs, IsSpawned
<1>10. CopyIsOwn' /\ ReadyIsThere'
  BY <1>1, <1>2, <1>3, <1>4 DEF SyncInv, SyncGoes, CopyIsOwn, ReadyIsThere
<1>11. RowsNameTheirs'
  <2> SUFFICES ASSUME NEW x \in Docs, doc'[x].ext # NoJob
               PROVE  Settled(job'[doc'[x].ext]) /\ copy[doc'[x].ext].doc = x
    BY <1>1 DEF RowsNameTheirs
  <2>1. CASE doc'[x] = doc[x]
    BY <1>a, <2>1 DEF SyncInv, SyncGoes, RowsNameTheirs
  <2>2. CASE doc'[x] # doc[x]
    BY <1>7, <1>8, <2>2
  <2> QED
    BY <2>1, <2>2
<1>12. JobsReadTheirs'
  <2> SUFFICES ASSUME NEW i \in Jobs, job'[i].old # NoJob
               PROVE  /\ job'[i].doc \in Docs /\ Settled(job'[job'[i].old])
                      /\ copy[job'[i].old].doc = job'[i].doc
    BY <1>1 DEF JobsReadTheirs
  <2> QED
    BY <1>a DEF SyncInv, SyncGoes, JobsReadTheirs
<1>13. NamedHasCopy' /\ HereIsNotDeleted'
  BY <1>1, <1>3, <1>4, <1>8 DEF SyncInv, SyncGoes, NamedHasCopy, HereIsNotDeleted, HasCopy,
     JobsHaveDocs, Naming
<1>14. SyncedIsSafe'
  <2> SUFFICES ASSUME NEW x \in Docs, doc'[x].here, doc'[x].status = "synced", provider # "dify"
               PROVE  /\ doc'[x].ext # NoJob /\ copy[doc'[x].ext].here
                      /\ \A i \in Jobs : job'[i].old = doc'[x].ext /\ job'[i].kind = "doc"
                                           => job'[i].at = "mark"
    BY <1>1 DEF SyncedIsSafe
  <2>1. CASE doc'[x] = doc[x] /\ x # d
    BY <1>1, <1>3, <2>1 DEF SyncInv, SyncGoes, SyncedIsSafe
  <2>2. CASE x = d
    <3>1. doc[d].here /\ status = "synced" /\ doc'[d].ext = e
      BY <1>8, <2>2
    <3>2. Naming(job[j]) /\ copy[j].doc = d /\ copy[j].here
      BY <1>1, <1>2, <1>5, <3>1 DEF SyncInv, SyncGoes, ReadyIsThere, Naming
    <3>3. e = j
      BY <3>2 DEF e
    <3>4. \A i \in Jobs : job'[i].old # j
      BY <1>1, <1>3, <1>4 DEF SyncInv, SyncGoes, JobsReadTheirs
    <3> QED
      BY <1>1, <2>2, <3>1, <3>2, <3>3, <3>4
  <2> QED
    BY <1>8, <2>1, <2>2
<1>15. KeepsACopy' /\ SyncRecords'
  <2>1. everSynced' = everSynced \/ (Naming(job[j]) /\ doc[d].here /\ everSynced' = everSynced \cup {d})
    BY <1>1 DEF ParseFails, NameCopy, Naming
  <2>2. \A x \in everSynced' : doc[x].here => HasCopy(x)
    BY <2>1 DEF SyncInv, SyncGoes, KeepsACopy, NamedHasCopy, HasCopy
  <2>3. everSynced' \subseteq Docs
    BY <1>1, <1>2, <2>1 DEF SyncTypeOK
  <2>4. KeepsACopy'
    BY <1>1, <1>8, <2>2, <2>3 DEF KeepsACopy, HasCopy
  <2> QED
    BY <1>1, <1>3, <1>8, <2>3, <2>4 DEF SyncRecords
<1> QED
  BY <1>9, <1>10, <1>11, <1>12, <1>13, <1>14, <1>15 DEF SyncGoes

\* Jobs are spawned one after the other, or several for a base: those that were not run are free.
LEMMA FreeJobs ==
    ASSUME SyncInv, NEW j \in Jobs, MayStart(j)
    PROVE  \A i \in Jobs : i >= j => job[i] = Waiting /\ copy[i].doc = NoDoc
<1> SUFFICES ASSUME NEW i \in Jobs, i >= j PROVE job[i] = Waiting /\ copy[i].doc = NoDoc
  OBVIOUS
<1>1. ~ IsSpawned(i)
  BY SyncTypes DEF SyncInv, SyncGoes, SpawnedInOrder, MayStart
<1>2. job[i] = Waiting
  BY <1>1 DEF SyncInv, SyncGoes, UnspawnedRests
<1> QED
  BY <1>2 DEF SyncInv, SyncGoes, CopyIsOwn, Waiting, Ready, Naming, Settled

\* The first steps of a job, which leave the copies alone.
Starts(r) ==
    \/ r.kind = "doc" /\ r.at = "load" /\ r.doc \in Docs /\ r.old = NoJob /\ r.next = "over"
    \/ r.kind = "base" /\ r.at = "merge" /\ r.old = NoJob
    \/ r.kind = "delete" /\ r.at = "delete" /\ r.next = "over"

\* What requests spawn, for what rows they leave.
Spawned ==
    /\ job' \in [Jobs -> JobRecords]
    /\ \A i \in Jobs : \/ job'[i] = job[i]
                       \/ /\ job[i] = Waiting /\ copy[i].doc = NoDoc
                          /\ Starts(job'[i])
                          /\ (job'[i].kind = "delete" /\ job'[i].doc \in Docs) =>
                                /\ ~ doc'[job'[i].doc].here
                                /\ job'[i].old = doc[job'[i].doc].ext
                          /\ job'[i].doc \notin Docs => job'[i].old = NoJob
    /\ SpawnedInOrder'
    /\ doc' \in [Docs -> DocRecords]
    /\ \A d \in Docs : \/ /\ doc'[d].here = doc[d].here /\ doc'[d].ext = doc[d].ext
                          /\ doc'[d].status = "synced" => doc[d].status = "synced"
                       \/ ~ doc'[d].here /\ doc'[d].ext = NoJob
                       \/ /\ d \notin everSynced /\ \A i \in Jobs : job[i].doc # d
                          /\ doc'[d].ext = NoJob /\ doc'[d].status # "synced"
                          /\ \A i \in Jobs : job'[i].kind = "delete" => job'[i].doc # d

LEMMA SpawnsKeep ==
    ASSUME SyncInv, Spawned, UNCHANGED <<provider, copy, everSynced>>
    PROVE  SyncGoes'
<1>1. /\ doc \in [Docs -> DocRecords] /\ job \in [Jobs -> JobRecords]
      /\ copy \in [Jobs -> CopyRecords] /\ NoJob \notin Jobs /\ Jobs \subseteq Nat
      /\ NoDoc \notin Docs
  BY SyncTypes DEF SyncInv
<1>2. \A i \in Jobs : /\ Settled(job[i]) => job'[i] = job[i]
                      /\ Ready(job'[i]) \/ Naming(job'[i]) => job'[i] = job[i]
                      /\ copy[i].doc # NoDoc => job'[i] = job[i]
  BY DEF Spawned, Settled, Ready, Naming, Waiting, Starts
<1>3. \A i \in Jobs : job[i].old \in Jobs \cup {NoJob} /\ job'[i].old \in Jobs \cup {NoJob}
  BY DEF Spawned, JobRecords, SyncInv, SyncTypeOK
<1>4. \A d \in Docs : doc[d].ext \in Jobs \cup {NoJob} /\ doc'[d].ext \in {NoJob, doc[d].ext}
  BY <1>1 DEF Spawned, DocRecords
<1>5. SpawnedInOrder' /\ UnspawnedRests' /\ JobsHaveDocs'
  BY DEF Spawned, SyncInv, SyncGoes, UnspawnedRests, JobsHaveDocs, IsSpawned, Waiting, Starts
<1>6. CopyIsOwn' /\ ReadyIsThere'
  BY <1>1, <1>2 DEF SyncInv, SyncGoes, CopyIsOwn, ReadyIsThere
<1>7. RowsNameTheirs'
  BY <1>2, <1>4 DEF SyncInv, SyncGoes, RowsNameTheirs
<1>8. JobsReadTheirs'
  <2> SUFFICES ASSUME NEW i \in Jobs, job'[i].old # NoJob
               PROVE  /\ job'[i].doc \in Docs /\ Settled(job'[job'[i].old])
                      /\ copy[job'[i].old].doc = job'[i].doc
    BY DEF JobsReadTheirs
  <2>1. CASE job'[i] = job[i]
    BY <1>2, <1>3, <2>1 DEF SyncInv, SyncGoes, JobsReadTheirs
  <2>2. CASE job'[i] # job[i]
    <3>1. job'[i].doc \in Docs /\ job'[i].old = doc[job'[i].doc].ext
      BY <2>2 DEF Spawned, Starts
    <3> QED
      BY <1>2, <1>4, <3>1 DEF SyncInv, SyncGoes, RowsNameTheirs
  <2> QED
    BY <2>1, <2>2
<1>9. NamedHasCopy'
  <2> SUFFICES ASSUME NEW i \in Jobs, Naming(job'[i]), doc'[job'[i].doc].here
               PROVE  \E k \in Jobs : copy[k].doc = job'[i].doc /\ copy[k].here
    BY DEF NamedHasCopy, HasCopy
  <2>1. job'[i] = job[i] /\ job[i].doc \in Docs
    BY <1>2 DEF SyncInv, SyncGoes, JobsHaveDocs, Naming
  <2>2. doc[job[i].doc].here
    BY <2>1 DEF Spawned
  <2> QED
    BY <2>1, <2>2 DEF SyncInv, SyncGoes, NamedHasCopy, HasCopy
<1>10. HereIsNotDeleted'
  <2> SUFFICES ASSUME NEW d \in Docs, NEW i \in Jobs, doc'[d].here, job'[i].kind = "delete",
                      job'[i].doc = d
               PROVE  FALSE
    BY DEF HereIsNotDeleted
  <2>1. job'[i] = job[i]
    BY DEF Spawned
  <2>2. doc[d].here
    BY DEF Spawned
  <2> QED
    BY <2>1, <2>2 DEF SyncInv, SyncGoes, HereIsNotDeleted
<1>11. SyncedIsSafe'
  <2> SUFFICES ASSUME NEW d \in Docs, doc'[d].here, doc'[d].status = "synced", provider # "dify"
               PROVE  /\ doc'[d].ext # NoJob /\ copy[doc'[d].ext].here
                      /\ \A i \in Jobs : job'[i].old = doc'[d].ext /\ job'[i].kind = "doc"
                                           => job'[i].at = "mark"
    BY DEF SyncedIsSafe
  <2>1. doc[d].here /\ doc'[d].ext = doc[d].ext /\ doc[d].status = "synced"
    BY DEF Spawned
  <2>2. /\ doc[d].ext # NoJob /\ copy[doc[d].ext].here
        /\ \A i \in Jobs : job[i].old = doc[d].ext /\ job[i].kind = "doc" => job[i].at = "mark"
    BY <2>1 DEF SyncInv, SyncGoes, SyncedIsSafe
  <2>3. \A i \in Jobs : job'[i].kind = "doc" /\ job'[i].old # NoJob => job'[i] = job[i]
    BY DEF Spawned, Starts
  <2> QED
    BY <2>1, <2>2, <2>3
<1>12. KeepsACopy'
  BY DEF Spawned, SyncInv, SyncGoes, KeepsACopy, SyncTypeOK
<1>13. SyncRecords'
  BY DEF Spawned, SyncInv, SyncGoes, SyncRecords
<1> QED
  BY <1>5, <1>6, <1>7, <1>8, <1>9, <1>10, <1>11, <1>12, <1>13 DEF SyncGoes

\* A request that spawns one job: the rows keep what they name.
LEMMA RequestsKeep ==
    ASSUME SyncInv, NEW j \in Jobs,
           SyncBase(j) \/ \E d \in Docs : UpdateDoc(d, j) \/ DeleteDoc(d, j)
                                           \/ \E file \in BOOLEAN : CreateDoc(d, j, file)
    PROVE  SyncGoes'
<1>1. /\ doc \in [Docs -> DocRecords] /\ job \in [Jobs -> JobRecords] /\ NoDoc \notin Docs
      /\ Jobs \subseteq Nat /\ UNCHANGED <<provider, copy, everSynced>> /\ MayStart(j)
  BY SyncTypes DEF SyncInv, SyncBase, UpdateDoc, DeleteDoc, CreateDoc
<1>2. job[j] = Waiting /\ copy[j].doc = NoDoc
  BY <1>1, FreeJobs
<1>b. job[j].old = NoJob /\ job[j].next = "over" /\ job[j].doc = NoDoc
  BY <1>2 DEF Waiting
<1>a. job[j] \in JobRecords /\ job[j].old = NoJob /\ job[j].next = "over" /\ job[j].doc = NoDoc
  BY <1>1, <1>b
<1>3. ASSUME NEW r \in JobRecords, job' = [job EXCEPT ![j] = r], r.kind # "none"
      PROVE  SpawnedInOrder'
  BY <1>1, <1>3 DEF SyncInv, SyncGoes, SpawnedInOrder, MayStart, IsSpawned
<1>4. CASE SyncBase(j)
  <2>1. PICK r : r = [job[j] EXCEPT !.kind = "base", !.at = "merge", !.next = "ensure"]
    OBVIOUS
  <2>2. r \in JobRecords /\ r.kind = "base" /\ r.at = "merge" /\ r.old = NoJob /\ r.doc = NoDoc
    BY <1>a, <2>1 DEF JobRecords
  <2>3. job' = [job EXCEPT ![j] = r] /\ doc' = doc
    BY <1>1, <1>4, <2>1 DEF SyncBase
  <2>4. Spawned
    BY <1>1, <1>2, <1>3, <1>a, <2>2, <2>3 DEF Spawned, Starts
  <2> QED
    BY <1>1, <2>4, SpawnsKeep
<1>5. ASSUME NEW d \in Docs, SpawnJob(j, "doc", d, "load")
      PROVE  \E r \in JobRecords : /\ job' = [job EXCEPT ![j] = r] /\ r.kind = "doc" /\ r.at = "load"
                                   /\ r.doc = d /\ r.old = NoJob /\ r.next = "over"
  <2>1. PICK r : r = [job[j] EXCEPT !.kind = "doc", !.doc = d, !.at = "load"]
    OBVIOUS
  <2>2. /\ r \in JobRecords /\ r.kind = "doc" /\ r.at = "load" /\ r.doc = d /\ r.old = NoJob
        /\ r.next = "over"
    BY <1>a, <2>1 DEF JobRecords
  <2>3. job' = [job EXCEPT ![j] = r]
    BY <1>1, <1>5, <2>1 DEF SpawnJob
  <2> QED
    BY <2>2, <2>3
<1>6. ASSUME NEW d \in Docs, UpdateDoc(d, j) PROVE SyncGoes'
  <2>1. PICK r \in JobRecords : /\ job' = [job EXCEPT ![j] = r] /\ r.kind = "doc" /\ r.at = "load"
                                /\ r.doc = d /\ r.old = NoJob /\ r.next = "over"
    BY <1>5, <1>6 DEF UpdateDoc
  <2>2. PICK text \in {TRUE, FALSE} :
           doc' = [doc EXCEPT ![d].status = "pending", ![d].file = @ /\ ~ text]
    BY <1>6 DEF UpdateDoc
  <2>3. PICK file \in BOOLEAN : file = (doc[d].file /\ ~ text)
    OBVIOUS
  <2>4. PICK q : q = [doc[d] EXCEPT !.status = "pending", !.file = file]
    OBVIOUS
  <2>5. q \in DocRecords /\ q.here = doc[d].here /\ q.ext = doc[d].ext /\ q.status = "pending"
    BY <1>1, <2>4 DEF DocRecords
  <2>6. doc' = [doc EXCEPT ![d] = q]
    BY <1>1, <2>2, <2>3, <2>4
  <2>7. Spawned
    BY <1>1, <1>2, <1>3, <2>1, <2>5, <2>6 DEF Spawned, Starts
  <2> QED
    BY <1>1, <2>7, SpawnsKeep
<1>7. ASSUME NEW d \in Docs, NEW file \in BOOLEAN, CreateDoc(d, j, file) PROVE SyncGoes'
  <2>1. PICK r \in JobRecords : /\ job' = [job EXCEPT ![j] = r] /\ r.kind = "doc" /\ r.at = "load"
                                /\ r.doc = d /\ r.old = NoJob /\ r.next = "over"
    BY <1>5, <1>7 DEF CreateDoc
  <2>2. PICK q : q = [here |-> TRUE, file |-> file, ext |-> NoJob, status |-> "pending"]
    OBVIOUS
  <2>3. q \in DocRecords /\ q.ext = NoJob /\ q.status = "pending"
    BY <2>2 DEF DocRecords
  <2>4. /\ doc' = [doc EXCEPT ![d] = q] /\ d \notin everSynced
        /\ \A i \in Jobs : job[i].doc # d
    BY <1>7, <2>2 DEF CreateDoc
  <2>5. \A i \in Jobs : job'[i].kind = "delete" => job'[i].doc # d
    BY <1>1, <2>1, <2>4
  <2>6. Spawned
    BY <1>1, <1>2, <1>3, <2>1, <2>3, <2>4, <2>5 DEF Spawned, Starts
  <2> QED
    BY <1>1, <2>6, SpawnsKeep
<1>8. ASSUME NEW d \in Docs, DeleteDoc(d, j) PROVE SyncGoes'
  <2>1. /\ DeleteJob(d) \in JobRecords /\ DeleteJob(d).kind = "delete" /\ DeleteJob(d).at = "delete"
        /\ DeleteJob(d).doc = d /\ DeleteJob(d).old = doc[d].ext /\ DeleteJob(d).next = "over"
    BY <1>1 DEF DeleteJob, Waiting, JobRecords, DocRecords, SyncInv, SyncTypeOK
  <2>2. NoDocRow \in DocRecords /\ ~ NoDocRow.here /\ NoDocRow.ext = NoJob
    BY DEF NoDocRow, DocRecords
  <2>3. job' = [job EXCEPT ![j] = DeleteJob(d)] /\ doc' = [doc EXCEPT ![d] = NoDocRow]
    BY <1>8 DEF DeleteDoc
  <2>4. Spawned
    BY <1>1, <1>2, <1>3, <2>1, <2>2, <2>3 DEF Spawned, Starts
  <2> QED
    BY <1>1, <2>4, SpawnsKeep
<1> QED
  BY <1>4, <1>6, <1>7, <1>8

\* The rows of all documents go with the base, and a job is spawned for each that was there.
LEMMA DeleteBaseKeeps == ASSUME SyncInv, DeleteBase PROVE SyncGoes'
<1>1. /\ doc \in [Docs -> DocRecords] /\ job \in [Jobs -> JobRecords] /\ NoDoc \notin Docs
      /\ Jobs \subseteq Nat /\ UNCHANGED <<provider, copy, everSynced>>
      /\ doc' = [d \in Docs |-> NoDocRow]
  BY SyncTypes DEF SyncInv, DeleteBase
<1>2. NoDocRow \in DocRecords /\ ~ NoDocRow.here /\ NoDocRow.ext = NoJob
  BY DEF NoDocRow, DocRecords
<1>3. ASSUME NEW d \in Docs \cup {NoDoc}
      PROVE  /\ DeleteJob(d) \in JobRecords /\ DeleteJob(d).kind = "delete"
             /\ DeleteJob(d).at = "delete" /\ DeleteJob(d).next = "over" /\ DeleteJob(d).doc = d
             /\ DeleteJob(d).old = IF d = NoDoc THEN NoJob ELSE doc[d].ext
  BY <1>1 DEF DeleteJob, Waiting, JobRecords, DocRecords, SyncInv, SyncTypeOK
<1> DEFINE n == Cardinality(Rows)
<1>4. PICK first \in Jobs, rows \in [1 .. n -> Rows] :
        /\ MayStart(first) /\ first + n - 1 <= MaxJobs
        /\ job' = [j \in Jobs |-> IF j \in first .. first + n - 1
                                  THEN DeleteJob(rows[j + 1 - first])
                                  ELSE IF Rows = {} /\ j = first THEN DeleteJob(NoDoc) ELSE job[j]]
  BY DEF DeleteBase
<1>5. n \in Nat /\ Rows \subseteq Docs /\ (Rows = {} => n = 0) /\ IsFiniteSet(Docs)
  BY FS_Subset, FS_CardinalityType, FS_EmptySet, KnowledgeAssumption DEF Rows
<1>6. \A i \in Jobs : /\ i >= first => job[i] = Waiting /\ copy[i].doc = NoDoc
                      /\ i < first => IsSpawned(i)
  BY <1>4, FreeJobs DEF MayStart
<1> HIDE DEF n
<1>7. \A i \in Jobs :
         \/ i \in first .. first + n - 1 /\ \E d \in Docs : job'[i] = DeleteJob(d)
         \/ i \notin first .. first + n - 1 /\ Rows = {} /\ i = first /\ job'[i] = DeleteJob(NoDoc)
         \/ i \notin first .. first + n - 1 /\ ~ (Rows = {} /\ i = first) /\ job'[i] = job[i]
  <2> SUFFICES ASSUME NEW i \in Jobs, i \in first .. first + n - 1
               PROVE  rows[i + 1 - first] \in Docs
    BY <1>4
  <2>1. i + 1 - first \in 1 .. n
    BY <1>1, <1>5
  <2> QED
    BY <1>5, <2>1
<1>8. job' \in [Jobs -> JobRecords]
  <2>1. job' = [i \in Jobs |-> job'[i]]
    BY <1>4
  <2>2. \A i \in Jobs : job'[i] \in JobRecords
    BY <1>1, <1>3, <1>7
  <2> QED
    BY <2>1, <2>2
<1>9. SpawnedInOrder'
  <2> SUFFICES ASSUME NEW a \in Jobs, NEW b \in Jobs, a < b, job'[b].kind # "none"
               PROVE  job'[a].kind # "none"
    BY DEF SpawnedInOrder, IsSpawned
  <2>1. CASE a < first
    <3>1. job'[a] = job[a]
      BY <1>1, <1>5, <1>7, <2>1
    <3> QED
      BY <1>6, <2>1, <3>1 DEF IsSpawned
  <2>2. CASE a >= first
    <3>1. b > first /\ job[b].kind = "none"
      BY <1>1, <1>6, <2>2 DEF Waiting
    <3>2. b \in first .. first + n - 1
      BY <1>1, <1>7, <3>1
    <3>3. a \in first .. first + n - 1
      BY <1>1, <1>5, <2>2, <3>2
    <3> QED
      BY <1>3, <1>7, <3>3
  <2> QED
    BY <1>1, <2>1, <2>2
<1>10. \A d \in Docs : ~ doc'[d].here /\ doc'[d].ext = NoJob
  BY <1>1, <1>2
<1>11. doc' \in [Docs -> DocRecords]
  BY <1>1, <1>2
<1>12. ASSUME NEW i \in Jobs, job'[i] # job[i]
       PROVE  /\ job[i] = Waiting /\ copy[i].doc = NoDoc /\ Starts(job'[i])
              /\ job'[i].doc \in Docs => job'[i].old = doc[job'[i].doc].ext
              /\ job'[i].doc \notin Docs => job'[i].old = NoJob
  <2>1. i >= first
    BY <1>1, <1>5, <1>7, <1>12
  <2>2. PICK d \in Docs \cup {NoDoc} : job'[i] = DeleteJob(d)
    BY <1>7, <1>12
  <2>3. job[i] = Waiting /\ copy[i].doc = NoDoc
    BY <1>6, <2>1
  <2>4. /\ job'[i].kind = "delete" /\ job'[i].at = "delete" /\ job'[i].next = "over"
        /\ job'[i].doc = d /\ job'[i].old = IF d = NoDoc THEN NoJob ELSE doc[d].ext
    BY <1>3, <2>2
  <2>5. Starts(job'[i])
    BY <2>4 DEF Starts
  <2>6. job'[i].doc \in Docs => job'[i].old = doc[job'[i].doc].ext
    BY <1>1, <2>4
  <2>7. job'[i].doc \notin Docs => job'[i].old = NoJob
    BY <2>4
  <2> QED
    BY <2>3, <2>5, <2>6, <2>7
<1>13. Spawned
  BY <1>8, <1>9, <1>10, <1>11, <1>12 DEF Spawned
<1> QED
  BY <1>1, <1>13, SpawnsKeep

\* The base and the datasets keep their types.
LEMMA BaseStaysTyped ==
    ASSUME SyncInv, [SyncNext]_syncVars
    PROVE  /\ provider' \in Providers /\ datasets' \subseteq Jobs
           /\ base' \in [here : BOOLEAN, dataset : Jobs \cup {NoJob}]
<1>1. /\ provider \in Providers /\ datasets \subseteq Jobs /\ job \in [Jobs -> JobRecords]
      /\ base \in [here : BOOLEAN, dataset : Jobs \cup {NoJob}]
  BY SyncTypes DEF SyncInv, SyncTypeOK
<1>2. ASSUME UNCHANGED <<provider, base, datasets>>
      PROVE  /\ provider' \in Providers /\ datasets' \subseteq Jobs
             /\ base' \in [here : BOOLEAN, dataset : Jobs \cup {NoJob}]
  BY <1>1, <1>2
<1>3. CASE UNCHANGED syncVars
  BY <1>2, <1>3 DEF syncVars
<1>4. CASE DeleteBase
  BY <1>1, <1>4 DEF DeleteBase
<1>5. ASSUME NEW j \in Jobs, MergeWrites(j)
      PROVE  /\ provider' \in Providers /\ datasets' \subseteq Jobs
             /\ base' \in [here : BOOLEAN, dataset : Jobs \cup {NoJob}]
  <2>1. provider' = provider /\ datasets' = datasets
    BY <1>5 DEF MergeWrites
  <2>2. PICK seen \in Jobs \cup {NoJob} :
           base' = IF ~ base.here THEN base ELSE [base EXCEPT !.dataset = seen]
    <3>1. job[j].dataset \in Jobs \cup {NoJob} /\ job[j].seen \in Jobs \cup {NoJob}
      BY <1>1 DEF JobRecords
    <3> QED
      BY <1>5, <3>1 DEF MergeWrites
  <2> QED
    BY <1>1, <2>1, <2>2
<1>6. ASSUME NEW j \in Jobs, EnsureCreates(j) \/ DropDataset(j)
      PROVE  /\ provider' \in Providers /\ datasets' \subseteq Jobs
             /\ base' \in [here : BOOLEAN, dataset : Jobs \cup {NoJob}]
  BY <1>1, <1>6 DEF EnsureCreates, DropDataset
<1>7. ASSUME NEW j \in Jobs, NEW d \in Docs,
             UpdateDoc(d, j) \/ DeleteDoc(d, j) \/ \E file \in BOOLEAN : CreateDoc(d, j, file)
      PROVE  UNCHANGED <<provider, base, datasets>>
  BY <1>7 DEF UpdateDoc, DeleteDoc, CreateDoc
<1>8. ASSUME NEW j \in Jobs,
             \/ SyncBase(j) \/ MergeReads(j) \/ EnsureKnown(j) \/ EnsureAsks(j) \/ EnsureFails(j)
             \/ NoConfig(j) \/ Load(j) \/ MarkUploading(j) \/ Upload(j) \/ EditInPlace(j)
             \/ UploadFails(j) \/ Parsed(j) \/ ParseFails(j) \/ ReplaceFile(j) \/ NameCopy(j)
             \/ DeleteCopy(j) \/ CountDataset(j)
      PROVE  UNCHANGED <<provider, base, datasets>>
  BY <1>8 DEF SyncBase, MergeReads, EnsureKnown, EnsureAsks, EnsureFails, NoConfig, Load,
     MarkUploading, Upload, EditInPlace, UploadFails, Parsed, ParseFails, ReplaceFile, NameCopy,
     DeleteCopy, CountDataset
<1> QED
  BY <1>2, <1>3, <1>4, <1>5, <1>6, <1>7, <1>8 DEF SyncNext

\* A base starts with no document, no job and no copy.
LEMMA SyncBegins == SyncInit => SyncInv
<1> SUFFICES ASSUME SyncInit PROVE SyncInv
  OBVIOUS
<1>1. /\ NoDocRow \in DocRecords /\ Waiting \in JobRecords
      /\ ~ NoDocRow.here /\ NoDocRow.ext = NoJob /\ Waiting.kind = "none" /\ Waiting.doc = NoDoc
      /\ Waiting.old = NoJob /\ Waiting.next = "over"
  BY DEF NoDocRow, Waiting, DocRecords, JobRecords
<1>2. PICK c \in CopyRecords : copy = [j \in Jobs |-> c] /\ c.doc = NoDoc /\ ~ c.here
  <2>1. PICK c : c = [doc |-> NoDoc, dataset |-> NoJob, here |-> FALSE]
    OBVIOUS
  <2>2. c \in CopyRecords /\ c.doc = NoDoc /\ ~ c.here
    BY <2>1 DEF CopyRecords
  <2>3. copy = [j \in Jobs |-> c]
    BY <2>1 DEF SyncInit
  <2> QED
    BY <2>2, <2>3
<1>3. /\ doc = [d \in Docs |-> NoDocRow] /\ job = [j \in Jobs |-> Waiting] /\ everSynced = {}
      /\ provider \in Providers /\ datasets = {}
      /\ base \in [here : BOOLEAN, dataset : Jobs \cup {NoJob}]
  BY DEF SyncInit
<1>4. SyncRecords
  BY <1>1, <1>2, <1>3 DEF SyncRecords
<1>5. SyncTypeOK
  BY <1>3, <1>4 DEF SyncTypeOK, SyncRecords, DocRecords, JobRecords, CopyRecords
<1>6. \A j \in Jobs : /\ job[j] = Waiting /\ job[j].kind = "none" /\ job[j].old = NoJob
                      /\ job[j].next = "over" /\ copy[j].doc = NoDoc
  BY <1>1, <1>2, <1>3
<1>7. \A d \in Docs : ~ doc[d].here /\ doc[d].ext = NoJob
  BY <1>1, <1>3
<1>8. SpawnedInOrder /\ UnspawnedRests /\ JobsHaveDocs
  BY <1>6 DEF SpawnedInOrder, IsSpawned, UnspawnedRests, JobsHaveDocs
<1>9. CopyIsOwn /\ RowsNameTheirs /\ JobsReadTheirs
  BY <1>6, <1>7 DEF CopyIsOwn, RowsNameTheirs, JobsReadTheirs
<1>10. ReadyIsThere /\ NamedHasCopy
  BY <1>6 DEF ReadyIsThere, NamedHasCopy, Ready, Naming
<1>11. HereIsNotDeleted /\ SyncedIsSafe /\ KeepsACopy
  BY <1>3, <1>7 DEF HereIsNotDeleted, SyncedIsSafe, KeepsACopy
<1> QED
  BY <1>4, <1>5, <1>8, <1>9, <1>10, <1>11 DEF SyncInv, SyncGoes

\* Every step of the requests and of the jobs keeps the invariant.
LEMMA SyncKeeps == SyncInv /\ [SyncNext]_syncVars => SyncInv'
<1> SUFFICES ASSUME SyncInv, [SyncNext]_syncVars PROVE SyncInv'
  OBVIOUS
<1>1. SyncGoes'
  <2>1. CASE UNCHANGED syncVars
    BY <2>1 DEF syncVars, SyncInv, SyncGoes, SyncRecords, SpawnedInOrder, IsSpawned, UnspawnedRests,
       JobsHaveDocs, CopyIsOwn, RowsNameTheirs, JobsReadTheirs, ReadyIsThere, NamedHasCopy, HasCopy,
       HereIsNotDeleted, SyncedIsSafe, KeepsACopy
  <2>2. ASSUME NEW j \in Jobs, NEW d \in Docs,
               UpdateDoc(d, j) \/ DeleteDoc(d, j) \/ \E file \in BOOLEAN : CreateDoc(d, j, file)
        PROVE  SyncGoes'
    BY <2>2, RequestsKeep
  <2>3. CASE DeleteBase
    BY <2>3, DeleteBaseKeeps
  <2>4. ASSUME NEW j \in Jobs, SyncBase(j) PROVE SyncGoes'
    BY <2>4, RequestsKeep
  <2>5. ASSUME NEW j \in Jobs,
               \/ MergeReads(j) \/ MergeWrites(j) \/ EnsureKnown(j) \/ EnsureAsks(j)
               \/ EnsureCreates(j) \/ EnsureFails(j) \/ NoConfig(j)
        PROVE  SyncGoes'
    BY <2>5, MergesKeep, EnsuresKeep
  <2>6. ASSUME NEW j \in Jobs,
               \/ Load(j) \/ MarkUploading(j) \/ Upload(j) \/ EditInPlace(j) \/ UploadFails(j)
        PROVE  SyncGoes'
    BY <2>6, LoadKeeps, MarksKeep, UploadKeeps, NamingKeeps
  <2>7. ASSUME NEW j \in Jobs, Parsed(j) \/ ParseFails(j) \/ ReplaceFile(j) \/ NameCopy(j)
        PROVE  SyncGoes'
    BY <2>7, DeletionsKeep, NamesKeep, NamingKeeps
  <2>8. ASSUME NEW j \in Jobs, DeleteCopy(j) \/ CountDataset(j) \/ DropDataset(j)
        PROVE  SyncGoes'
    BY <2>8, DeletionsKeep
  <2> QED
    BY <2>1, <2>2, <2>3, <2>4, <2>5, <2>6, <2>7, <2>8 DEF SyncNext
<1>2. SyncTypeOK'
  BY <1>1, BaseStaysTyped DEF SyncGoes, SyncRecords, SyncTypeOK, DocRecords, JobRecords, CopyRecords
<1> QED
  BY <1>1, <1>2 DEF SyncInv

\* A row shown as synchronised names a copy that is there.
LEMMA SafeIsThere == SyncInv => KeepsACopy /\ SyncedIsThere
  BY DEF SyncInv, SyncGoes, SyncedIsSafe, SyncedIsThere

\* Whatever order the requests and the jobs of the knowledge base run in, a copy is named by its
\* own job, and goes only after the copy that replaces it is ready or its document is gone.
THEOREM SyncInvariant == SyncSpec => []SyncInv
  BY SyncBegins, SyncKeeps, PTL DEF SyncSpec

\* Once synchronised, a document keeps a copy at the provider, and a row shown as synchronised
\* names one that is there, unless the provider edits texts in place.
THEOREM DocumentsStay == ProvidersSpec => []DocumentsAreKept
<1> DEFINE Inv == part = "knowledge" => SyncInv
<1>1. ProvidersInit => Inv
  BY SyncBegins DEF ProvidersInit
<1>2. Inv /\ [ProvidersNext]_providersVars => Inv'
  <2> SUFFICES ASSUME Inv, [ProvidersNext]_providersVars, part' = "knowledge" PROVE SyncInv'
    OBVIOUS
  <2>1. part = "knowledge" /\ [SyncNext]_syncVars
    BY DEF ProvidersNext, providersVars
  <2> QED
    BY <2>1, SyncKeeps
<1>3. Inv => DocumentsAreKept
  BY SafeIsThere DEF DocumentsAreKept
<1> QED
  BY <1>1, <1>2, <1>3, PTL DEF ProvidersSpec
=============================================================================
