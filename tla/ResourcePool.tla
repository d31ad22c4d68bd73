---------------------------- MODULE ResourcePool ----------------------------
(***************************************************************************)
(* The four shared resource pools (VAD, ASR, LLM, TTS) and the sessions    *)
(* that take one resource out of each while they are initialised.          *)
(*                                                                         *)
(* A pool keeps one vector of entries per pool key.  An entry is never     *)
(* removed and is pushed at the end, so it is named by its index, and the  *)
(* vector is its length and the set of the indices whose in_use flag is    *)
(* set.  A key's vector is changed under the shard lock of the DashMap;    *)
(* the size check, the call of the factory and the push of a new entry are *)
(* separate steps that other sessions may interleave with.  No vector      *)
(* shrinks, so the sum that count_total takes shard by shard is the exact  *)
(* total at some instant of the loop: the check is one step.               *)
(***************************************************************************)
EXTENDS Integers, Sequences, FiniteSets

CONSTANTS Sessions,  \* sessions that may be initialised at the same time
          Pools,     \* the resource kinds: one ResourcePool for each
          Keys,      \* pool keys: provider and fingerprint of its configuration
          Order,     \* the order in which a session acquires from the pools
          MaxSize    \* resource_pools.max_size, the same for every pool

ASSUME PoolAssumption ==
    /\ IsFiniteSet(Sessions) /\ Sessions # {}
    /\ IsFiniteSet(Keys)
    /\ MaxSize \in Nat
    /\ Order \in Seq(Pools)
    /\ Order # <<>>
    /\ \A i, j \in DOMAIN Order : Order[i] = Order[j] => i = j

VARIABLES
    size,    \* the length of the vector of each pool and key
    inUse,   \* the indices of its entries marked in_use
    stage,   \* where each session is in acquire_session_resources
    step,    \* the position in Order it acquires from
    want,    \* the key it asks each pool for
    held     \* the entry it got from each pool, 0 when it has no handle of it

vars == <<size, inUse, stage, step, want, held>>

-----------------------------------------------------------------------------

\* Every entry of pool p, as key and index: what count_total counts.
Entries(p) == UNION {{k} \X (1 .. size[p][k]) : k \in Keys}

Free(p, k) == (1 .. size[p][k]) \ inUse[p][k]

\* The first element met by "for item in entry.iter_mut()".
First(I) == CHOOSE i \in I : \A j \in I : i <= j

Holders(p, k) == {s \in Sessions : held[s][p] # 0 /\ want[s][p] = k}

\* Sessions past the size check of pool p whose entry is not pushed yet.
Creating(p) == {s \in Sessions : stage[s] = "create" /\ Order[step[s]] = p}

-----------------------------------------------------------------------------

Init ==
    /\ size = [p \in Pools |-> [k \in Keys |-> 0]]
    /\ inUse = [p \in Pools |-> [k \in Keys |-> {}]]
    /\ stage = [s \in Sessions |-> "idle"]
    /\ step = [s \in Sessions |-> 1]
    /\ want \in [Sessions -> [Pools -> Keys]]
    /\ held = [s \in Sessions |-> [p \in Pools |-> 0]]

\* init_session asks for the resources its user configuration names.
Begin(s) ==
    /\ stage[s] = "idle"
    /\ \E w \in [Pools -> Keys] : want' = [want EXCEPT ![s] = w]
    /\ stage' = [stage EXCEPT ![s] = "scan"]
    /\ step' = [step EXCEPT ![s] = 1]
    /\ UNCHANGED <<size, inUse, held>>

\* Variants, named so by their comment, are what a slip in the code would make of
\* the definition below them; no specification uses them.

\* A variant: the last pool is passed.
GotPastLast(s, p, i) ==
    /\ held' = [held EXCEPT ![s][p] = i]
    /\ stage' = [stage EXCEPT ![s] = "scan"]
    /\ step' = [step EXCEPT ![s] = @ + 1]

\* The handle of the entry i is returned, and the session asks the next pool.
Got(s, p, i) ==
    /\ held' = [held EXCEPT ![s][p] = i]
    /\ IF step[s] = Len(Order)
       THEN stage' = [stage EXCEPT ![s] = "open"] /\ UNCHANGED step
       ELSE /\ stage' = [stage EXCEPT ![s] = "scan"]
            /\ step' = [step EXCEPT ![s] = @ + 1]

Reuse(s) ==
    LET p == Order[step[s]]
        k == want[s][p]
        i == First(Free(p, k))
    IN  /\ stage[s] = "scan"
        /\ Free(p, k) # {}
        /\ inUse' = [inUse EXCEPT ![p][k] = @ \cup {i}]
        /\ Got(s, p, i)
        /\ UNCHANGED <<size, want>>

NoneIdle(s) ==
    LET p == Order[step[s]]
    IN  /\ stage[s] = "scan"
        /\ Free(p, want[s][p]) = {}
        /\ stage' = [stage EXCEPT ![s] = "check"]
        /\ UNCHANGED <<size, inUse, step, want, held>>

\* A variant: an off-by-one in the size check.
HasRoomAtLimit(p) == Cardinality(Entries(p)) <= MaxSize

HasRoom(p) == Cardinality(Entries(p)) < MaxSize

RoomLeft(s) ==
    /\ stage[s] = "check"
    /\ HasRoom(Order[step[s]])
    /\ stage' = [stage EXCEPT ![s] = "create"]
    /\ UNCHANGED <<size, inUse, step, want, held>>

\* Error::Pool: the handles acquired so far are dropped on the early return.
PoolFull(s) ==
    /\ stage[s] = "check"
    /\ ~ HasRoom(Order[step[s]])
    /\ stage' = [stage EXCEPT ![s] = "drop"]
    /\ UNCHANGED <<size, inUse, step, want, held>>

FactoryFails(s) ==
    /\ stage[s] = "create"
    /\ stage' = [stage EXCEPT ![s] = "drop"]
    /\ UNCHANGED <<size, inUse, step, want, held>>

Push(s) ==
    LET p == Order[step[s]]
        k == want[s][p]
        i == size[p][k] + 1
    IN  /\ stage[s] = "create"
        /\ size' = [size EXCEPT ![p][k] = i]
        /\ inUse' = [inUse EXCEPT ![p][k] = @ \cup {i}]
        /\ Got(s, p, i)
        /\ UNCHANGED want

\* The session is closed and its SessionPoolHandles are dropped with it.
Close(s) ==
    /\ stage[s] = "open"
    /\ stage' = [stage EXCEPT ![s] = "drop"]
    /\ UNCHANGED <<size, inUse, step, want, held>>

\* A variant: the loop over the entries goes on after the first that is in use.
ReleaseAll(p, k) == inUse' = [inUse EXCEPT ![p][k] = {}]

\* Drop of a handle releases the first entry of its key that is in use, which
\* need not be the entry the handle was given.
Release(p, k) ==
    inUse' = [inUse EXCEPT ![p][k] = IF @ = {} THEN @ ELSE @ \ {First(@)}]

DropHandle(s, p) ==
    /\ stage[s] = "drop"
    /\ held[s][p] # 0
    /\ Release(p, want[s][p])
    /\ held' = [held EXCEPT ![s][p] = 0]
    /\ UNCHANGED <<size, stage, step, want>>

Dropped(s) ==
    /\ stage[s] = "drop"
    /\ \A p \in Pools : held[s][p] = 0
    /\ stage' = [stage EXCEPT ![s] = "idle"]
    /\ UNCHANGED <<size, inUse, step, want, held>>

Next ==
    \E s \in Sessions :
        \/ Begin(s) \/ Reuse(s) \/ NoneIdle(s) \/ RoomLeft(s) \/ PoolFull(s)
        \/ FactoryFails(s) \/ Push(s) \/ Close(s) \/ Dropped(s)
        \/ \E p \in Pools : DropHandle(s, p)

Spec == Init /\ [][Next]_vars

-----------------------------------------------------------------------------

\* The types of the pools' vectors and of the sessions' progress and handles.
TypeOK ==
    /\ size \in [Pools -> [Keys -> Nat]]
    /\ inUse \in [Pools -> [Keys -> SUBSET Nat]]
    /\ stage \in [Sessions -> {"idle", "scan", "check", "create", "open", "drop"}]
    /\ step \in [Sessions -> DOMAIN Order]
    /\ want \in [Sessions -> [Pools -> Keys]]
    /\ held \in [Sessions -> [Pools -> Nat]]

\* Only entries of the vector are in use.
InUseInVector == \A p \in Pools, k \in Keys : inUse[p][k] \subseteq 1 .. size[p][k]

\* A session has no handle of the pool it asks now, nor of the ones after it;
\* an idle one has none.  This strengthens the next invariant to an inductive
\* one: a handle is never overwritten, so none is forgotten undropped.
AcquiresInOrder ==
    \A s \in Sessions :
        /\ stage[s] = "idle" => \A p \in Pools : held[s][p] = 0
        /\ stage[s] \in {"scan", "check", "create"} =>
               \A j \in step[s] .. Len(Order) : held[s][Order[j]] = 0

\* A drop releases whichever entry of the key comes first, and yet the number
\* of entries of a key marked in_use is always the number of live handles of
\* that key: no failed or finished session leaks an entry, and the pool
\* statistics (runtime_snapshot) count the sessions that really use the key.
InUseCountsHandles ==
    \A p \in Pools, k \in Keys : Cardinality(inUse[p][k]) = Cardinality(Holders(p, k))

\* max_size is checked before the factory runs and the entry is pushed after,
\* without a lock over both.  Concurrent sessions can take a pool over its
\* limit, by fewer entries than there are sessions being initialised.
OvershootBounded ==
    \A p \in Pools :
        Cardinality(Entries(p)) + Cardinality(Creating(p)) < MaxSize + Cardinality(Sessions)
=============================================================================
