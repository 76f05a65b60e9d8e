--------------------------- MODULE TTLCacheProofs ---------------------------
(***************************************************************************)
(* For every TTL and maxSize: the cache's type invariant, its size bound,  *)
(* and that it implements ExpiringStore.                                   *)
(***************************************************************************)
EXTENDS TTLCache, FiniteSetTheorems, TLAPS

(***************************************************************************)
(* The inductive invariant: the bound needs the map to be finite.          *)
(***************************************************************************)
IInv == TypeOK /\ IsFiniteSet(DOMAIN items) /\ Bounded

-----------------------------------------------------------------------------
\* The helpers of Set

\* The live keys are some of the finitely many in the map.
LEMMA LiveSubset ==
    ASSUME NEW its, IsFiniteSet(DOMAIN its)
    PROVE  /\ IsFiniteSet(Live(its))
           /\ Cardinality(Live(its)) \in Nat
           /\ Cardinality(Live(its)) <= Cardinality(DOMAIN its)
           /\ Cardinality(DOMAIN its) \in Nat
  <1>1. Live(its) \in SUBSET DOMAIN its
    BY DEF Live
  <1>. QED
    BY <1>1, FS_Subset, FS_CardinalityType

(***************************************************************************)
(* Every map MadeRoom offers has room for one more key and holds its keys  *)
(* at their old entries.                                                   *)
(***************************************************************************)
LEMMA RoomIsMade ==
    ASSUME NEW its, IsFiniteSet(DOMAIN its), Cardinality(DOMAIN its) <= MaxSize,
           NEW r \in MadeRoom(its)
    PROVE  /\ DOMAIN r \subseteq DOMAIN its
           /\ \A k \in DOMAIN r : r[k] = its[k]
           /\ IsFiniteSet(DOMAIN r)
           /\ Cardinality(DOMAIN r) \in Nat
           /\ Cardinality(DOMAIN r) < MaxSize
  <1>. DEFINE kept == EvictExpired(its)
  <1>1. /\ DOMAIN kept = Live(its)
        /\ Live(its) \subseteq DOMAIN its
        /\ \A k \in DOMAIN kept : kept[k] = its[k]
    BY DEF EvictExpired, Live
  <1>2. IsFiniteSet(DOMAIN kept) /\ Cardinality(DOMAIN kept) \in Nat
        /\ Cardinality(DOMAIN kept) <= Cardinality(DOMAIN its)
        /\ Cardinality(DOMAIN its) \in Nat
    BY <1>1, LiveSubset
  <1>3. CASE Cardinality(DOMAIN its) < MaxSize
    BY <1>2, <1>3 DEF MadeRoom
  <1>4. CASE ~(Cardinality(DOMAIN its) < MaxSize) /\ Cardinality(DOMAIN kept) < MaxSize
    <2>1. r = kept
      BY <1>4 DEF MadeRoom
    <2>. QED
      BY <2>1, <1>1, <1>2, <1>4
  <1>5. CASE ~(Cardinality(DOMAIN its) < MaxSize) /\ ~(Cardinality(DOMAIN kept) < MaxSize)
    <2>1. PICK x \in DOMAIN kept : r = Without(kept, x)
      BY <1>5 DEF MadeRoom
    <2>2. DOMAIN r = DOMAIN kept \ {x} /\ \A k \in DOMAIN r : r[k] = kept[k]
      BY <2>1 DEF Without
    <2>3. IsFiniteSet(DOMAIN r) /\ Cardinality(DOMAIN r) = Cardinality(DOMAIN kept) - 1
      BY <2>2, <1>2, FS_RemoveElement
    <2>4. Cardinality(DOMAIN r) \in Nat
      BY <2>3, FS_CardinalityType
    <2>. QED
      BY <2>2, <2>3, <2>4, <1>1, <1>2, CacheAssumption
  <1>. QED
    BY <1>3, <1>4, <1>5

-----------------------------------------------------------------------------
\* The invariant

\* The invariant holds initially.
LEMMA InitIInv == Init => IInv
  <1> SUFFICES ASSUME Init PROVE IInv
    OBVIOUS
  <1>1. DOMAIN items = {}
    BY DEF Init
  <1>2. TypeOK
    <2>1. untilTick \in 1..TTL
      BY CacheAssumption DEF Init
    <2>2. tickReady \in BOOLEAN
      BY DEF Init
    <2>. QED
      BY <1>1, <2>1, <2>2 DEF TypeOK
  <1>3. IsFiniteSet(DOMAIN items) /\ Cardinality(DOMAIN items) = 0
    BY <1>1, FS_EmptySet
  <1>. QED
    BY <1>2, <1>3, CacheAssumption DEF IInv, Bounded

\* Every step keeps the invariant.
LEMMA StepIInv == IInv /\ [Next]_vars => IInv'
  <1> SUFFICES ASSUME IInv, [Next]_vars PROVE IInv'
    OBVIOUS
  <1>. USE CacheAssumption
  <1>0. TypeOK /\ IsFiniteSet(DOMAIN items) /\ Cardinality(DOMAIN items) <= MaxSize
    BY DEF IInv, Bounded
  <1>1. ASSUME NEW k \in Key, NEW v \in Value, Set(k, v) PROVE IInv'
    <2>1. PICK r \in MadeRoom(items) : items' = Inserted(r, k, v)
      BY <1>1 DEF Set
    <2>2. /\ DOMAIN r \subseteq DOMAIN items
          /\ \A x \in DOMAIN r : r[x] = items[x]
          /\ IsFiniteSet(DOMAIN r)
          /\ Cardinality(DOMAIN r) \in Nat
          /\ Cardinality(DOMAIN r) < MaxSize
      BY <1>0, <2>1, RoomIsMade
    <2>3. /\ DOMAIN items' = DOMAIN r \cup {k}
          /\ \A x \in DOMAIN items' :
                items'[x] = IF x = k THEN [value |-> v, left |-> TTL] ELSE r[x]
      BY <2>1 DEF Inserted
    <2>4. TypeOK'
      BY <1>0, <1>1, <2>2, <2>3 DEF TypeOK, Entry, Set, Lapsed
    <2>5. IsFiniteSet(DOMAIN r \cup {k}) /\ Cardinality(DOMAIN r \cup {k}) <= MaxSize
      <3>1. /\ IsFiniteSet(DOMAIN r \cup {k})
            /\ \/ Cardinality(DOMAIN r \cup {k}) = Cardinality(DOMAIN r)
               \/ Cardinality(DOMAIN r \cup {k}) = Cardinality(DOMAIN r) + 1
        BY <2>2, FS_AddElement
      <3>. QED
        BY <2>2, <3>1
    <2>. QED
      BY <2>3, <2>4, <2>5 DEF IInv, Bounded
  <1>2. ASSUME NEW k \in Key, Delete(k) PROVE IInv'
    <2>1. /\ DOMAIN items' = DOMAIN items \ {k}
          /\ \A x \in DOMAIN items' : items'[x] = items[x]
      BY <1>2 DEF Delete, Without
    <2>2. TypeOK'
      BY <1>0, <1>2, <2>1 DEF TypeOK, Delete
    <2>3. IsFiniteSet(DOMAIN items \ {k}) /\ Cardinality(DOMAIN items \ {k}) <= MaxSize
      <3>1. DOMAIN items \ {k} \in SUBSET DOMAIN items
        OBVIOUS
      <3>2. /\ IsFiniteSet(DOMAIN items \ {k})
            /\ Cardinality(DOMAIN items \ {k}) <= Cardinality(DOMAIN items)
        BY <1>0, <3>1, FS_Subset
      <3>. QED
        BY <1>0, <3>2, FS_CardinalityType
    <2>. QED
      BY <2>1, <2>2, <2>3 DEF IInv, Bounded
  <1>3. CASE Cleanup
    <2>1. /\ DOMAIN items' = Live(items)
          /\ Live(items) \subseteq DOMAIN items
          /\ \A x \in DOMAIN items' : items'[x] = items[x]
      BY <1>3 DEF Cleanup, EvictExpired, Live
    <2>2. TypeOK'
      BY <1>0, <1>3, <2>1 DEF TypeOK, Cleanup
    <2>3. IsFiniteSet(DOMAIN items') /\ Cardinality(DOMAIN items') <= MaxSize
      BY <1>0, <2>1, LiveSubset
    <2>. QED
      BY <2>2, <2>3 DEF IInv, Bounded
  <1>4. CASE Tick
    <2>1. DOMAIN items' = DOMAIN items
      BY <1>4 DEF Tick
    <2>2. TypeOK'
      BY <1>0, <1>4, <2>1 DEF TypeOK, Tick, Entry, Lapsed
    <2>. QED
      BY <1>0, <2>1, <2>2 DEF IInv, Bounded
  <1>5. CASE UNCHANGED vars
    BY <1>0, <1>5 DEF IInv, TypeOK, Bounded, vars
  <1>. QED
    BY <1>1, <1>2, <1>3, <1>4, <1>5 DEF Next

(***************************************************************************)
(* The cache's state stays well-typed: in particular no live entry ever    *)
(* has more than its TTL left, and the cleanup ticker never stops.         *)
(***************************************************************************)
THEOREM TypeInvariant == Spec => []TypeOK
  <1>1. IInv => TypeOK
    BY DEF IInv
  <1>. QED
    BY <1>1, InitIInv, StepIInv, PTL DEF Spec

(***************************************************************************)
(* The map never holds more than maxSize entries, expired or not.          *)
(***************************************************************************)
THEOREM BoundInvariant == Spec => []Bounded
  <1>1. IInv => Bounded
    BY DEF IInv
  <1>. QED
    BY <1>1, InitIInv, StepIInv, PTL DEF Spec

-----------------------------------------------------------------------------
\* The refinement

\* What callers see: the live keys, their values and their ages.
LEMMA VisibleEntries ==
    /\ DOMAIN Visible = Live(items)
    /\ \A k \in Live(items) :
          Visible[k] = [value |-> items[k].value, age |-> TTL - items[k].left]
  BY DEF Visible

\* The instance's Cardinality is the one this module extends FiniteSets for.
LEMMA StoreCardinality == \A S : Store!Cardinality(S) = Cardinality(S)
  BY DEF Store!Cardinality, Cardinality

\* The cache starts as the empty store.
LEMMA InitRefines == Init => Store!Init
  <1> SUFFICES ASSUME Init PROVE Store!Init
    OBVIOUS
  <1>1. Live(items) = {}
    BY DEF Init, Live
  <1>. QED
    BY <1>1 DEF Store!Init, Visible

(***************************************************************************)
(* A Set is a Put: when it displaces a live key, MadeRoom has gone past    *)
(* both size tests, and the second counts exactly the live entries.        *)
(***************************************************************************)
LEMMA SetRefines ==
    ASSUME IInv, NEW k \in Key, NEW v \in Value, Set(k, v)
    PROVE  Store!Put(k, v)
  <1>. USE CacheAssumption
  <1>1. TypeOK /\ IsFiniteSet(DOMAIN items) /\ Cardinality(DOMAIN items) <= MaxSize
    BY DEF IInv, Bounded
  <1>2. PICK r \in MadeRoom(items) : items' = Inserted(r, k, v)
    BY DEF Set
  <1>3. /\ DOMAIN r \subseteq DOMAIN items
        /\ \A x \in DOMAIN r : r[x] = items[x]
        /\ IsFiniteSet(DOMAIN r)
        /\ Cardinality(DOMAIN r) \in Nat
        /\ Cardinality(DOMAIN r) < MaxSize
    BY <1>1, <1>2, RoomIsMade
  <1>4. Visible' = [x \in Live(r) \cup {k} |->
                       IF x = k THEN [value |-> v, age |-> 0] ELSE Visible[x]]
    <2>1. Live(items') = Live(r) \cup {k}
      BY <1>2 DEF Inserted, Live, Lapsed
    <2>2. ASSUME NEW x \in Live(r) \cup {k}
          PROVE  [value |-> items'[x].value, age |-> TTL - items'[x].left]
                   = IF x = k THEN [value |-> v, age |-> 0] ELSE Visible[x]
      <3>1. CASE x = k
        BY <1>2, <3>1 DEF Inserted
      <3>2. CASE x # k
        <4>1. x \in DOMAIN r /\ x \in Live(items)
          BY <1>3, <2>2, <3>2 DEF Live
        <4>2. items'[x] = items[x]
          BY <1>2, <1>3, <3>2, <4>1 DEF Inserted
        <4>. QED
          BY <3>2, <4>1, <4>2, VisibleEntries
      <3>. QED
        BY <3>1, <3>2
    <2>. QED
      BY <2>1, <2>2 DEF Visible
  <1>5. Cardinality(DOMAIN Visible') <= MaxSize
    <2>1. Live(r) \in SUBSET DOMAIN r
      BY DEF Live
    <2>2. IsFiniteSet(Live(r)) /\ Cardinality(Live(r)) \in Nat
          /\ Cardinality(Live(r)) <= Cardinality(DOMAIN r)
      BY <1>3, <2>1, FS_Subset, FS_CardinalityType
    <2>3. \/ Cardinality(Live(r) \cup {k}) = Cardinality(Live(r))
          \/ Cardinality(Live(r) \cup {k}) = Cardinality(Live(r)) + 1
      BY <2>2, FS_AddElement
    <2>4. Cardinality(Live(r) \cup {k}) \in Nat
      BY <2>2, FS_AddElement, FS_CardinalityType
    <2>. QED
      BY <1>3, <1>4, <2>2, <2>3, <2>4
  <1>6. CASE Live(r) = Live(items)
    <2>1. Visible' = Store!Written(Visible, {}, k, v)
      BY <1>4, <1>6, VisibleEntries DEF Store!Written
    <2>. QED
      BY <2>1, <1>5, StoreCardinality DEF Store!Put, Store!Held
  <1>7. CASE Live(r) # Live(items)
    <2>. DEFINE kept == EvictExpired(items)
    <2>1. DOMAIN kept = Live(items) /\ Live(kept) = Live(items)
      BY DEF EvictExpired, Live
    <2>2. /\ ~(Cardinality(Live(items)) < MaxSize)
          /\ r \in {Without(kept, x) : x \in DOMAIN kept}
      BY <1>2, <1>7, <2>1 DEF MadeRoom
    <2>3. PICK x \in Live(items) : r = Without(kept, x)
      BY <2>1, <2>2
    <2>4. Live(r) = Live(items) \ {x}
      BY <2>1, <2>3 DEF Without, Live
    <2>5. Visible' = Store!Written(Visible, {x}, k, v)
      BY <1>4, <2>4, VisibleEntries DEF Store!Written
    <2>6. Cardinality(Live(items)) >= MaxSize
      BY <1>1, <2>2, LiveSubset
    <2>. QED
      BY <2>3, <2>5, <2>6, <1>5, VisibleEntries, StoreCardinality DEF Store!Put, Store!Held
  <1>. QED
    BY <1>6, <1>7

(***************************************************************************)
(* Every step of the cache is a step of the store or invisible to callers; *)
(* cleanup is invisible.                                                   *)
(***************************************************************************)
LEMMA StepRefines == IInv /\ [Next]_vars => [Store!Next]_Visible
  <1> SUFFICES ASSUME IInv, [Next]_vars PROVE [Store!Next]_Visible
    OBVIOUS
  <1>. USE CacheAssumption
  <1>1. ASSUME NEW k \in Key, NEW v \in Value, Set(k, v) PROVE Store!Next
    BY <1>1, SetRefines DEF Store!Next
  <1>2. ASSUME NEW k \in Key, Delete(k) PROVE Store!Next
    <2>1. /\ Live(items') = Live(items) \ {k}
          /\ \A x \in Live(items') : items'[x] = items[x]
      BY <1>2 DEF Delete, Without, Live
    <2>2. Visible' = [x \in Live(items) \ {k} |-> Visible[x]]
      BY <2>1, VisibleEntries DEF Visible
    <2>3. Store!Remove(k)
      BY <2>2, VisibleEntries DEF Store!Remove, Store!Held
    <2>. QED
      BY <1>2, <2>3 DEF Store!Next
  <1>3. CASE Cleanup
    <2>1. /\ Live(items') = Live(items)
          /\ \A x \in Live(items) : items'[x] = items[x]
      BY <1>3 DEF Cleanup, EvictExpired, Live
    <2>2. Visible' = Visible
      BY <2>1 DEF Visible
    <2>. QED
      BY <2>2
  <1>4. CASE Tick
    <2>1. \A x \in DOMAIN items : items[x].left \in Lapsed..TTL
      BY DEF IInv, TypeOK, Entry
    <2>2. /\ DOMAIN items' = DOMAIN items
          /\ \A x \in DOMAIN items :
               /\ items'[x].value = items[x].value
               /\ items'[x].left = IF items[x].left = Lapsed
                                   THEN Lapsed ELSE items[x].left - 1
      BY <1>4 DEF Tick
    <2>3. Live(items') = {x \in Live(items) : TTL - items[x].left < TTL}
      BY <2>1, <2>2 DEF Live, Lapsed
    <2>4. \A x \in Live(items') : TTL - items'[x].left = (TTL - items[x].left) + 1
      BY <2>1, <2>2, <2>3 DEF Live, Lapsed
    <2>5. Live(items') = {x \in DOMAIN Visible : Visible[x].age < TTL}
      BY <2>3, VisibleEntries
    <2>6. ASSUME NEW x \in Live(items')
          PROVE  [value |-> items'[x].value, age |-> TTL - items'[x].left]
                   = [value |-> Visible[x].value, age |-> Visible[x].age + 1]
      <3>1. x \in Live(items) /\ x \in DOMAIN items
        BY <2>3 DEF Live
      <3>2. /\ Visible[x].value = items[x].value
            /\ Visible[x].age = TTL - items[x].left
        BY <3>1, VisibleEntries
      <3>. QED
        BY <2>2, <2>4, <3>1, <3>2
    <2>7. Visible' = [x \in {y \in DOMAIN Visible : Visible[y].age < TTL} |->
                        [value |-> Visible[x].value, age |-> Visible[x].age + 1]]
      BY <2>5, <2>6 DEF Visible
    <2>. QED
      BY <2>7 DEF Store!Next, Store!Age, Store!Held
  <1>5. CASE UNCHANGED vars
    BY <1>5 DEF vars, Visible, Live
  <1>. QED
    BY <1>1, <1>2, <1>3, <1>4, <1>5 DEF Next

(***************************************************************************)
(* The cache implements the store its callers rely on.                     *)
(***************************************************************************)
THEOREM Refinement == Spec => ImplementsStore
  BY InitIInv, StepIInv, InitRefines, StepRefines, PTL DEF Spec, ImplementsStore, Store!Spec
=============================================================================
