------------------------------ MODULE TTLCache ------------------------------
(***************************************************************************)
(* internal/cache/cache.go: one TTLCache and its cleanup goroutine.  Every *)
(* method holds the cache's mutex for its whole body, so a call is one     *)
(* step.  An entry's ExpiresAt is kept relative to the clock: left is the  *)
(* time it still has, and Lapsed once the clock is past ExpiresAt, so that *)
(* time needs no bound.                                                    *)
(***************************************************************************)
EXTENDS Integers, FiniteSets

CONSTANTS
    Key,
    Value,
    TTL,        \* cache.New's ttl, in ticks of the clock
    MaxSize     \* cache.New's maxSize

(***************************************************************************)
(* NewEngine passes 5s/1000 and 5m/10000.  With maxSize = 0 Set would      *)
(* still insert; no caller does that.                                      *)
(***************************************************************************)
ASSUME CacheAssumption == TTL \in Nat \ {0} /\ MaxSize \in Nat \ {0}

VARIABLES
    items,      \* c.items: the keys present -> [value, left]
    untilTick,  \* time until the cleanup ticker next fires
    tickReady   \* the ticker's channel (capacity 1) holds a tick

vars == <<items, untilTick, tickReady>>

Lapsed == -1

Entry == [value : Value, left : Lapsed..TTL]

(***************************************************************************)
(* The keys Get finds: neither Get nor evictExpired counts an entry as     *)
(* expired before the clock is strictly After ExpiresAt.                   *)
(***************************************************************************)
Live(its) == {k \in DOMAIN its : its[k].left # Lapsed}

EvictExpired(its) == [k \in Live(its) |-> its[k]]

Without(its, k) == [x \in DOMAIN its \ {k} |-> its[x]]

(***************************************************************************)
(* Mutated forms of MadeRoom: the size test off by one, and evictAny       *)
(* called without evictExpired before it.                                  *)
(***************************************************************************)
MadeRoomOneLate(its) ==
    IF Cardinality(DOMAIN its) <= MaxSize THEN {its}
    ELSE {Without(EvictExpired(its), x) : x \in Live(its)}

MadeRoomBlindly(its) ==
    IF Cardinality(DOMAIN its) < MaxSize THEN {its}
    ELSE {Without(its, x) : x \in DOMAIN its}

(***************************************************************************)
(* The maps Set may insert into.  evictAny drops whichever key the map's   *)
(* iteration yields first, and runs only when dropping the expired entries *)
(* freed nothing.  Set does not look whether its key is already present.   *)
(***************************************************************************)
MadeRoom(its) ==
    LET kept == EvictExpired(its)
    IN  IF Cardinality(DOMAIN its) < MaxSize THEN {its}
        ELSE IF Cardinality(DOMAIN kept) < MaxSize THEN {kept}
        ELSE {Without(kept, x) : x \in DOMAIN kept}

Inserted(its, k, v) ==
    [x \in DOMAIN its \cup {k} |->
        IF x = k THEN [value |-> v, left |-> TTL] ELSE its[x]]

-----------------------------------------------------------------------------

Init ==
    /\ items = [k \in {} |-> k]
    /\ untilTick = TTL
    /\ tickReady = FALSE

Set(k, v) ==
    /\ \E its \in MadeRoom(items) : items' = Inserted(its, k, v)
    /\ UNCHANGED <<untilTick, tickReady>>

Delete(k) ==
    /\ items' = Without(items, k)
    /\ UNCHANGED <<untilTick, tickReady>>

(***************************************************************************)
(* The cleanup goroutine takes the tick and drops what has expired.        *)
(***************************************************************************)
Cleanup ==
    /\ tickReady
    /\ items' = EvictExpired(items)
    /\ tickReady' = FALSE
    /\ UNCHANGED untilTick

(***************************************************************************)
(* Mutated form of Tick: a timer that fires once, in place of the ticker.  *)
(***************************************************************************)
TickOneShot ==
    /\ items' = [k \in DOMAIN items |->
                    [items[k] EXCEPT !.left = IF @ = Lapsed THEN @ ELSE @ - 1]]
    /\ untilTick' = IF untilTick = 0 THEN 0 ELSE untilTick - 1
    /\ tickReady' = (tickReady \/ untilTick = 1)

(***************************************************************************)
(* The clock advances.  The ticker fires every TTL; a tick that finds the  *)
(* channel full is dropped.                                                *)
(***************************************************************************)
Tick ==
    /\ items' = [k \in DOMAIN items |->
                    [value |-> items[k].value,
                     left  |-> IF items[k].left = Lapsed
                               THEN Lapsed ELSE items[k].left - 1]]
    /\ untilTick' = IF untilTick = 1 THEN TTL ELSE untilTick - 1
    /\ tickReady' = (tickReady \/ untilTick = 1)

Next ==
    \/ \E k \in Key, v \in Value : Set(k, v)
    \/ \E k \in Key : Delete(k)
    \/ Cleanup
    \/ Tick

(***************************************************************************)
(* The clock runs and the cleanup goroutine is scheduled; nobody has to    *)
(* call the cache.                                                         *)
(***************************************************************************)
Fairness == WF_vars(Tick) /\ WF_vars(Cleanup)

Spec == Init /\ [][Next]_vars

FairSpec == Spec /\ Fairness

-----------------------------------------------------------------------------

TypeOK ==
    /\ DOMAIN items \subseteq Key
    /\ \A k \in DOMAIN items : items[k] \in Entry
    /\ untilTick \in 1..TTL
    /\ tickReady \in BOOLEAN

(***************************************************************************)
(* The map never outgrows maxSize, expired entries included, whatever the  *)
(* order of insertions, overwrites at capacity, expiry and cleanup.        *)
(***************************************************************************)
Bounded == Cardinality(DOMAIN items) <= MaxSize

(***************************************************************************)
(* Callers see an ExpiringStore: no value outlives its TTL or loses it     *)
(* early, cleanup is invisible, and Set displaces a key that is still good *)
(* only when all maxSize places are taken by good ones.                    *)
(***************************************************************************)
Visible ==
    [k \in Live(items) |->
        [value |-> items[k].value, age |-> TTL - items[k].left]]

Store == INSTANCE ExpiringStore WITH store <- Visible, Capacity <- MaxSize

ImplementsStore == Store!Spec

(***************************************************************************)
(* An expired entry does not stay in memory: the ticker always comes round *)
(* to it, unless a Set or Delete got there first.                          *)
(***************************************************************************)
ExpiredIsCollected ==
    \A k \in Key : (k \in DOMAIN items \ Live(items))
                       ~> (k \notin DOMAIN items \ Live(items))
=============================================================================
