---------------------------- MODULE ExpiringStore ----------------------------
(***************************************************************************)
(* What internal/cache promises its callers, whatever its housekeeping     *)
(* does: a store of bounded capacity in which a key holds the value last   *)
(* put under it, for TTL units of time and not longer.  A Put may displace *)
(* one other key, and only when the store already holds Capacity keys.     *)
(* TTLCache implements this specification; the modules that use a cache    *)
(* compose with this one.                                                  *)
(***************************************************************************)
EXTENDS Naturals, FiniteSets

CONSTANTS
    Key,
    Value,
    TTL,        \* a natural number: how many ticks a value is held
    Capacity    \* a positive number: how many keys are held at most

VARIABLE store  \* the keys held -> their value and its age

Held == DOMAIN store

(***************************************************************************)
(* s with v, just written, under k and without the keys in lost.           *)
(***************************************************************************)
Written(s, lost, k, v) ==
    [x \in (DOMAIN s \ lost) \cup {k} |->
        IF x = k THEN [value |-> v, age |-> 0] ELSE s[x]]

Init == store = [k \in {} |-> [value |-> k, age |-> 0]]

Put(k, v) ==
    /\ \/ store' = Written(store, {}, k, v)
       \/ /\ Cardinality(Held) >= Capacity
          /\ \E x \in Held : store' = Written(store, {x}, k, v)
    /\ Cardinality(DOMAIN store') <= Capacity

Remove(k) == store' = [x \in Held \ {k} |-> store[x]]

(***************************************************************************)
(* Time passes: everything held ages, and what was TTL old is gone.        *)
(***************************************************************************)
Age ==
    store' = [k \in {x \in Held : store[x].age < TTL} |->
                 [value |-> store[k].value, age |-> store[k].age + 1]]

Next ==
    \/ \E k \in Key, v \in Value : Put(k, v)
    \/ \E k \in Key : Remove(k)
    \/ Age

Spec == Init /\ [][Next]_store
=============================================================================
