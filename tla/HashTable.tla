------------------------------ MODULE HashTable ------------------------------
(***************************************************************************)
(* hash_table.h: chains of keys and values.  Resize takes the chains over  *)
(* as they are, so that a key whose hash has the new bit is looked for     *)
(* elsewhere than where it is.                                             *)
(*                                                                         *)
(* The arrays are allocated without being initialised: at the sizes the    *)
(* program uses they come from the system, which hands them out zeroed.    *)
(***************************************************************************)
EXTENDS Integers, Sequences, SequencesExt

CONSTANTS
    HashKey, HashVal, Hashed,   \* HashFunc, by key
    FirstBuckets,               \* a power of 2
    MaxBuckets,                 \* bound
    NOVAL

VARIABLES
    htable_,    \* chains of [key, val] by bucket
    size_used_,
    latest,     \* history: the value each key was last set to
    where       \* history: the number of buckets there were then

hashVars == <<htable_, size_used_, latest, where>>

Buckets(t) == Len(t)

Occupied(t) == Cardinality({i \in DOMAIN t : t[i] # << >>})

\* isNeedToExpand: LOADFACTOR is 0.72.
Crowded == size_used_ * 100 > 72 * Buckets(htable_)

Resize(t) == t \o [i \in 1..Buckets(t) |-> << >>]

IndexBeforeResize(t, k) == (Hashed[k] % Buckets(htable_)) + 1

\* genHashKey; the buckets are numbered from 1 here.
Index(t, k) == (Hashed[k] % Buckets(t)) + 1

\* The first entry of a chain with key k.
Found(chain, k) ==
    {i \in DOMAIN chain : chain[i].key = k /\ \A j \in 1..i - 1 : chain[j].key # k}

hset(k, v) ==
    /\ Crowded => Buckets(htable_) < MaxBuckets
    /\ LET t     == IF Crowded THEN Resize(htable_) ELSE htable_
           used  == IF Crowded THEN Occupied(t) ELSE size_used_
           i     == Index(t, k)
           found == Found(t[i], k)
       IN  /\ htable_' = [t EXCEPT ![i] =
                IF found = {} THEN <<[key |-> k, val |-> v]>> \o @
                ELSE [j \in DOMAIN @ |-> IF j \in found THEN [@[j] EXCEPT !.val = v] ELSE @[j]]]
           /\ size_used_' = IF t[i] = << >> THEN used + 1 ELSE used
           /\ where' = [where EXCEPT ![k] = Buckets(t)]
    /\ latest' = [latest EXCEPT ![k] = v]

hget(k) ==
    LET chain == htable_[Index(htable_, k)]
    IN  IF Found(chain, k) = {} THEN NOVAL
        ELSE chain[CHOOSE i \in Found(chain, k) : TRUE].val

Init ==
    /\ htable_ = [i \in 1..FirstBuckets |-> << >>] /\ size_used_ = 0
    /\ latest = [k \in HashKey |-> NOVAL] /\ where = [k \in HashKey |-> 0]

Next == \E k \in HashKey, v \in HashVal : hset(k, v)

Spec == Init /\ [][Next]_hashVars

-----------------------------------------------------------------------------
\* hget finds the value a key was last set to where the buckets added since do
\* not change its place, and nothing where they do: never an older value, though
\* older entries of the key stay in the chains.
NeverStale ==
    \A k \in HashKey :
        hget(k) = IF latest[k] # NOVAL /\ Hashed[k] % where[k] = Hashed[k] % Buckets(htable_)
                  THEN latest[k] ELSE NOVAL
=============================================================================
